---------------------------- MODULE SpeechProofs ----------------------------
(***************************************************************************)
(* Proofs about what is said, with one worker: under whose name a line     *)
(* goes out, whom a private message reaches, whom a broadcast, and in      *)
(* which order lines are heard.                                            *)
(***************************************************************************)
EXTENDS OneWorkerProofs

\* The places of a worker that has a text of its client's in hand, and those between the end
\* of a connection and that of its entry.
Reading == {"recv", "close", "dispatch", "setnick", "talk", "say", "show", "private"}
Talking == {"talk", "say", "show", "private"}
Leaving(t, f) == t.pc \in {"readname", "erase"} /\ t.fd = f

\* How many messages of a connection (its record k) the server has taken, and how many of them the worker
\* has in hand for descriptor f.
Taken(k) == k.sent - Len(k.rx)
Held(t, f) == IF t.pc \in Reading /\ t.fd = f THEN Len(t.buf) ELSE 0

\* What is still to be taken are the messages that come next.
RxOK(c) ==
  /\ Len(conn[c].rx) <= conn[c].sent
  /\ \A i \in DOMAIN conn[c].rx : conn[c].rx[i].no = Taken(conn[c]) + i
  /\ Waiting(c) => Taken(conn[c]) = 0

\* The connections that were reset after they were accepted.
Gone == {c \in ResetConns : ~Waiting(c)}

\* The entry e of a connection c of which n messages were taken and h are in hand: before it
\* has a name all that was taken is in hand; its name is what was taken first, and what is
\* in hand came later.
EntryOK(e, c, n, h) ==
  /\ e = NoEntry \/ ~e.named => n = h
  /\ e # NoEntry /\ ~e.named => e.nick = <<>>
  /\ e # NoEntry /\ e.named =>
       /\ e.nick # <<>> /\ From(e.nick, c)
       /\ e.nick[1].no = 1 /\ e.nick[Len(e.nick)].no + h <= n

\* An entry without a name, or with that of a connection in R.
Blank(e) == e = NoEntry \/ (~e.named /\ e.nick = <<>>)
Inherited(e, R) ==
  /\ e # NoEntry /\ e.named /\ e.nick # <<>>
  /\ \E s \in R : From(e.nick, s) /\ e.nick[1].no = 1

\* What descriptor f has for an entry: its connection's own; or one left behind by a
\* connection that was reset; or one without a name, its connection's first text having been
\* dropped when the reset was read.
SeatOK(f, t) ==
  /\ IsOpen(f) => \/ EntryOK(clients[f], sock[f], Taken(conn[sock[f]]), Held(t, f))
                  \/ Inherited(clients[f], Gone \ {sock[f]})
                  \/ /\ Blank(clients[f]) /\ Held(t, f) = 0
                     /\ sock[f] \in Gone /\ conn[sock[f]].rx = <<>>
  /\ ~IsOpen(f) /\ ~Leaving(t, f) => Blank(clients[f]) \/ Inherited(clients[f], Gone)

\* A text in hand is the last of the n messages taken from c.
TextOK(text, c, n) ==
  \A i \in DOMAIN text : text[i].src = c /\ text[i].no = n - Len(text) + i

\* A chat line goes out under the name of its sender, or of a connection in R.
Spoken(notice, R) ==
  LET nick == notice.nick
      body == notice.body IN
  /\ nick # <<>> /\ nick # Garbage
  /\ From(nick, Head(nick).src) /\ From(body, Head(body).src) /\ Head(nick).no = 1
  /\ IF Head(nick).src = Head(body).src THEN Last(nick).no < Head(body).no
                                        ELSE Head(nick).src \in R

PartOK(t) ==
  /\ t.pc \in {"setnick"} \union Talking => t.buf # <<>>
  /\ t.pc = "setnick" => ~clients[t.fd].named
  /\ t.pc \in Talking => clients[t.fd].named
  /\ t.out.kind = "say" => t.pc = "bcast" /\ Spoken(t.out, Gone)
  /\ t.out.kind = "private" => t.pc = "private"
  /\ t.pc = "private" => t.out.body = t.buf /\ t.out.nick \in NamesRead(t.buf)

SpeechOK(t) ==
  /\ \A f \in Fds : SeatOK(f, t)
  /\ t.pc \in Reading => TextOK(t.buf, sock[t.fd], Taken(conn[sock[t.fd]]))
  /\ PartOK(t)

SpeechInv == (\A c \in Conns : RxOK(c)) /\ \A w \in Workers : SpeechOK(th[w])

\* Everyone the loop of a broadcast has passed, but the user it is about and those whose
\* buffer may be full, has just been sent the message.
ReachInv ==
  \A w \in Workers : th[w].pc = "bcast" =>
    \A f \in Keys \ {th[w].fd} :
      f <= th[w].cur /\ IsOpen(f) /\ conn[sock[f]].peer = "up" /\ sock[f] \notin Slow =>
        conn[sock[f]].inbox # <<>> /\ Last(conn[sock[f]].inbox) = th[w].out

-----------------------------------------------------------------------------
(* What the server has taken.                                              *)

\* Nobody but a worker in recv takes a message, and no client goes back into the queue.
LEMMA UnreadKept ==
  ASSUME IInv, Base, NEW w \in Workers, Worker(w), ~Recv(w)
  PROVE  \A c \in Conns : /\ conn'[c].rx = conn[c].rx /\ conn'[c].sent = conn[c].sent
                          /\ Waiting(c)' => Waiting(c)
<1>1. ASSUME \A c \in Conns : /\ conn'[c].rx = conn[c].rx /\ conn'[c].sent = conn[c].sent
                              /\ conn'[c].peer = "idle" => conn[c].peer = "idle",
             UNCHANGED backlog
      PROVE  \A c \in Conns : /\ conn'[c].rx = conn[c].rx /\ conn'[c].sent = conn[c].sent
                              /\ Waiting(c)' => Waiting(c)
  BY <1>1 DEF Waiting
<1>2. CASE Lock(w) \/ EpollWait(w) \/ EpollInterrupted(w) \/ Unlock(w) \/ NextEvent(w)
           \/ CheckEvent(w) \/ Insert(w) \/ ReadName(w) \/ Erase(w) \/ Dispatch(w)
           \/ SetNick(w) \/ Welcome(w) \/ Say(w)
  <2>1. UNCHANGED <<conn, backlog>>
    BY <1>2 DEF Lock, EpollWait, EpollInterrupted, Unlock, NextEvent, CheckEvent, Insert, ReadName,
                Erase, Dispatch, SetNick, Welcome, Say, Announce, netVars
  <2> QED
    BY <1>1, <2>1
<1>3. CASE ErrClose(w) \/ CloseConn(w)
  <2>1. UNCHANGED backlog /\ Close(th[w].fd)
    BY <1>3, Closing
  <2> QED
    BY <1>1, <2>1, Types DEF Close, ConnState
<1>4. CASE Accept(w)
  <2>1. UNCHANGED conn /\ (backlog' = backlog \/ (backlog # <<>> /\ backlog' = Tail(backlog)))
    BY <1>4, Accepted
  <2>2. Range(backlog') \subseteq Range(backlog)
    BY <2>1, Types, RangeTail
  <2> QED
    BY <2>1, <2>2 DEF Waiting
<1>5. CASE AddFd(w) \/ SetNonblocking(w)
  <2>1. /\ UNCHANGED backlog /\ sock[th[w].fd] \in Conns
        /\ \/ conn' = [conn EXCEPT ![sock[th[w].fd]].watch = th[w].fd]
           \/ conn' = [conn EXCEPT ![sock[th[w].fd]].nonblock = TRUE]
    BY <1>5, Opens
  <2>2. ASSUME NEW d \in Conns, NEW f,
               \/ conn' = [conn EXCEPT ![d].watch = f]
               \/ conn' = [conn EXCEPT ![d].nonblock = TRUE]
        PROVE  \A c \in Conns : /\ conn'[c].rx = conn[c].rx /\ conn'[c].sent = conn[c].sent
                                /\ conn'[c].peer = conn[c].peer
    <3>1. CASE conn' = [conn EXCEPT ![d].watch = f]
      BY <3>1, Types DEF ConnState
    <3>2. CASE conn' = [conn EXCEPT ![d].nonblock = TRUE]
      BY <3>2, Types DEF ConnState
    <3> QED
      BY <2>2, <3>1, <3>2
  <2> QED
    BY <1>1, <2>1, <2>2
<1>6. CASE Talk(w) \/ ShowStep(w) \/ BroadcastStep(w) \/ PrivateStep(w)
  <2>1. UNCHANGED <<sock, backlog>> /\ (Sends \/ Reports \/ Quiet)
    BY <1>6, LoopEffects DEF SendFrame
  <2>2. CASE Sends
    <3>1. PICK f \in Fds, msg \in Notice : IsOpen(f) /\ conn' = Sent(sock[f], msg)
      BY <2>2 DEF Sends
    <3>2. \A c \in Conns : /\ conn'[c].rx = conn[c].rx /\ conn'[c].sent = conn[c].sent
                           /\ conn'[c].peer = "idle" => conn[c].peer = "idle"
      BY <3>1, Types DEF Sent, ConnState
    <3> QED
      BY <1>1, <2>1, <3>2
  <2>3. CASE Reports
    BY <1>1, <2>1, <2>3, Types DEF Reports, Reported, ConnState
  <2>4. CASE Quiet
    BY <1>1, <2>4 DEF Quiet
  <2> QED
    BY <2>1, <2>2, <2>3, <2>4
<1>7. ~Blocked(w)
  BY DEF Blocked, At, Base, PlaceOK
<1> QED
  BY <1>2, <1>3, <1>4, <1>5, <1>6, <1>7 DEF Worker

\* Taking the first message of a connection makes it the last that was taken.
LEMMA TakeOne ==
  ASSUME IInv, NEW c \in Conns, RxOK(c), conn[c].rx # <<>>,
         conn' = [conn EXCEPT ![c].rx = Tail(@)]
  PROVE  /\ Len(conn'[c].rx) <= conn'[c].sent
         /\ \A i \in DOMAIN conn'[c].rx : conn'[c].rx[i].no = Taken(conn'[c]) + i
         /\ Taken(conn'[c]) = Taken(conn[c]) + 1 /\ Taken(conn[c]) \in Nat
         /\ Head(conn[c].rx).no = Taken(conn[c]) + 1
         /\ \A d \in Conns \ {c} : conn'[d] = conn[d]
<1>1. conn[c] \in ConnState /\ conn[c].rx \in Seq(Msg) /\ conn[c].sent \in Nat
  BY Types DEF ConnState
<1>2. conn'[c].rx = Tail(conn[c].rx) /\ conn'[c].sent = conn[c].sent
      /\ \A d \in Conns \ {c} : conn'[d] = conn[d]
  BY <1>1, Types DEF ConnState
<1>3. /\ Len(conn[c].rx) \in Nat /\ Len(Tail(conn[c].rx)) = Len(conn[c].rx) - 1
      /\ Len(conn[c].rx) >= 1
  BY <1>1
<1>4. Taken(conn'[c]) = Taken(conn[c]) + 1 /\ Taken(conn[c]) \in Nat
  <2>1. Len(conn'[c].rx) = Len(conn[c].rx) - 1 /\ Len(conn[c].rx) <= conn[c].sent
    BY <1>2, <1>3 DEF RxOK
  <2> QED
    BY <1>1, <1>2, <1>3, <2>1 DEF Taken
<1>5. /\ \A i \in DOMAIN Tail(conn[c].rx) : /\ i + 1 \in DOMAIN conn[c].rx /\ i \in Nat
                                            /\ Tail(conn[c].rx)[i] = conn[c].rx[i + 1]
      /\ 1 \in DOMAIN conn[c].rx /\ Head(conn[c].rx) = conn[c].rx[1]
  BY <1>1, RangeTail
<1>6. Head(conn[c].rx).no = Taken(conn[c]) + 1
  BY <1>5 DEF RxOK
<1>7. ASSUME NEW i \in DOMAIN conn'[c].rx
      PROVE  conn'[c].rx[i].no = Taken(conn'[c]) + i
  <2>1. conn'[c].rx[i] = conn[c].rx[i + 1] /\ i + 1 \in DOMAIN conn[c].rx /\ i \in Nat
    BY <1>2, <1>5
  <2>2. conn[c].rx[i + 1].no = Taken(conn[c]) + (i + 1)
    BY <2>1 DEF RxOK
  <2> QED
    BY <1>4, <2>1, <2>2
<1>8. Len(conn'[c].rx) <= conn'[c].sent
  BY <1>1, <1>2, <1>3 DEF RxOK
<1> QED
  BY <1>2, <1>4, <1>6, <1>7, <1>8

\* What a client sends is the next message behind those that wait.
LEMMA SendOne ==
  ASSUME IInv, NEW c \in Conns, RxOK(c), ClientSend(c)
  PROVE  /\ RxOK(c)' /\ Taken(conn'[c]) = Taken(conn[c])
         /\ \A d \in Conns \ {c} : conn'[d] = conn[d]
         /\ conn'[c].peer = conn[c].peer
<1>1. PICK form \in Forms, to \in Conns :
        conn' = [conn EXCEPT ![c].sent = @ + 1,
                             ![c].rx = Append(@, [src |-> c, no |-> conn[c].sent + 1,
                                                  form |-> form, to |-> to])]
  BY SocketAssumption DEF ClientSend
<1> DEFINE m == [src |-> c, no |-> conn[c].sent + 1, form |-> form, to |-> to]
<1>2. conn[c] \in ConnState /\ conn[c].rx \in Seq(Msg) /\ conn[c].sent \in Nat
  BY Types DEF ConnState
<1>3. m \in Msg /\ m.no = conn[c].sent + 1
  BY <1>2 DEF Msg
<1>4. /\ conn'[c].rx = Append(conn[c].rx, m) /\ conn'[c].sent = conn[c].sent + 1
      /\ \A d \in Conns \ {c} : conn'[d] = conn[d]
      /\ conn'[c].peer = conn[c].peer
  BY <1>1, <1>2, Types DEF ConnState
<1> HIDE DEF m
<1>5. /\ Len(conn[c].rx) \in Nat /\ Len(Append(conn[c].rx, m)) = Len(conn[c].rx) + 1
      /\ DOMAIN Append(conn[c].rx, m) = 1..Len(conn[c].rx) + 1
      /\ DOMAIN conn[c].rx = 1..Len(conn[c].rx)
      /\ \A i \in 1..Len(conn[c].rx) + 1 :
           Append(conn[c].rx, m)[i] = IF i = Len(conn[c].rx) + 1 THEN m ELSE conn[c].rx[i]
  BY <1>2, <1>3
<1>6. Taken(conn'[c]) = Taken(conn[c]) /\ Len(conn'[c].rx) <= conn'[c].sent
  BY <1>2, <1>4, <1>5 DEF Taken, RxOK
<1>7. ASSUME NEW i \in DOMAIN conn'[c].rx
      PROVE  conn'[c].rx[i].no = Taken(conn[c]) + i
  <2>1. i \in 1..Len(conn[c].rx) + 1
    BY <1>4, <1>5, <1>7
  <2>2. CASE i = Len(conn[c].rx) + 1
    BY <1>2, <1>3, <1>4, <1>5, <2>1, <2>2, SMTT(30) DEF Taken
  <2>3. CASE i # Len(conn[c].rx) + 1
    <3>1. i \in DOMAIN conn[c].rx /\ conn'[c].rx[i] = conn[c].rx[i]
      BY <1>4, <1>5, <2>1, <2>3
    <3> QED
      BY <3>1 DEF RxOK
  <2> QED
    BY <2>2, <2>3
<1>8. Waiting(c)' => Waiting(c)
  BY <1>4 DEF Waiting, ClientSend
<1> QED
  BY <1>4, <1>6, <1>7, <1>8 DEF RxOK

\* What the clients do leaves what was taken as it was, and the descriptors.
LEMMA OutsideTaken ==
  ASSUME IInv, \A c \in Conns : RxOK(c), Outside
  PROVE  /\ \A c \in Conns : RxOK(c)' /\ Taken(conn'[c]) = Taken(conn[c])
         /\ \A c \in Conns : Waiting(c)' => Waiting(c)
         /\ \A c \in Conns : conn[c].peer # "up" => conn'[c].rx = conn[c].rx
         /\ UNCHANGED <<sock, clients, th>>
<1>1. PICK c \in Conns : Environment(c)
  BY DEF Outside
<1>2. CASE ClientSend(c)
  <2>1. UNCHANGED <<sock, backlog, clients, th>>
    BY <1>2 DEF ClientSend, Outside, regVars
  <2>2. \A d \in Conns \ {c} : RxOK(d)' /\ Taken(conn'[d]) = Taken(conn[d])
    BY <1>2, <2>1, SendOne DEF RxOK, Taken, Waiting
  <2>3. /\ conn'[c].peer = conn[c].peer /\ conn[c].peer = "up"
        /\ \A d \in Conns \ {c} : conn'[d] = conn[d]
    BY <1>2, SendOne DEF ClientSend
  <2>4. \A d \in Conns : /\ Waiting(d)' => Waiting(d)
                         /\ conn[d].peer # "up" => conn'[d].rx = conn[d].rx
    BY <2>1, <2>3 DEF Waiting
  <2> QED
    BY <1>2, <2>1, <2>2, <2>4, SendOne
<1>3. CASE /\ conn[c].peer # "idle" /\ UNCHANGED <<sock, backlog>>
           /\ \E p \in {"fin", "rsterr", "rst"} : conn' = [conn EXCEPT ![c].peer = p]
  <2>1. \A d \in Conns : /\ conn'[d].rx = conn[d].rx /\ conn'[d].sent = conn[d].sent
                         /\ conn'[d].peer = "idle" => conn[d].peer = "idle"
    BY <1>3, Types DEF ConnState
  <2>2. UNCHANGED <<clients, th>>
    BY DEF Outside, regVars
  <2> QED
    BY <1>3, <2>1, <2>2 DEF RxOK, Taken, Waiting
<1>4. CASE Connect(c)
  <2>1. \A d \in Conns : /\ conn'[d].rx = conn[d].rx /\ conn'[d].sent = conn[d].sent
                         /\ conn'[d].peer = "idle" => conn[d].peer = "idle"
    BY <1>4, Types DEF Connect, ConnState
  <2>2. UNCHANGED <<sock, clients, th>> /\ Range(backlog') = Range(backlog) \union {c}
    BY <1>4, Types, RangeAppend DEF Connect, Outside, regVars
  <2>3. \A d \in Conns : Waiting(d)' => Waiting(d)
    BY <1>4, <2>1, <2>2 DEF Waiting, Connect
  <2> QED
    BY <2>1, <2>2, <2>3 DEF RxOK, Taken
<1> QED
  BY <1>1, <1>2, <1>3, <1>4 DEF Environment, ClientClose, ClientAbort, ResetArrives, PeerBecomes

\* In recv the worker takes the first message, or meets the end of the stream,
\* goes on, or is told of a reset.
LEMMA ReadTaken ==
  ASSUME IInv, SocketsOK, Base, \A c \in Conns : RxOK(c), NEW w \in Workers, Recv(w)
  PROVE  /\ \A c \in Conns : RxOK(c)'
         /\ th[w].pc = "recv" /\ th[w].fd \in Fds /\ IsOpen(th[w].fd) /\ sock[th[w].fd] \in Conns
         /\ UNCHANGED <<sock, backlog, clients>> /\ th'[w].fd = th[w].fd
         /\ \/ /\ th'[w].pc = "recv" /\ th'[w].out = th[w].out /\ th'[w].cur = th[w].cur
               /\ conn[sock[th[w].fd]].rx # <<>>
               /\ conn' = [conn EXCEPT ![sock[th[w].fd]].rx = Tail(@)]
               /\ th'[w].buf = Append(th[w].buf, Head(conn[sock[th[w].fd]].rx))
            \/ /\ th'[w].pc \in {"close", "dispatch"} /\ th'[w].buf = th[w].buf /\ UNCHANGED conn
               /\ th'[w].out = th[w].out /\ th'[w].cur = th[w].cur
            \/ /\ conn[sock[th[w].fd]].peer = "rsterr" /\ conn[sock[th[w].fd]].rx = <<>>
               /\ Return(w) /\ conn' = Reported(sock[th[w].fd])
<1>0. PICK c \in Conns : c = sock[th[w].fd]
  BY Recvs
<1>1. /\ th[w].pc = "recv" /\ th[w].fd \in Fds /\ IsOpen(th[w].fd) /\ c \in Conns
      /\ UNCHANGED <<sock, backlog, clients>>
      /\ \/ HasInput(c) /\ RecvFrom(w, c)
         \/ UNCHANGED conn /\ Goto(w, "dispatch")
  BY <1>0, Recvs DEF At, regVars
<1>2. ~Waiting(c)
  BY <1>0, <1>1 DEF SocketsOK
<1>3. ASSUME UNCHANGED conn
      PROVE  \A d \in Conns : RxOK(d)'
  BY <1>1, <1>3 DEF RxOK, Taken, Waiting
<1>4. CASE UNCHANGED conn /\ Goto(w, "dispatch")
  BY <1>0, <1>1, <1>3, <1>4, Goes DEF Same
<1>5. CASE RecvFrom(w, c)
  <2>1. CASE conn[c].rx = <<>> /\ conn[c].peer = "rsterr" /\ conn' = Reported(c) /\ Return(w)
    <3>1. \A d \in Conns : /\ conn'[d].rx = conn[d].rx /\ conn'[d].sent = conn[d].sent
                           /\ conn'[d].peer = "idle" => conn[d].peer = "idle"
      BY <2>1, Types DEF Reported, ConnState
    <3>2. \A d \in Conns : RxOK(d)'
      BY <1>1, <3>1 DEF RxOK, Taken, Waiting
    <3> QED
      BY <1>0, <1>1, <2>1, <3>2, Returns
  <2>2. CASE /\ conn[c].rx = <<>> /\ UNCHANGED conn
             /\ th'[w].pc = "close" /\ Same(th[w], th'[w]) /\ th'[w].buf = th[w].buf
             /\ th'[w].out = th[w].out /\ th'[w].cur = th[w].cur
    BY <1>0, <1>1, <1>3, <2>2 DEF Same
  <2>3. CASE /\ conn[c].rx # <<>> /\ conn' = [conn EXCEPT ![c].rx = Tail(@)]
             /\ th'[w].pc = "recv" /\ Same(th[w], th'[w])
             /\ th'[w].buf = Append(th[w].buf, Head(conn[c].rx))
             /\ th'[w].out = th[w].out /\ th'[w].cur = th[w].cur
    <3>1. conn'[c].peer = conn[c].peer
      BY <1>1, <2>3, Types DEF ConnState
    <3>2. RxOK(c)'
      <4>1. ~Waiting(c)'
        BY <1>1, <1>2, <3>1 DEF Waiting
      <4>2. /\ Len(conn'[c].rx) <= conn'[c].sent
            /\ \A i \in DOMAIN conn'[c].rx : conn'[c].rx[i].no = Taken(conn'[c]) + i
        BY <1>1, <2>3, TakeOne
      <4> QED
        BY <4>1, <4>2 DEF RxOK
    <3>3. \A d \in Conns \ {c} : RxOK(d)'
      <4>1. \A d \in Conns \ {c} : conn'[d] = conn[d]
        BY <1>1, <2>3, TakeOne
      <4> QED
        BY <1>1, <4>1 DEF RxOK, Waiting
    <3> QED
      BY <1>0, <1>1, <2>3, <3>2, <3>3 DEF Same
  <2> QED
    BY <1>1, <1>5, <2>1, <2>2, <2>3, RecvMoves
<1> QED
  BY <1>1, <1>4, <1>5

-----------------------------------------------------------------------------
(* What the worker has in hand, action by action.                          *)

\* What the only worker has to see to.
LEMMA SpeechBy ==
  ASSUME OneWorker, NEW w \in Workers, \A c \in Conns : RxOK(c)',
         \A f \in Fds : SeatOK(f, th[w])',
         th'[w].pc \in Reading => TextOK(th'[w].buf, sock'[th'[w].fd], Taken(conn'[sock'[th'[w].fd]])),
         PartOK(th[w])'
  PROVE  SpeechInv'
<1>1. SpeechOK(th[w])'
  BY DEF SpeechOK
<1>2. \A v \in Workers : v = w
  BY DEF OneWorker
<1> QED
  BY <1>1, <1>2 DEF SpeechInv

\* Nobody comes back from a reset, and nobody who was accepted waits again.
LEMMA GoneGrows ==
  ASSUME IInv, SocketsOK, Base, \A c \in Conns : RxOK(c), [Next]_vars
  PROVE  Gone \subseteq Gone'
<1>1. ResetConns \subseteq ResetConns'
  BY ResetsGrow
<1>2. ASSUME \A c \in Conns : Waiting(c)' => Waiting(c)
      PROVE  Gone \subseteq Gone'
  BY <1>1, <1>2 DEF Gone, ResetConns
<1>3. CASE \E w \in Workers : Worker(w)
  <2>1. PICK w \in Workers : Worker(w)
    BY <1>3
  <2>2. CASE Recv(w)
    <3>1. UNCHANGED backlog /\ \A c \in Conns : conn'[c].peer = "idle" => conn[c].peer = "idle"
      <4>1. UNCHANGED backlog /\ \/ UNCHANGED conn
                                 \/ conn' = [conn EXCEPT ![sock[th[w].fd]].rx = Tail(@)]
                                 \/ conn' = Reported(sock[th[w].fd])
        BY <2>2, ReadTaken
      <4>2. sock[th[w].fd] \in Conns
        BY <2>2, ReadTaken
      <4>3. ASSUME NEW d \in Conns, \/ conn' = [conn EXCEPT ![d].rx = Tail(@)]
                                   \/ conn' = Reported(d)
            PROVE  \A c \in Conns : conn'[c].peer = "idle" => conn[c].peer = "idle"
        <5>1. CASE conn' = [conn EXCEPT ![d].rx = Tail(@)]
          BY <5>1, Types DEF ConnState
        <5>2. CASE conn' = Reported(d)
          BY <5>2, Types DEF Reported, ConnState
        <5> QED
          BY <4>3, <5>1, <5>2
      <4> QED
        BY <4>1, <4>2, <4>3
    <3> QED
      BY <1>2, <3>1 DEF Waiting
  <2> QED
    BY <1>2, <2>1, <2>2, UnreadKept
<1>4. CASE Outside
  BY <1>2, <1>4, OutsideTaken
<1>5. CASE RaceCrash \/ MainJoin \/ UNCHANGED vars
  <2>1. UNCHANGED <<conn, backlog>>
    BY <1>5 DEF RaceCrash, Die, MainJoin, vars, netVars
  <2> QED
    BY <1>2, <2>1 DEF Waiting
<1> QED
  BY <1>3, <1>4, <1>5 DEF Next

\* What is left behind stays so, and a line is still spoken under its name.
LEMMA StaysSpoken ==
  ASSUME NEW R, NEW S, R \subseteq S
  PROVE  /\ \A e : Inherited(e, R) => Inherited(e, S)
         /\ \A notice : Spoken(notice, R) => Spoken(notice, S)
<1>1. ASSUME NEW e, Inherited(e, R)
      PROVE  Inherited(e, S)
  BY <1>1 DEF Inherited
<1>2. ASSUME NEW notice, Spoken(notice, R)
      PROVE  Spoken(notice, S)
  BY <1>2 DEF Spoken
<1> QED
  BY <1>1, <1>2

\* The number of the last message of a name.
LEMMA LastOfName ==
  ASSUME NEW e \in ClientInfo, e.nick # <<>>
  PROVE  e.nick \in Seq(Msg) /\ e.nick[Len(e.nick)].no \in Nat
<1>1. e.nick \in Seq(Msg)
  BY DEF ClientInfo
<1>2. e.nick[Len(e.nick)] \in Msg
  BY <1>1
<1> QED
  BY <1>1, <1>2 DEF Msg

\* An entry of a connection has it for its own though less is in hand, once it has a name.
LEMMA LessInHand ==
  ASSUME NEW e \in ClientInfo \union {NoEntry}, NEW c, NEW n \in Nat, NEW h \in Nat, NEW k \in Nat,
         EntryOK(e, c, n, h), k = h \/ (k = 0 /\ e # NoEntry /\ e.named)
  PROVE  EntryOK(e, c, n, k)
<1>1. CASE k = h
  BY <1>1
<1>2. CASE k = 0 /\ e # NoEntry /\ e.named
  <2>1. e.nick # <<>> /\ e.nick[Len(e.nick)].no + h <= n
    BY <1>2 DEF EntryOK
  <2>2. PICK m : m = e.nick[Len(e.nick)].no
    OBVIOUS
  <2>3. m \in Nat /\ m + h <= n
    BY <1>2, <2>1, <2>2, LastOfName
  <2>4. m + 0 <= n
    BY <2>3
  <2> QED
    BY <1>2, <2>2, <2>4 DEF EntryOK
<1> QED
  BY <1>1, <1>2

\* A descriptor with the connection and the entry it had, and with as much in hand.
LEMMA SeatStays ==
  ASSUME IInv, NEW f \in Fds, NEW w \in Workers, SeatOK(f, th[w]), Gone \subseteq Gone',
         clients'[f] = clients[f], sock'[f] = sock[f],
         IsOpen(f) =>
           /\ Taken(conn'[sock[f]]) = Taken(conn[sock[f]]) /\ Taken(conn[sock[f]]) \in Nat
           /\ conn[sock[f]].peer # "up" => conn'[sock[f]].rx = conn[sock[f]].rx
           /\ \/ Held(th'[w], f) = Held(th[w], f)
              \/ Held(th'[w], f) = 0 /\ clients[f] # NoEntry /\ clients[f].named,
         ~IsOpen(f) /\ Leaving(th[w], f) => Leaving(th'[w], f)
  PROVE  SeatOK(f, th[w])'
<1>1. CASE IsOpen(f)
  <2> DEFINE c == sock[f]
             e == clients[f]
             n == Taken(conn[c])
             h == Held(th[w], f)
             k == Held(th'[w], f)
  <2>1. /\ e \in ClientInfo \union {NoEntry} /\ n \in Nat /\ h \in Nat
        /\ k = h \/ (k = 0 /\ e # NoEntry /\ e.named)
    <3>1. th[w].buf \in Seq(Msg) /\ e \in ClientInfo \union {NoEntry}
      BY Types DEF Thread
    <3>2. Len(th[w].buf) \in Nat
      BY <3>1
    <3> QED
      BY <1>1, <3>1, <3>2 DEF Held
  <2>2. k \in Nat
    BY <2>1
  <2>3. CASE EntryOK(e, c, n, h)
    <3>1. EntryOK(e, c, n, k)
      <4> HIDE DEF e, c, n, h, k
      <4> QED
        BY <2>1, <2>2, <2>3, LessInHand
    <3> QED
      BY <1>1, <3>1 DEF SeatOK, IsOpen
  <2>4. CASE Inherited(e, Gone \ {c})
    <3>1. Inherited(e, (Gone \ {c})')
      BY <1>1, <2>4, StaysSpoken
    <3> QED
      BY <1>1, <3>1 DEF SeatOK, IsOpen
  <2>5. CASE Blank(e) /\ h = 0 /\ c \in Gone /\ conn[c].rx = <<>>
    <3>1. conn[c].peer # "up"
      BY <2>5 DEF Gone, ResetConns
    <3>2. Blank(e) /\ k = 0 /\ c \in Gone' /\ conn'[c].rx = <<>>
      BY <1>1, <2>1, <2>5, <3>1
    <3> QED
      BY <1>1, <3>2 DEF SeatOK, IsOpen
  <2> QED
    BY <1>1, <2>3, <2>4, <2>5 DEF SeatOK
<1>2. CASE ~IsOpen(f)
  <2>1. ~IsOpen(f)' /\ (~Leaving(th'[w], f) => ~Leaving(th[w], f))
    BY <1>2 DEF IsOpen
  <2>2. Inherited(clients[f], Gone) => Inherited(clients[f], Gone')
    BY StaysSpoken
  <2> QED
    BY <1>2, <2>1, <2>2 DEF SeatOK
<1> QED
  BY <1>1, <1>2

\* What was taken is as much as it was.
LEMMA TakenKept ==
  ASSUME IInv, \A c \in Conns : RxOK(c), Gone \subseteq Gone',
         \A c \in Conns : /\ conn'[c].rx = conn[c].rx /\ conn'[c].sent = conn[c].sent
                          /\ Waiting(c)' => Waiting(c)
  PROVE  \A c \in Conns : /\ RxOK(c)' /\ Taken(conn'[c]) = Taken(conn[c]) /\ Taken(conn[c]) \in Nat
                          /\ conn'[c].rx = conn[c].rx
<1> TAKE c \in Conns
<1>1. conn[c].rx \in Seq(Msg) /\ conn[c].sent \in Nat /\ RxOK(c)
  BY Types DEF ConnState
<1>2. /\ conn'[c].rx = conn[c].rx /\ conn'[c].sent = conn[c].sent
      /\ Waiting(c)' => Waiting(c)
  OBVIOUS
<1>3. Taken(conn'[c]) = Taken(conn[c]) /\ Taken(conn[c]) \in Nat
  BY <1>1, <1>2 DEF RxOK, Taken
<1>4. RxOK(c)'
  BY <1>1, <1>2, <1>3 DEF RxOK
<1> QED
  BY <1>2, <1>3, <1>4

\* A step that takes nothing and gives no descriptor to anyone: what was in hand stays so, or
\* is not needed because the client has its name.
LEMMA Steady ==
  ASSUME OneWorker, IInv, SpeechInv, NEW w \in Workers, Gone \subseteq Gone',
         \A c \in Conns : /\ conn'[c].rx = conn[c].rx /\ conn'[c].sent = conn[c].sent
                          /\ Waiting(c)' => Waiting(c),
         UNCHANGED <<sock, clients>>,
         \A f \in Fds : IsOpen(f) =>
           \/ Held(th'[w], f) = Held(th[w], f)
           \/ Held(th'[w], f) = 0 /\ clients[f] # NoEntry /\ clients[f].named,
         \A f \in Fds : Leaving(th[w], f) => Leaving(th'[w], f),
         th'[w].pc \in Reading =>
           \/ th'[w].buf = <<>>
           \/ /\ th[w].pc \in Reading /\ th'[w].buf = th[w].buf /\ th'[w].fd = th[w].fd
              /\ th[w].fd \in Fds /\ IsOpen(th[w].fd),
         PartOK(th[w])'
  PROVE  SpeechInv'
<1>1. SpeechOK(th[w])
  BY DEF SpeechInv
<1>2. \A c \in Conns : /\ RxOK(c)' /\ Taken(conn'[c]) = Taken(conn[c]) /\ Taken(conn[c]) \in Nat
                       /\ conn'[c].rx = conn[c].rx
  BY TakenKept DEF SpeechInv
<1>3. ASSUME NEW f \in Fds
      PROVE  SeatOK(f, th[w])'
  <2>1. IsOpen(f) => sock[f] \in Conns
    BY Types
  <2>2. SeatOK(f, th[w])
    BY <1>1 DEF SpeechOK
  <2>3. IsOpen(f) =>
           /\ Taken(conn'[sock[f]]) = Taken(conn[sock[f]]) /\ Taken(conn[sock[f]]) \in Nat
           /\ conn[sock[f]].peer # "up" => conn'[sock[f]].rx = conn[sock[f]].rx
    BY <1>2, <2>1
  <2> QED
    BY <2>2, <2>3, SeatStays
<1>4. ASSUME th'[w].pc \in Reading
      PROVE  TextOK(th'[w].buf, sock'[th'[w].fd], Taken(conn'[sock'[th'[w].fd]]))
  <2>1. CASE th'[w].buf = <<>>
    BY <2>1 DEF TextOK
  <2>2. CASE /\ th[w].pc \in Reading /\ th'[w].buf = th[w].buf /\ th'[w].fd = th[w].fd
             /\ th[w].fd \in Fds /\ IsOpen(th[w].fd)
    <3>1. TextOK(th[w].buf, sock[th[w].fd], Taken(conn[sock[th[w].fd]]))
      BY <1>1, <2>2 DEF SpeechOK
    <3>2. sock[th[w].fd] \in Conns
      BY <2>2, Types
    <3> QED
      BY <1>2, <2>2, <3>1, <3>2
  <2> QED
    BY <1>4, <2>1, <2>2
<1> QED
  BY <1>2, <1>3, <1>4, SpeechBy

\* The steps of a worker with nothing in hand.
LEMMA FrameSpeech ==
  ASSUME OneWorker, IInv, Base, HomeInv, SpeechInv, NEW w \in Workers, Gone \subseteq Gone',
         \/ Lock(w) \/ EpollWait(w) \/ EpollInterrupted(w) \/ Unlock(w) \/ NextEvent(w) \/ CheckEvent(w)
  PROVE  SpeechInv'
<1>1. UNCHANGED <<sock, clients>>
  BY LoopMoves, Polls DEF netVars, regVars
<1>2. th[w].pc \in {"lock", "wait", "unlock", "next", "check"}
  BY DEF Lock, EpollWait, EpollInterrupted, Unlock, NextEvent, CheckEvent, At
<1>3. th[w].buf = <<>> /\ th[w].out = Nothing
  BY <1>2 DEF HomeInv, ThreadsHome, ThreadHome, InHandler, InBatch, PCs
<1>4. /\ th'[w].buf = <<>> /\ th'[w].out = Nothing
      /\ th'[w].pc \in {"wait", "unlock", "done", "next", "lock", "check", "errclose", "accept", "recv"}
  <2>1. CASE Lock(w) \/ CheckEvent(w)
    BY <1>3, <2>1, Goes DEF Lock, CheckEvent
  <2> QED
    BY <1>3, <2>1, LoopMoves, Polls
<1>5. \A f \in Fds : Held(th[w], f) = 0 /\ Held(th'[w], f) = 0 /\ ~Leaving(th[w], f)
  BY <1>2, <1>4 DEF Held, Reading, Leaving
<1>6. PartOK(th[w])'
  BY <1>4 DEF PartOK, Talking, Nothing, Note
<1>7. \A c \in Conns : /\ conn'[c].rx = conn[c].rx /\ conn'[c].sent = conn[c].sent
                       /\ Waiting(c)' => Waiting(c)
  BY UnreadKept, <1>2 DEF Worker, Recv, At
<1> QED
  BY <1>1, <1>4, <1>5, <1>6, <1>7, Steady DEF Reading

\* The branch for errors, and the end of a stream, close the descriptor the worker is at.
LEMMA CloseSpeech ==
  ASSUME OneWorker, IInv, SocketsOK, Base, Tidy, SpeechInv, NEW w \in Workers, Gone \subseteq Gone',
         ErrClose(w) \/ CloseConn(w)
  PROVE  SpeechInv'
<1>1. \A c \in Conns : /\ conn'[c].rx = conn[c].rx /\ conn'[c].sent = conn[c].sent
                       /\ Waiting(c)' => Waiting(c)
  BY UnreadKept DEF Worker, Recv, ErrClose, CloseConn, At
<1>2. \A c \in Conns : /\ RxOK(c)' /\ Taken(conn'[c]) = Taken(conn[c]) /\ Taken(conn[c]) \in Nat
                       /\ conn'[c].rx = conn[c].rx
  BY <1>1, TakenKept DEF SpeechInv
<1>3. PICK f \in Fds, c \in Conns : f = th[w].fd /\ c = sock[f] /\ IsOpen(f)
  BY Closing, Types
<1>4. /\ UNCHANGED clients /\ sock' = [sock EXCEPT ![f] = None]
      /\ th[w].pc \in {"errclose", "close"} /\ th[w].out = Nothing
      /\ SpeechOK(th[w]) /\ ~Waiting(c)
  <2>1. UNCHANGED clients /\ Close(f)
    BY <1>3, Closing DEF regVars
  <2>2. th[w].pc \in {"errclose", "close"}
    BY DEF ErrClose, CloseConn, At
  <2> QED
    BY <1>3, <2>1, <2>2 DEF Close, Tidy, LocalsOK, SocketsOK, SpeechInv
<1>5. /\ th'[w].out = Nothing
      /\ \/ th[w].pc = "errclose" /\ th'[w].pc = "next" /\ c \in Gone
         \/ th'[w].pc = "readname" /\ th'[w].fd = f
  <2>1. CASE ErrClose(w)
    <3>1. th[w].pc = "errclose" /\ Return(w)
      BY <2>1 DEF ErrClose, At
    <3>2. c \in ResetConns
      BY <1>3, <3>1 DEF Tidy, ErrsOK
    <3> QED
      BY <1>4, <3>1, <3>2, Returns DEF Gone
  <2>2. CASE CloseConn(w)
    <3>1. Goto(w, "readname")
      BY <2>2, Closing
    <3> QED
      BY <1>3, <1>4, <3>1, Goes DEF Same
  <2> QED
    BY <2>1, <2>2
<1>6. PartOK(th[w])' /\ th'[w].pc \notin Reading /\ \A g \in Fds : Held(th'[w], g) = 0
  BY <1>5 DEF PartOK, Talking, Reading, Held, Nothing, Note
<1>7. /\ \A g \in Fds : ~Leaving(th[w], g)
      /\ \A g \in Fds \ {f} : Held(th[w], g) = 0 /\ sock'[g] = sock[g]
      /\ sock'[f] = None
  BY <1>3, <1>4, Types DEF Leaving, Held
<1>8. ASSUME NEW g \in Fds, g # f
      PROVE  SeatOK(g, th[w])'
  <2>1. IsOpen(g) => sock[g] \in Conns
    BY Types
  <2>2. SeatOK(g, th[w])
    BY <1>4 DEF SpeechOK
  <2>3. IsOpen(g) =>
           /\ Taken(conn'[sock[g]]) = Taken(conn[sock[g]]) /\ Taken(conn[sock[g]]) \in Nat
           /\ conn[sock[g]].peer # "up" => conn'[sock[g]].rx = conn[sock[g]].rx
    BY <1>2, <2>1
  <2>4. g \in Fds \ {f} /\ clients'[g] = clients[g]
    BY <1>4, <1>8
  <2>5. Held(th'[w], g) = Held(th[w], g) /\ sock'[g] = sock[g] /\ ~Leaving(th[w], g)
    BY <1>6, <1>7, <2>4
  <2> QED
    BY <2>2, <2>3, <2>4, <2>5, SeatStays
<1>9. SeatOK(f, th[w])'
  <2>1. CASE th'[w].pc = "readname" /\ th'[w].fd = f
    BY <1>7, <2>1 DEF SeatOK, IsOpen, Leaving
  <2>2. CASE c \in Gone
    <3>1. Blank(clients[f]) \/ Inherited(clients[f], Gone)
      <4>1. \/ EntryOK(clients[f], c, Taken(conn[c]), Held(th[w], f))
            \/ Inherited(clients[f], Gone \ {c})
            \/ Blank(clients[f])
        BY <1>3, <1>4 DEF SpeechOK, SeatOK
      <4>2. CASE EntryOK(clients[f], c, Taken(conn[c]), Held(th[w], f))
        BY <2>2, <4>2 DEF EntryOK, Blank, Inherited
      <4> QED
        BY <4>1, <4>2, StaysSpoken
    <3>2. Blank(clients'[f]) \/ Inherited(clients'[f], Gone')
      BY <1>4, <3>1, StaysSpoken
    <3> QED
      BY <1>7, <3>2 DEF SeatOK, IsOpen
  <2> QED
    BY <1>5, <2>1, <2>2
<1>10. \A g \in Fds : SeatOK(g, th[w])'
  BY <1>8, <1>9
<1> QED
  BY <1>2, <1>6, <1>10, SpeechBy

\* The steps that open a descriptor.
LEMMA OpenSpeech ==
  ASSUME OneWorker, IInv, SocketsOK, Base, Tidy, SpeechInv, NEW w \in Workers, Gone \subseteq Gone',
         Accept(w) \/ Insert(w) \/ AddFd(w) \/ SetNonblocking(w)
  PROVE  SpeechInv'
<1>1. \A c \in Conns : /\ conn'[c].rx = conn[c].rx /\ conn'[c].sent = conn[c].sent
                       /\ Waiting(c)' => Waiting(c)
  BY UnreadKept DEF Worker, Recv, Accept, Insert, AddFd, SetNonblocking, At
<1>2. th[w].pc \in {"accept", "insert", "addfd", "nonblock"}
  BY DEF Accept, Insert, AddFd, SetNonblocking, At
<1>3. /\ th[w].out = Nothing /\ SpeechOK(th[w])
      /\ \A f \in Fds : Held(th[w], f) = 0 /\ ~Leaving(th[w], f)
  BY <1>2 DEF Tidy, LocalsOK, SpeechInv, Held, Reading, Leaving
<1>4. \A c \in Conns : /\ RxOK(c)' /\ Taken(conn'[c]) = Taken(conn[c]) /\ Taken(conn[c]) \in Nat
                       /\ conn'[c].rx = conn[c].rx
  BY <1>1, TakenKept DEF SpeechInv
<1>5. ASSUME NEW t, th'[w] = t, t.out = Nothing,
             t.pc \in {"insert", "addfd", "nonblock", "next", "accept"}
      PROVE  PartOK(th[w])' /\ th'[w].pc \notin Reading /\ \A f \in Fds : Held(th'[w], f) = 0
  BY <1>5 DEF PartOK, Talking, Reading, Held, Nothing, Note
<1>6. CASE AddFd(w) \/ SetNonblocking(w)
  <2>1. UNCHANGED <<sock, clients>>
    BY <1>6, Opens DEF AddFd, SetNonblocking, regVars
  <2>2. th'[w].pc \in {"nonblock", "next"} /\ th'[w].out = Nothing
    BY <1>3, <1>6, Opens, Goes, Returns
  <2> QED
    BY <1>1, <1>3, <1>5, <2>1, <2>2, Steady
<1>7. ASSUME NEW f \in Fds, \A g \in Fds \ {f} : clients'[g] = clients[g] /\ sock'[g] = sock[g],
             SeatOK(f, th[w])', th'[w].pc \in {"insert", "addfd"}, th'[w].out = Nothing
      PROVE  SpeechInv'
  <2>1. PartOK(th[w])' /\ th'[w].pc \notin Reading /\ \A g \in Fds : Held(th'[w], g) = 0
    BY <1>5, <1>7
  <2>2. ASSUME NEW g \in Fds, g # f
        PROVE  SeatOK(g, th[w])'
    <3>1. IsOpen(g) => sock[g] \in Conns
      BY Types
    <3>2. SeatOK(g, th[w])
      BY <1>3 DEF SpeechOK
    <3>3. IsOpen(g) =>
             /\ Taken(conn'[sock[g]]) = Taken(conn[sock[g]]) /\ Taken(conn[sock[g]]) \in Nat
             /\ conn[sock[g]].peer # "up" => conn'[sock[g]].rx = conn[sock[g]].rx
      BY <1>4, <3>1
    <3>4. Held(th'[w], g) = Held(th[w], g) /\ ~Leaving(th[w], g)
      BY <1>3, <2>1
    <3>5. sock'[g] = sock[g] /\ clients'[g] = clients[g]
      BY <1>7, <2>2
    <3> QED
      BY <3>2, <3>3, <3>4, <3>5, SeatStays
  <2>3. \A g \in Fds : SeatOK(g, th[w])'
    BY <1>7, <2>2
  <2> QED
    BY <1>4, <2>1, <2>3, SpeechBy
<1>8. CASE Insert(w)
  <2>1. PICK f \in Fds, c \in Conns : f = th[w].fd /\ IsOpen(f) /\ c = sock[f]
    BY <1>8, Opens
  <2>2. /\ th'[w].pc = "addfd" /\ th'[w].out = Nothing /\ UNCHANGED <<sock, conn>>
    BY <1>3, <1>8, Goes DEF Insert, netVars
  <2>3. \/ UNCHANGED clients
        \/ clients[f] = NoEntry /\ clients' = [clients EXCEPT ![f] = Fresh(th[w].con)]
    BY <1>8, <2>1 DEF Insert, Keys
  <2>4. CASE UNCHANGED clients
    <3>1. PartOK(th[w])' /\ th'[w].pc \notin Reading /\ \A g \in Fds : Held(th'[w], g) = 0
      BY <1>5, <2>2
    <3> QED
      BY <1>1, <1>3, <2>2, <2>4, <3>1, Steady
  <2>5. CASE clients[f] = NoEntry /\ clients' = [clients EXCEPT ![f] = Fresh(th[w].con)]
    <3>1. clients'[f] = Fresh(th[w].con) /\ \A g \in Fds \ {f} : clients'[g] = clients[g]
      BY <2>5, Types
    <3>2. clients'[f] = NoEntry \/ (~clients'[f].named /\ clients'[f].nick = <<>>)
      BY <3>1 DEF Fresh
    <3>3. PICK n \in Nat : n = Taken(conn[c])
      BY <1>4
    <3>4. EntryOK(clients[f], c, n, 0) \/ (c \in Gone /\ conn[c].rx = <<>>)
      BY <1>3, <2>1, <2>5, <3>3 DEF SpeechOK, SeatOK, Inherited
    <3>5. Held(th'[w], f) = 0
      BY <2>2 DEF Held, Reading
    <3>6. SeatOK(f, th[w])'
      <4>1. CASE EntryOK(clients[f], c, n, 0)
        <5>1. n = 0
          BY <2>5, <4>1 DEF EntryOK
        <5>2. ~clients'[f].named /\ clients'[f].nick = <<>>
          BY <3>1 DEF Fresh
        <5>3. EntryOK(clients'[f], c, n, 0)
          BY <5>1, <5>2 DEF EntryOK
        <5> QED
          BY <2>1, <2>2, <3>3, <3>5, <5>3 DEF SeatOK, IsOpen
      <4>2. CASE c \in Gone /\ conn[c].rx = <<>>
        BY <2>1, <2>2, <3>2, <3>5, <4>2 DEF SeatOK, IsOpen, Blank
      <4> QED
        BY <3>4, <4>1, <4>2
    <3> QED
      BY <1>7, <2>2, <3>1, <3>6
  <2> QED
    BY <2>3, <2>4, <2>5
<1>9. CASE Accept(w)
  <2>1. CASE UNCHANGED <<th, sock>>
    <3>1. UNCHANGED clients
      BY <1>9, Accepted DEF regVars
    <3>2. PartOK(th[w])' /\ th'[w].pc \notin Reading /\ \A f \in Fds : Held(th'[w], f) = Held(th[w], f)
      BY <1>3, <2>1, <1>9, Accepted DEF PartOK, Talking, Reading, Nothing, Note
    <3> QED
      BY <1>1, <1>3, <2>1, <3>1, <3>2, Steady
  <2>2. ASSUME NEW f \in Fds, ~IsOpen(f), sock' = [sock EXCEPT ![f] = Head(backlog)],
               th'[w].pc = "insert", th'[w].out = th[w].out
        PROVE  SpeechInv'
    <3>1. PICK c \in Conns : c = Head(backlog) /\ c \in Range(backlog)
      BY <1>9, Types, Accepted, RangeTail DEF Range
    <3>2. /\ UNCHANGED <<conn, clients>> /\ sock'[f] = c
          /\ \A g \in Fds \ {f} : sock'[g] = sock[g]
      BY <1>9, <2>2, <3>1, Types, Accepted DEF regVars
    <3>3. Taken(conn[c]) = 0 /\ c \notin Gone
      BY <3>1 DEF SpeechInv, RxOK, Waiting, Gone
    <3>4. Blank(clients[f]) \/ Inherited(clients[f], Gone)
      BY <1>3, <2>2 DEF SpeechOK, SeatOK
    <3>5. Held(th'[w], f) = 0
      BY <2>2 DEF Held, Reading
    <3>7. IsOpen(f)'
      BY <3>2, SocketAssumption DEF IsOpen
    <3>6. SeatOK(f, th[w])'
      <4>1. CASE Blank(clients[f])
        <5>1. EntryOK(clients[f], c, 0, 0)
          BY <4>1 DEF Blank, EntryOK
        <5>2. EntryOK(clients'[f], sock'[f], Taken(conn'[sock'[f]]), Held(th'[w], f))
          BY <3>2, <3>3, <3>5, <5>1
        <5> QED
          BY <3>7, <5>2 DEF SeatOK
      <4>2. CASE Inherited(clients[f], Gone)
        <5>1. Gone \subseteq Gone' \ {c}
          BY <3>3
        <5>2. Inherited(clients[f], Gone' \ {c})
          BY <4>2, <5>1, StaysSpoken
        <5>3. Inherited(clients'[f], Gone' \ {sock'[f]})
          BY <3>2, <5>2
        <5> QED
          BY <3>7, <5>3 DEF SeatOK
      <4> QED
        BY <3>4, <4>1, <4>2
    <3> QED
      BY <1>3, <1>7, <2>2, <3>2, <3>6
  <2> QED
    BY <1>9, <2>1, <2>2, Accepted DEF Die
<1> QED
  BY <1>6, <1>8, <1>9

\* One more message is taken, and is in hand.
LEMMA EntryMore ==
  ASSUME NEW e \in ClientInfo \union {NoEntry}, NEW c, NEW n \in Nat, NEW h \in Nat, EntryOK(e, c, n, h)
  PROVE  EntryOK(e, c, n + 1, h + 1)
<1>1. ASSUME e # NoEntry, e.named
      PROVE  e.nick[Len(e.nick)].no + (h + 1) <= n + 1
  <2>1. e.nick \in Seq(Msg) /\ e.nick # <<>> /\ e.nick[Len(e.nick)].no + h <= n
    BY <1>1 DEF EntryOK, ClientInfo
  <2>2. e.nick[Len(e.nick)] \in Msg
    BY <2>1
  <2>3. e.nick[Len(e.nick)].no \in Nat
    BY <2>2 DEF Msg
  <2> QED
    BY <2>1, <2>3
<1> QED
  BY <1>1 DEF EntryOK

\* The text in hand gets longer by it.
LEMMA TextMore ==
  ASSUME NEW text \in Seq(Msg), NEW c, NEW n \in Nat, NEW m \in Msg, TextOK(text, c, n),
         m.src = c, m.no = n + 1
  PROVE  TextOK(Append(text, m), c, n + 1)
<1>1. /\ Len(text) \in Nat /\ Len(Append(text, m)) = Len(text) + 1
      /\ DOMAIN Append(text, m) = 1..Len(text) + 1 /\ DOMAIN text = 1..Len(text)
      /\ \A i \in 1..Len(text) + 1 :
           Append(text, m)[i] = IF i = Len(text) + 1 THEN m ELSE text[i]
  OBVIOUS
<1>2. ASSUME NEW i \in 1..Len(text) + 1
      PROVE  /\ Append(text, m)[i].src = c
             /\ Append(text, m)[i].no = n + 1 - (Len(text) + 1) + i
  <2>1. CASE i = Len(text) + 1
    BY <1>1, <2>1
  <2>2. CASE i # Len(text) + 1
    <3>1. i \in DOMAIN text /\ Append(text, m)[i] = text[i]
      BY <1>1, <2>2
    <3>2. text[i].src = c /\ text[i].no = n - Len(text) + i
      BY <3>1 DEF TextOK
    <3> QED
      BY <1>1, <3>1, <3>2
  <2> QED
    BY <2>1, <2>2
<1> QED
  BY <1>1, <1>2 DEF TextOK

\* In recv.
LEMMA RecvSpeech ==
  ASSUME OneWorker, IInv, SocketsOK, Base, Tidy, HomeInv, SpeechInv, NEW w \in Workers, Recv(w),
         Gone \subseteq Gone'
  PROVE  SpeechInv'
<1>1. PICK f \in Fds, c \in Conns : f = th[w].fd /\ c = sock[f] /\ IsOpen(f)
  BY ReadTaken DEF SpeechInv
<1>2. /\ \A d \in Conns : RxOK(d) /\ RxOK(d)'
      /\ th[w].pc = "recv" /\ UNCHANGED <<sock, backlog, clients>> /\ th'[w].fd = f
      /\ \/ /\ th'[w].pc = "recv" /\ th'[w].out = th[w].out
            /\ conn[c].rx # <<>> /\ conn' = [conn EXCEPT ![c].rx = Tail(@)]
            /\ th'[w].buf = Append(th[w].buf, Head(conn[c].rx))
         \/ /\ th'[w].pc \in {"close", "dispatch"} /\ th'[w].out = th[w].out
            /\ th'[w].buf = th[w].buf /\ UNCHANGED conn
         \/ /\ conn[c].peer = "rsterr" /\ conn[c].rx = <<>> /\ Return(w) /\ conn' = Reported(c)
  BY <1>1, ReadTaken DEF SpeechInv
<1>3. SpeechOK(th[w]) /\ th[w].out = Nothing
  BY <1>2 DEF SpeechInv, Tidy, LocalsOK
<1>4. th'[w].out = Nothing /\ th'[w].pc \in {"recv", "close", "dispatch", "next"} => PartOK(th[w])'
  BY DEF PartOK, Talking, Nothing, Note
<1>5. /\ \A g \in Fds : ~Leaving(th[w], g)
      /\ \A g \in Fds \ {f} : Held(th[w], g) = 0 /\ Held(th'[w], g) = 0
      /\ th[w].buf \in Seq(Msg) /\ Len(th[w].buf) \in Nat /\ Held(th[w], f) = Len(th[w].buf)
  <2>1. th[w].buf \in Seq(Msg)
    BY Types DEF Thread
  <2> QED
    BY <1>1, <1>2, <2>1 DEF Leaving, Held, Reading
<1>6. PICK n \in Nat : n = Taken(conn[c])
  <2>1. conn[c].rx \in Seq(Msg) /\ conn[c].sent \in Nat /\ RxOK(c)
    BY <1>2, Types DEF ConnState
  <2> QED
    BY <2>1 DEF RxOK, Taken
<1>7. ASSUME \A d \in Conns \ {c} : conn'[d].rx = conn[d].rx /\ conn'[d].sent = conn[d].sent
      PROVE  \A g \in Fds \ {f} : SeatOK(g, th[w])'
  <2> TAKE g \in Fds \ {f}
  <2>1. IsOpen(g) => sock[g] \in Conns \ {c}
    BY <1>1, Types DEF SocketsOK
  <2>2. SeatOK(g, th[w])
    BY <1>3 DEF SpeechOK
  <2>3. IsOpen(g) =>
           /\ Taken(conn'[sock[g]]) = Taken(conn[sock[g]]) /\ Taken(conn[sock[g]]) \in Nat
           /\ conn'[sock[g]].rx = conn[sock[g]].rx
    <3>1. ASSUME NEW d \in Conns \ {c}
          PROVE  /\ Taken(conn'[d]) = Taken(conn[d]) /\ Taken(conn[d]) \in Nat
                 /\ conn'[d].rx = conn[d].rx
      <4>1. conn[d].rx \in Seq(Msg) /\ conn[d].sent \in Nat /\ RxOK(d)
        BY <1>2, Types DEF ConnState
      <4> QED
        BY <1>7, <4>1 DEF RxOK, Taken
    <3> QED
      BY <2>1, <3>1
  <2>4. clients'[g] = clients[g] /\ sock'[g] = sock[g]
    BY <1>2
  <2>5. Held(th'[w], g) = Held(th[w], g) /\ ~Leaving(th[w], g)
    BY <1>5
  <2> QED
    BY <2>2, <2>3, <2>4, <2>5, SeatStays
<1>8. \/ EntryOK(clients[f], c, n, Len(th[w].buf))
      \/ Inherited(clients[f], Gone \ {c})
      \/ Blank(clients[f]) /\ Held(th[w], f) = 0 /\ c \in Gone /\ conn[c].rx = <<>>
  BY <1>1, <1>3, <1>5, <1>6 DEF SpeechOK, SeatOK
<1>9. ASSUME Inherited(clients[f], Gone \ {c})
      PROVE  SeatOK(f, th[w])'
  <2>1. Inherited(clients'[f], Gone' \ {sock'[f]})
    BY <1>1, <1>2, <1>9, StaysSpoken
  <2> QED
    BY <1>1, <1>2, <2>1 DEF SeatOK, IsOpen
<1>10. CASE /\ th'[w].pc \in {"close", "dispatch"} /\ th'[w].out = th[w].out
            /\ th'[w].buf = th[w].buf /\ UNCHANGED conn
  <2>1. \A d \in Conns : Waiting(d)' => Waiting(d)
    BY <1>2, <1>10 DEF Waiting
  <2>2. \A g \in Fds : Held(th'[w], g) = Held(th[w], g)
    BY <1>1, <1>2, <1>10 DEF Held, Reading
  <2> QED
    BY <1>1, <1>2, <1>3, <1>4, <1>5, <1>10, <2>1, <2>2, Steady DEF Reading
<1>11. CASE /\ th'[w].pc = "recv" /\ th'[w].out = th[w].out
            /\ conn[c].rx # <<>> /\ conn' = [conn EXCEPT ![c].rx = Tail(@)]
            /\ th'[w].buf = Append(th[w].buf, Head(conn[c].rx))
  <2>1. PICK m \in Msg : m = Head(conn[c].rx) /\ m.src = c
    <3>1. conn[c].rx \in Seq(Msg) /\ conn[c].rx # <<>>
      BY <1>11, Types DEF ConnState
    <3>2. Head(conn[c].rx) \in Msg /\ Head(conn[c].rx) \in Range(conn[c].rx)
      BY <3>1, RangeTail
    <3> QED
      BY <3>2 DEF HomeInv, RxOwn
  <2>2. /\ Taken(conn'[c]) = n + 1 /\ m.no = n + 1
        /\ \A d \in Conns \ {c} : conn'[d] = conn[d]
    BY <1>2, <1>6, <1>11, <2>1, TakeOne
  <2>3. Len(th'[w].buf) = Len(th[w].buf) + 1
    BY <1>5, <1>11, <2>1
  <2>4. TextOK(th'[w].buf, c, n + 1)
    <3>1. TextOK(th[w].buf, c, n)
      BY <1>1, <1>2, <1>3, <1>6 DEF SpeechOK, Reading
    <3> QED
      BY <1>5, <1>11, <2>1, <2>2, <3>1, TextMore
  <2>5. Held(th'[w], f) = Len(th[w].buf) + 1
    BY <1>2, <1>11, <2>3 DEF Held, Reading
  <2>6. SeatOK(f, th[w])'
    <3>1. CASE EntryOK(clients[f], c, n, Len(th[w].buf))
      <4>1. clients[f] \in ClientInfo \union {NoEntry}
        BY Types
      <4>2. EntryOK(clients'[f], sock'[f], Taken(conn'[sock'[f]]), Held(th'[w], f))
        BY <1>1, <1>2, <1>5, <1>6, <2>2, <2>5, <3>1, <4>1, EntryMore
      <4> QED
        BY <1>1, <1>2, <4>2 DEF SeatOK, IsOpen
    <3> QED
      BY <1>8, <1>9, <1>11, <3>1
  <2>7. \A g \in Fds : SeatOK(g, th[w])'
    <3>1. \A g \in Fds \ {f} : SeatOK(g, th[w])'
      BY <1>7, <2>2
    <3> QED
      BY <2>6, <3>1
  <2>8. PartOK(th[w])'
    BY <1>3, <1>4, <1>11
  <2> QED
    BY <1>1, <1>2, <2>2, <2>4, <2>7, <2>8, SpeechBy
<1>12. CASE conn[c].peer = "rsterr" /\ conn[c].rx = <<>> /\ Return(w) /\ conn' = Reported(c)
  <2>1. /\ \A d \in Conns : conn'[d].rx = conn[d].rx /\ conn'[d].sent = conn[d].sent
        /\ conn'[c].peer = "rst"
    BY <1>12, Types DEF Reported, ConnState
  <2>2. th'[w].pc = "next" /\ th'[w].out = Nothing
    BY <1>12, Returns
  <2>3. Held(th'[w], f) = 0 /\ th'[w].pc \notin Reading
    BY <2>2 DEF Held, Reading
  <2>4. Taken(conn'[c]) = n
    BY <1>6, <2>1 DEF Taken
  <2>5. c \in Gone'
    <3>1. c \in Gone
      BY <1>1, <1>12 DEF Gone, ResetConns, SocketsOK
    <3> QED
      BY <3>1
  <2>6. Blank(clients[f]) => SeatOK(f, th[w])'
    <3>1. Blank(clients[f]) => Blank(clients'[f])
      BY <1>2
    <3>2. sock'[f] \in Gone' /\ conn'[sock'[f]].rx = <<>>
      BY <1>1, <1>2, <1>12, <2>1, <2>5
    <3> QED
      BY <1>1, <1>2, <2>3, <3>1, <3>2 DEF SeatOK, IsOpen
  <2>7. SeatOK(f, th[w])'
    <3>1. CASE EntryOK(clients[f], c, n, Len(th[w].buf)) /\ clients[f] # NoEntry /\ clients[f].named
      <4>1. clients[f] \in ClientInfo \union {NoEntry} /\ 0 \in Nat
        BY Types
      <4>2. EntryOK(clients[f], c, n, 0)
        BY <1>5, <3>1, <4>1, LessInHand
      <4>3. EntryOK(clients'[f], sock'[f], Taken(conn'[sock'[f]]), Held(th'[w], f))
        BY <1>1, <1>2, <2>3, <2>4, <4>2
      <4> QED
        BY <1>1, <1>2, <4>3 DEF SeatOK, IsOpen
    <3>2. CASE EntryOK(clients[f], c, n, Len(th[w].buf)) /\ ~(clients[f] # NoEntry /\ clients[f].named)
      BY <2>6, <3>2 DEF EntryOK, Blank
    <3> QED
      BY <1>8, <1>9, <2>6, <3>1, <3>2
  <2>8. \A g \in Fds : SeatOK(g, th[w])'
    <3>1. \A g \in Fds \ {f} : SeatOK(g, th[w])'
      BY <1>7, <2>1
    <3> QED
      BY <2>7, <3>1
  <2>9. PartOK(th[w])'
    BY <1>4, <2>2
  <2> QED
    BY <1>2, <2>3, <2>8, <2>9, SpeechBy
<1> QED
  BY <1>2, <1>10, <1>11, <1>12

\* A text in hand of a client with a name is spoken under it.
LEMMA SpokenNow ==
  ASSUME IInv, NEW e \in ClientInfo, NEW c, NEW R, NEW n \in Nat, NEW text \in Seq(Msg),
         e.named, text # <<>>, TextOK(text, c, n),
         EntryOK(e, c, n, Len(text)) \/ Inherited(e, R \ {c})
  PROVE  Spoken(Note("say", e.nick, text, {}), R)
<1>1. e # NoEntry /\ e.nick \in Seq(Msg) /\ e.nick # <<>>
  BY EntryAssumption DEF EntryOK, Inherited, ClientInfo
<1>2. e.nick # Garbage
  BY <1>1, GarbageAssumption
<1>3. /\ Head(e.nick) = e.nick[1] /\ Last(e.nick) = e.nick[Len(e.nick)]
      /\ e.nick[Len(e.nick)] \in Msg /\ Head(e.nick) \in Range(e.nick)
  BY <1>1, RangeTail DEF Last
<1>4. /\ Head(text) = text[1] /\ 1 \in DOMAIN text /\ Len(text) \in Nat
  OBVIOUS
<1>5. Head(text).src = c /\ Head(text).no = n - Len(text) + 1
  BY <1>4 DEF TextOK
<1>6. From(text, c)
  BY RangeMember DEF From, TextOK
<1>7. e.nick[Len(e.nick)].no \in Nat
  BY <1>3 DEF Msg
<1>8. CASE EntryOK(e, c, n, Len(text))
  <2>1. From(e.nick, c) /\ e.nick[1].no = 1 /\ e.nick[Len(e.nick)].no + Len(text) <= n
    BY <1>1, <1>8 DEF EntryOK
  <2>2. Head(e.nick).src = c
    BY <1>3, <2>1 DEF From
  <2>3. Last(e.nick).no < Head(text).no
    BY <1>3, <1>4, <1>5, <1>7, <2>1
  <2> QED
    BY <1>1, <1>2, <1>3, <1>5, <1>6, <2>1, <2>2, <2>3 DEF Spoken, Note
<1>9. CASE Inherited(e, R \ {c})
  <2>1. PICK s \in R \ {c} : From(e.nick, s) /\ e.nick[1].no = 1
    BY <1>9 DEF Inherited
  <2>2. Head(e.nick).src = s
    BY <1>3, <2>1 DEF From
  <2> QED
    BY <1>1, <1>2, <1>3, <1>5, <1>6, <2>1, <2>2 DEF Spoken, Note
<1> QED
  BY <1>8, <1>9

\* The steps that name, greet and see off a user, and make a chat line.
LEMMA SpeakSpeech ==
  ASSUME OneWorker, IInv, SocketsOK, Base, Tidy, RegInv, HomeInv, SpeechInv, NEW w \in Workers,
         Gone \subseteq Gone',
         ReadName(w) \/ Erase(w) \/ Dispatch(w) \/ Welcome(w) \/ Say(w)
  PROVE  SpeechInv'
<1>1. \A c \in Conns : /\ conn'[c].rx = conn[c].rx /\ conn'[c].sent = conn[c].sent
                       /\ Waiting(c)' => Waiting(c)
  BY UnreadKept DEF Worker, Recv, ReadName, Erase, Dispatch, Welcome, Say, Announce, At
<1>2. UNCHANGED <<conn, sock>>
  BY DEF ReadName, Erase, Dispatch, Welcome, Say, Announce, netVars
<1>3. SpeechOK(th[w]) /\ th[w] \in Thread
  BY Types DEF SpeechInv
<1>4. CASE ReadName(w)
  <2>1. th[w].pc = "readname" /\ UNCHANGED clients
    BY <1>4, Listed DEF ReadName, At
  <2>2. th'[w].pc = "erase" /\ th'[w].out.kind = "leave"
    <3>1. PICK nick : nick = clients'[th[w].fd].nick
      OBVIOUS
    <3>2. Become(w, [th[w] EXCEPT !.pc = "erase", !.out = Note("leave", nick, <<>>, {})])
      BY <1>4, <3>1 DEF ReadName
    <3>3. th'[w].pc = "erase" /\ th'[w].out = Note("leave", nick, <<>>, {})
      BY <1>3, <3>2, Becomes DEF Thread
    <3> QED
      BY <3>3 DEF Note
  <2>3. PartOK(th[w])'
    BY <2>2 DEF PartOK, Talking
  <2>4. th'[w].fd = th[w].fd
    BY <1>4, SpeakMoves DEF Same
  <2> QED
    BY <1>1, <1>2, <2>1, <2>2, <2>3, <2>4, Steady DEF Held, Reading, Leaving
<1>5. CASE Erase(w)
  <2>1. th[w].pc = "erase" /\ ~IsOpen(th[w].fd) /\ clients' = [clients EXCEPT ![th[w].fd] = NoEntry]
    BY <1>5 DEF Erase, Erased, At, Base, PlaceOK
  <2>3. th[w].out.kind = "leave"
    BY <2>1 DEF HomeInv, ThreadsHome, ThreadHome
  <2>4. PICK name : th'[w] = [th[w] EXCEPT !.pc = "bcast", !.out.nick = name]
    BY <1>5 DEF Erase
  <2>5. th'[w].pc = "bcast" /\ th'[w].out.kind = "leave"
    BY <1>3, <2>3, <2>4 DEF Thread, Notice
  <2>6. PartOK(th[w])'
    BY <2>5 DEF PartOK, Talking
  <2>7. \A c \in Conns : /\ RxOK(c)' /\ Taken(conn'[c]) = Taken(conn[c]) /\ Taken(conn[c]) \in Nat
                         /\ conn'[c].rx = conn[c].rx
    BY <1>1, TakenKept DEF SpeechInv
  <2>8. ASSUME NEW f \in Fds
        PROVE  SeatOK(f, th[w])'
    <3>1. CASE f = th[w].fd
      <4>1. clients'[f] = NoEntry /\ ~IsOpen(f)'
        BY <1>2, <2>1, <3>1, Types DEF IsOpen
      <4> QED
        BY <4>1 DEF SeatOK, Blank
    <3>2. CASE f # th[w].fd
      <4>1. IsOpen(f) => sock[f] \in Conns
        BY Types
      <4>2. SeatOK(f, th[w])
        BY <1>3 DEF SpeechOK
      <4>3. IsOpen(f) =>
               /\ Taken(conn'[sock[f]]) = Taken(conn[sock[f]]) /\ Taken(conn[sock[f]]) \in Nat
               /\ conn[sock[f]].peer # "up" => conn'[sock[f]].rx = conn[sock[f]].rx
        BY <2>7, <4>1
      <4>4. clients'[f] = clients[f] /\ sock'[f] = sock[f]
        BY <1>2, <2>1, <3>2, Types
      <4>5. Held(th'[w], f) = Held(th[w], f) /\ ~Leaving(th[w], f)
        BY <2>1, <2>5, <3>2 DEF Held, Reading, Leaving
      <4> QED
        BY <4>2, <4>3, <4>4, <4>5, SeatStays
    <3> QED
      BY <3>1, <3>2
  <2> QED
    BY <2>5, <2>6, <2>7, <2>8, SpeechBy DEF Reading
<1>6. CASE Dispatch(w)
  <2>1. th[w].pc = "dispatch" /\ th[w].fd \in Fds /\ UNCHANGED clients /\ IsOpen(th[w].fd)
    <3>1. th[w].pc = "dispatch"
      BY <1>6 DEF Dispatch, At
    <3> QED
      BY <1>6, <3>1, Listed DEF Dispatch, Base, PlaceOK, Serving
  <2>2. th[w].out = Nothing
    BY <2>1 DEF Tidy, LocalsOK
  <2>3. CASE th[w].buf = <<>>
    <3>1. th'[w].pc = "next" /\ th'[w].out = Nothing
      BY <1>6, <2>3, Returns DEF Dispatch
    <3>2. PartOK(th[w])'
      BY <3>1 DEF PartOK, Talking, Nothing, Note
    <3>3. \A f \in Fds : Held(th[w], f) = 0 /\ Held(th'[w], f) = 0
      BY <2>3, <3>1 DEF Held, Reading
    <3> QED
      BY <1>1, <1>2, <2>1, <3>1, <3>2, <3>3, Steady DEF Reading, Leaving
  <2>4. CASE th[w].buf # <<>>
    <3>1. Goto(w, IF clients[th[w].fd].named THEN "talk" ELSE "setnick")
      BY <1>6, <2>1, <2>4 DEF Dispatch
    <3>2. /\ th'[w].pc = IF clients[th[w].fd].named THEN "talk" ELSE "setnick"
          /\ th'[w].fd = th[w].fd /\ th'[w].buf = th[w].buf /\ th'[w].out = Nothing
      BY <2>2, <3>1, Goes DEF Same
    <3>3. PartOK(th[w])'
      BY <2>1, <2>4, <3>2 DEF PartOK, Talking, Nothing, Note
    <3>4. \A f \in Fds : Held(th'[w], f) = Held(th[w], f)
      BY <2>1, <3>2 DEF Held, Reading
    <3> QED
      BY <1>1, <1>2, <2>1, <3>2, <3>3, <3>4, Steady DEF Reading, IsOpen, Leaving
  <2> QED
    BY <2>3, <2>4
<1>7. CASE Welcome(w)
  <2>1. th[w].pc = "welcome"
    BY <1>7 DEF Welcome, Announce, At
  <2>2. UNCHANGED clients
    BY <1>7, <2>1, Listed DEF Welcome, Announce, Serving
  <2>3. th'[w].pc = "bcast" /\ th'[w].out.kind = "welcome"
    <3>1. PICK nick : nick = clients'[th[w].fd].nick
      OBVIOUS
    <3>2. Become(w, [th[w] EXCEPT !.pc = "bcast", !.out = Note("welcome", nick, <<>>, {})])
      BY <1>7, <3>1 DEF Welcome, Announce
    <3>3. th'[w].pc = "bcast" /\ th'[w].out = Note("welcome", nick, <<>>, {})
      BY <1>3, <3>2, Becomes DEF Thread
    <3> QED
      BY <3>3 DEF Note
  <2>4. PartOK(th[w])'
    BY <2>3 DEF PartOK, Talking
  <2> QED
    BY <1>1, <1>2, <2>1, <2>2, <2>3, <2>4, Steady DEF Held, Reading, Leaving
<1>8. CASE Say(w)
  <2>1. th[w].pc = "say" /\ Touched(th[w].fd) = clients /\ clients[th[w].fd] \in ClientInfo
        /\ th[w].fd \in Fds /\ IsOpen(th[w].fd)
    <3>1. th[w].pc = "say"
      BY <1>8 DEF Say, Announce, At
    <3> QED
      BY <3>1, Listed DEF Base, PlaceOK, Serving
  <2>2. UNCHANGED clients /\ Become(w, [th[w] EXCEPT !.pc = "bcast",
                             !.out = Note("say", clients[th[w].fd].nick, th[w].buf, {})])
    <3>1. UNCHANGED clients
      BY <1>8, <2>1 DEF Say, Announce
    <3> QED
      BY <1>8, <2>1, <3>1 DEF Say, Announce
  <2>3. th'[w].pc = "bcast" /\ th'[w].out = Note("say", clients[th[w].fd].nick, th[w].buf, {})
    BY <1>3, <2>2, Becomes DEF Thread
  <2>4. clients[th[w].fd].named /\ th[w].buf # <<>>
    BY <1>3, <2>1 DEF SpeechOK, PartOK, Talking
  <2>5. Spoken(th'[w].out, Gone')
    <3>1. PICK n \in Nat : n = Taken(conn[sock[th[w].fd]])
      <4>1. sock[th[w].fd] \in Conns
        BY <2>1, Types
      <4>2. PICK c \in Conns : c = sock[th[w].fd]
        BY <4>1
      <4>3. conn[c].rx \in Seq(Msg) /\ conn[c].sent \in Nat /\ Len(conn[c].rx) <= conn[c].sent
        BY Types DEF ConnState, SpeechInv, RxOK
      <4>4. Taken(conn[c]) \in Nat
        BY <4>3 DEF Taken
      <4> QED
        BY <4>2, <4>4
    <3>2. \/ EntryOK(clients[th[w].fd], sock[th[w].fd], n, Len(th[w].buf))
          \/ Inherited(clients[th[w].fd], Gone \ {sock[th[w].fd]})
      <4>1. Held(th[w], th[w].fd) = Len(th[w].buf)
        BY <2>1 DEF Held, Reading
      <4>2. SeatOK(th[w].fd, th[w]) /\ ~Blank(clients[th[w].fd])
        BY <1>3, <2>1, <2>4, EntryAssumption DEF SpeechOK, Blank
      <4> QED
        BY <2>1, <3>1, <4>1, <4>2 DEF SeatOK
    <3>3. TextOK(th[w].buf, sock[th[w].fd], n)
      BY <1>3, <2>1, <3>1 DEF SpeechOK, Reading
    <3>4. th[w].buf \in Seq(Msg)
      BY <1>3 DEF Thread
    <3>5. Spoken(th'[w].out, Gone)
      BY <2>1, <2>3, <2>4, <3>2, <3>3, <3>4, SpokenNow
    <3> QED
      BY <3>5, StaysSpoken
  <2>6. PartOK(th[w])'
    BY <2>3, <2>5 DEF PartOK, Talking, Note
  <2>7. clients[th[w].fd] # NoEntry
    BY <2>1, EntryAssumption
  <2>8. \A f \in Fds : \/ Held(th'[w], f) = Held(th[w], f)
                       \/ Held(th'[w], f) = 0 /\ clients[f] # NoEntry /\ clients[f].named
    BY <2>3, <2>4, <2>7 DEF Held, Reading
  <2> QED
    BY <1>1, <1>2, <2>1, <2>2, <2>3, <2>6, <2>8, Steady DEF Reading, Leaving
<1> QED
  BY <1>4, <1>5, <1>6, <1>7, <1>8

\* A text that is all its client has sent makes a name.
LEMMA NamedNow ==
  ASSUME IInv, NEW e \in ClientInfo, NEW c, NEW n \in Nat, NEW text \in Seq(Msg),
         ~e.named, text # <<>>, EntryOK(e, c, n, Len(text)), TextOK(text, c, n)
  PROVE  EntryOK([e EXCEPT !.nick = text, !.named = TRUE], c, n, 0)
<1>1. n = Len(text)
  BY EntryAssumption DEF EntryOK
<1>2. \A i \in DOMAIN text : text[i].no = i
  <2> TAKE i \in DOMAIN text
  <2>1. i \in Nat
    OBVIOUS
  <2> QED
    BY <1>1, <2>1 DEF TextOK
<1>3. 1 \in DOMAIN text /\ Len(text) \in DOMAIN text
  OBVIOUS
<1>4. From(text, c)
  BY RangeMember DEF From, TextOK
<1>5. text[1].no = 1 /\ text[Len(text)].no + 0 <= n
  BY <1>1, <1>2, <1>3
<1>6. PICK d : d = [e EXCEPT !.nick = text, !.named = TRUE]
  OBVIOUS
<1>7. d.nick = text /\ d.named /\ d # NoEntry
  BY <1>6, EntryAssumption DEF ClientInfo
<1> QED
  BY <1>4, <1>5, <1>6, <1>7 DEF EntryOK

\* The first text names its sender.
LEMMA NameSpeech ==
  ASSUME OneWorker, IInv, SocketsOK, Base, Tidy, RegInv, HomeInv, SpeechInv, NEW w \in Workers,
         Gone \subseteq Gone', SetNick(w)
  PROVE  SpeechInv'
<1>1. UNCHANGED <<conn, sock, backlog>>
  BY DEF SetNick, netVars
<1>2. SpeechOK(th[w]) /\ th[w] \in Thread /\ \A c \in Conns : RxOK(c)
  BY Types DEF SpeechInv
<1>3. PICK f \in Fds, c \in Conns : f = th[w].fd /\ c = sock[f] /\ IsOpen(f)
  <2>1. th[w].pc = "setnick"
    BY DEF SetNick, At
  <2> QED
    BY <2>1, Listed, Types DEF Base, PlaceOK, Serving
<1>4. th[w].pc = "setnick" /\ Touched(f) = clients /\ clients[f] \in ClientInfo
  <2>1. th[w].pc = "setnick"
    BY DEF SetNick, At
  <2> QED
    BY <1>3, <2>1, Listed DEF Serving
<1>5. clients' = [clients EXCEPT ![f].nick = th[w].buf, ![f].named = TRUE] /\ Goto(w, "welcome")
  BY <1>3, <1>4 DEF SetNick
<1>6. /\ clients'[f] = [clients[f] EXCEPT !.nick = th[w].buf, !.named = TRUE]
      /\ \A g \in Fds \ {f} : clients'[g] = clients[g]
  BY <1>5, Types
<1>7. th'[w].pc = "welcome" /\ th'[w].out = Nothing
  BY <1>4, <1>5, Goes DEF Tidy, LocalsOK
<1>8. PartOK(th[w])' /\ th'[w].pc \notin Reading /\ \A g \in Fds : Held(th'[w], g) = 0
  BY <1>7 DEF PartOK, Talking, Nothing, Note, Reading, Held
<1>9. \A d \in Conns : RxOK(d)'
  BY <1>1, <1>2 DEF RxOK, Waiting
<1>10. EntryOK(clients'[f], c, Taken(conn[c]), 0)
  <2>1. ~clients[f].named /\ th[w].buf # <<>> /\ th[w].buf \in Seq(Msg)
    BY <1>2, <1>3, <1>4 DEF SpeechOK, PartOK, Thread
  <2>2. Taken(conn[c]) \in Nat
    <3>1. conn[c].rx \in Seq(Msg) /\ conn[c].sent \in Nat /\ Len(conn[c].rx) <= conn[c].sent
      BY <1>2, Types DEF ConnState, RxOK
    <3> QED
      BY <3>1 DEF Taken
  <2>3. Held(th[w], f) = Len(th[w].buf)
    BY <1>3, <1>4 DEF Held, Reading
  <2>4. EntryOK(clients[f], c, Taken(conn[c]), Len(th[w].buf)) /\ TextOK(th[w].buf, c, Taken(conn[c]))
    <3>1. SeatOK(f, th[w]) /\ Held(th[w], f) # 0
      BY <1>2, <2>1, <2>3 DEF SpeechOK
    <3>2. ~Inherited(clients[f], Gone \ {sock[f]})
      BY <2>1 DEF Inherited
    <3> QED
      BY <1>2, <1>3, <1>4, <2>3, <3>1, <3>2 DEF SpeechOK, SeatOK, Reading
  <2>5. EntryOK([clients[f] EXCEPT !.nick = th[w].buf, !.named = TRUE], c, Taken(conn[c]), 0)
    BY <1>4, <2>1, <2>2, <2>4, NamedNow
  <2> QED
    BY <1>6, <2>5
<1>11. ASSUME NEW g \in Fds, g # f
       PROVE  SeatOK(g, th[w])'
  <2>1. IsOpen(g) => sock[g] \in Conns
    BY Types
  <2>2. SeatOK(g, th[w])
    BY <1>2 DEF SpeechOK
  <2>3. \A d \in Conns : conn'[d] = conn[d] /\ Taken(conn[d]) \in Nat
    <3> TAKE d \in Conns
    <3>1. conn[d].rx \in Seq(Msg) /\ conn[d].sent \in Nat /\ RxOK(d)
      BY <1>2, Types DEF ConnState
    <3> QED
      BY <1>1, <3>1 DEF RxOK, Taken
  <2>4. IsOpen(g) =>
           /\ Taken(conn'[sock[g]]) = Taken(conn[sock[g]]) /\ Taken(conn[sock[g]]) \in Nat
           /\ conn[sock[g]].peer # "up" => conn'[sock[g]].rx = conn[sock[g]].rx
    BY <2>1, <2>3
  <2>5. clients'[g] = clients[g] /\ sock'[g] = sock[g]
    BY <1>1, <1>6, <1>11
  <2>6. Held(th'[w], g) = Held(th[w], g) /\ ~Leaving(th[w], g)
    BY <1>3, <1>4, <1>8, <1>11 DEF Held, Leaving
  <2> QED
    BY <2>2, <2>4, <2>5, <2>6, SeatStays
<1>12. SeatOK(f, th[w])'
  <2>1. EntryOK(clients'[f], sock'[f], Taken(conn'[sock'[f]]), Held(th'[w], f))
    BY <1>1, <1>3, <1>8, <1>10
  <2> QED
    BY <1>1, <1>3, <2>1 DEF SeatOK, IsOpen
<1>13. \A g \in Fds : SeatOK(g, th[w])'
  BY <1>11, <1>12
<1> QED
  BY <1>8, <1>9, <1>13, SpeechBy

\* The loops over the map.
LEMMA LoopSpeech ==
  ASSUME OneWorker, IInv, SpeechInv, Base, Tidy, RegInv, HomeInv, NEW w \in Workers,
         Gone \subseteq Gone',
         Talk(w) \/ ShowStep(w) \/ BroadcastStep(w) \/ PrivateStep(w)
  PROVE  SpeechInv'
<1>1. \A c \in Conns : /\ conn'[c].rx = conn[c].rx /\ conn'[c].sent = conn[c].sent
                       /\ Waiting(c)' => Waiting(c)
  BY UnreadKept DEF Worker, Recv, Talk, ShowStep, BroadcastStep, PrivateStep, At
<1>2. /\ UNCHANGED <<sock, clients>>
      /\ Turned(w) \/ Looped(w) \/ Through(w) \/ Killed(w)
  BY LoopEffects DEF SendFrame
<1>3. SpeechOK(th[w]) /\ PartOK(th[w])
  BY DEF SpeechInv, SpeechOK
<1>4. th[w].pc \in {"talk", "show", "private", "bcast"} /\ th[w].fd \in Fds
  <2>1. \E l \in {"talk", "show", "private", "bcast"} : At(w, l)
    BY DEF Talk, ShowStep, BroadcastStep, PrivateStep
  <2> QED
    BY <2>1, Handler DEF InHandler, InBatch, PCs
<1>5. \A f \in Fds : ~Leaving(th[w], f)
  BY <1>4 DEF Leaving
<1>6. ASSUME th'[w].pc \in Talking, th[w].pc \in Talking, th'[w].buf = th[w].buf, Same(th[w], th'[w]),
             PartOK(th[w])'
      PROVE  SpeechInv'
  <2>1. th[w].pc \in Reading /\ th'[w].pc \in Reading /\ IsOpen(th[w].fd) /\ th'[w].fd = th[w].fd
    BY <1>2, <1>4, <1>6 DEF Reading, Talking, Base, PlaceOK, Serving, Same
  <2>2. \A f \in Fds : Held(th'[w], f) = Held(th[w], f)
    BY <1>6, <2>1 DEF Held
  <2> QED
    BY <1>1, <1>2, <1>4, <1>5, <1>6, <2>1, <2>2, Steady
<1>7. CASE Turned(w)
  <2>1. th'[w].pc \in Talking /\ th[w].pc = "talk"
    BY <1>7 DEF Turned, Talking
  <2>2. th[w].out = Nothing
    BY <2>1 DEF Tidy, LocalsOK
  <2>3. /\ th'[w].buf = th[w].buf /\ Same(th[w], th'[w])
        /\ th'[w].pc # "private" => th'[w].out = Nothing
        /\ th'[w].pc = "private" => /\ th'[w].out.kind = "private" /\ th'[w].out.body = th[w].buf
                                    /\ th'[w].out.nick \in NamesRead(th[w].buf)
    BY <1>7, <2>2 DEF Turned
  <2>4. th[w].buf # <<>> /\ clients'[th[w].fd].named
    BY <1>2, <1>3, <2>1 DEF PartOK, Talking
  <2>5. PartOK(th[w])'
    BY <2>1, <2>3, <2>4 DEF PartOK, Talking, Nothing, Note, Same
  <2> QED
    BY <1>6, <2>1, <2>3, <2>5 DEF Talking
<1>8. CASE Looped(w)
  <2>1. /\ th'[w].pc = th[w].pc /\ th'[w].buf = th[w].buf /\ Same(th[w], th'[w])
        /\ th[w].pc # "show" => th'[w].out = th[w].out
        /\ th'[w].out.kind = th[w].out.kind
    BY <1>8 DEF Looped
  <2>2. Spoken(th[w].out, Gone) => Spoken(th[w].out, Gone')
    BY StaysSpoken
  <2>3. PartOK(th[w])'
    BY <1>2, <1>3, <2>1, <2>2 DEF PartOK, Same
  <2>4. CASE th[w].pc = "bcast"
    BY <1>1, <1>2, <1>5, <2>1, <2>3, <2>4, Steady DEF Held, Reading
  <2>5. CASE th[w].pc # "bcast"
    BY <1>4, <1>6, <2>1, <2>3, <2>5 DEF Talking
  <2> QED
    BY <2>4, <2>5
<1>9. CASE Through(w)
  <2>1. th'[w].pc = "next" /\ th'[w].out = Nothing
    BY <1>9 DEF Through
  <2>2. PartOK(th[w])'
    BY <2>1 DEF PartOK, Talking, Nothing, Note
  <2>3. ASSUME NEW f \in Fds, IsOpen(f)
        PROVE  \/ Held(th'[w], f) = Held(th[w], f)
               \/ Held(th'[w], f) = 0 /\ clients[f] # NoEntry /\ clients[f].named
    <3>1. Held(th'[w], f) = 0
      BY <2>1 DEF Held, Reading
    <3>2. CASE th[w].pc \in Talking /\ th[w].fd = f
      <4>1. clients[f].named /\ f \in Keys
        BY <1>3, <3>2, Listed DEF PartOK, Serving, Talking
      <4> QED
        BY <3>1, <4>1 DEF Keys
    <3>3. CASE ~(th[w].pc \in Talking /\ th[w].fd = f)
      BY <1>4, <3>1, <3>3 DEF Held, Reading, Talking
    <3> QED
      BY <3>2, <3>3
  <2> QED
    BY <1>1, <1>2, <1>5, <2>1, <2>2, <2>3, Steady DEF Reading
<1>10. CASE Killed(w)
  <2>1. UNCHANGED th
    BY <1>10 DEF Killed
  <2>2. Spoken(th[w].out, Gone) => Spoken(th[w].out, Gone')
    BY StaysSpoken
  <2>3. PartOK(th[w])'
    BY <1>2, <1>3, <2>1, <2>2 DEF PartOK
  <2>4. th'[w].pc \in Reading => IsOpen(th[w].fd)
    BY <1>2, <1>4, <2>1 DEF Reading, Base, PlaceOK, Serving
  <2> QED
    BY <1>1, <1>2, <1>4, <1>5, <2>1, <2>3, <2>4, Steady
<1> QED
  BY <1>2, <1>7, <1>8, <1>9, <1>10

\* Whatever happens.
LEMMA NextSpeech ==
  ASSUME OneWorker, ServerInv, HomeInv, SpeechInv, [Next]_vars
  PROVE  SpeechInv'
<1>1. IInv /\ SocketsOK /\ Base /\ Tidy /\ RegInv
  BY DEF ServerInv
<1>2. Gone \subseteq Gone'
  BY <1>1, GoneGrows DEF SpeechInv
<1>3. CASE \E w \in Workers : Worker(w)
  <2>1. PICK w \in Workers : Worker(w)
    BY <1>3
  <2>2. ~Blocked(w)
    BY <1>1 DEF Blocked, At, Base, PlaceOK
  <2> QED
    BY <1>1, <1>2, <2>1, <2>2, FrameSpeech, CloseSpeech, OpenSpeech, RecvSpeech, SpeakSpeech, NameSpeech,
       LoopSpeech DEF Worker
<1>4. CASE Outside
  <2>1. /\ \A c \in Conns : RxOK(c)' /\ Taken(conn'[c]) = Taken(conn[c])
        /\ \A c \in Conns : conn[c].peer # "up" => conn'[c].rx = conn[c].rx
        /\ UNCHANGED <<sock, clients, th>>
    BY <1>1, <1>4, OutsideTaken DEF SpeechInv
  <2>2. \A w \in Workers : SpeechOK(th[w]) /\ (th[w].pc \in Reading => th[w].fd \in Fds /\ IsOpen(th[w].fd))
    <3> TAKE w \in Workers
    <3>1. ThreadOK(th[w]) /\ PlaceOK(th[w]) /\ SpeechOK(th[w])
      BY <1>1 DEF IInv, ThreadsOK, Base, SpeechInv
    <3> QED
      BY <3>1 DEF ThreadOK, PlaceOK, Reading, Serving, InBatch, PCs
  <2>3. \A f \in Fds : IsOpen(f) => sock[f] \in Conns
    BY <1>1, Types
  <2>4. \A c \in Conns : Taken(conn[c]) \in Nat
    <3> TAKE c \in Conns
    <3>1. conn[c].rx \in Seq(Msg) /\ conn[c].sent \in Nat /\ RxOK(c)
      BY <1>1, Types DEF ConnState, SpeechInv
    <3> QED
      BY <3>1 DEF RxOK, Taken
  <2>5. ASSUME NEW w \in Workers
        PROVE  SpeechOK(th[w])'
    <3>1. ASSUME NEW f \in Fds
          PROVE  SeatOK(f, th[w])'
      <4>1. SeatOK(f, th[w]) /\ clients'[f] = clients[f] /\ sock'[f] = sock[f] /\ th'[w] = th[w]
        BY <2>1, <2>2 DEF SpeechOK
      <4>2. IsOpen(f) =>
               /\ Taken(conn'[sock[f]]) = Taken(conn[sock[f]]) /\ Taken(conn[sock[f]]) \in Nat
               /\ conn[sock[f]].peer # "up" => conn'[sock[f]].rx = conn[sock[f]].rx
        BY <2>1, <2>3, <2>4
      <4> QED
        BY <1>1, <1>2, <4>1, <4>2, SeatStays
    <3>2. th'[w].pc \in Reading => TextOK(th'[w].buf, sock'[th'[w].fd], Taken(conn'[sock'[th'[w].fd]]))
      BY <2>1, <2>2, <2>3 DEF SpeechOK
    <3>3. Spoken(th[w].out, Gone) => Spoken(th[w].out, Gone')
      BY <1>2, StaysSpoken
    <3>4. PartOK(th[w])'
      BY <2>1, <2>2, <3>3 DEF SpeechOK, PartOK
    <3> QED
      BY <3>1, <3>2, <3>4 DEF SpeechOK
  <2> QED
    BY <2>1, <2>5 DEF SpeechInv
<1>5. CASE RaceCrash \/ MainJoin \/ UNCHANGED vars
  <2>1. UNCHANGED <<conn, sock, backlog, clients, th>>
    BY <1>5 DEF RaceCrash, Die, MainJoin, vars, netVars, regVars
  <2>2. UNCHANGED Gone
    BY <2>1 DEF Gone, ResetConns, Waiting
  <2>3. \A c \in Conns : RxOK(c)'
    BY <2>1 DEF SpeechInv, RxOK, Waiting
  <2>4. \A w \in Workers : SpeechOK(th[w])'
    BY <2>1, <2>2 DEF SpeechInv, SpeechOK, SeatOK, PartOK, IsOpen
  <2> QED
    BY <2>3, <2>4 DEF SpeechInv
<1> QED
  BY <1>3, <1>4, <1>5 DEF Next

\* Nobody has said a thing yet.
LEMMA InitSpeech ==
  ASSUME Init
  PROVE  SpeechInv
<1>1. \A w \in Workers : th[w].pc = "lock" /\ th[w].out = Nothing
  BY DEF Init, IdleThread
<1>2. \A f \in Fds : ~IsOpen(f) /\ clients[f] = NoEntry
  BY DEF Init, SocketInit, AllFds, Fds, ListenFd, IsOpen
<1>3. \A c \in Conns : conn[c].rx = <<>> /\ conn[c].sent = 0
  BY DEF Init, SocketInit
<1>4. \A c \in Conns : RxOK(c)
  BY <1>3 DEF RxOK, Taken
<1>5. \A w \in Workers : SpeechOK(th[w])
  BY <1>1, <1>2 DEF SpeechOK, SeatOK, Blank, PartOK, Reading, Talking, Nothing, Note
<1> QED
  BY <1>4, <1>5 DEF SpeechInv

\* What holds of the texts in every state with one worker.
LEMMA SpeechInvariance ==
  ASSUME OneWorker
  PROVE  Spec => [](ServerInv /\ HomeInv /\ SpeechInv)
<1>1. Init => HomeInv /\ SpeechInv
  BY InitHome, InitSpeech
<1>2. ServerInv /\ HomeInv /\ SpeechInv /\ [Next]_vars => HomeInv' /\ SpeechInv'
  BY NextHome, NextSpeech DEF ServerInv
<1>3. Spec => []ServerInv
  BY ServerInvariance
<1> QED
  BY <1>1, <1>2, <1>3, PTL DEF Spec

\* With one worker a chat line goes out under the name of who typed it, and a name is what
\* its owner sent first and never a chat line; a line that goes out under another's name goes
\* out under that of a connection that was reset.
THEOREM LinesAreOwned ==
  ASSUME OneWorker
  PROVE  Spec => []SpokenByOwner
<1>1. ServerInv /\ HomeInv /\ SpeechInv => SpokenByOwner
  <2> SUFFICES ASSUME SpeechInv, NEW w \in Workers, th[w].out.kind = "say"
               PROVE  Spoken(th[w].out, ResetConns)
    BY DEF SpokenByOwner, Spoken
  <2>1. Spoken(th[w].out, Gone)
    BY DEF SpeechInv, SpeechOK, PartOK
  <2> QED
    BY <2>1, StaysSpoken DEF Gone
<1> QED
  BY <1>1, SpeechInvariance, PTL

-----------------------------------------------------------------------------
(* Whom a private message gets to.                                         *)

\* Only the client at the descriptor hears of a send, at the end of what it has heard, and
\* only while it is there.
LEMMA SendLast ==
  ASSUME IInv, NEW w \in Workers, NEW f \in Fds, NEW msg \in Notice, NEW t, Send(w, f, msg, t),
         NEW d \in Conns, conn'[d].inbox # conn[d].inbox
  PROVE  /\ IsOpen(f) /\ d = sock[f] /\ conn[d].peer = "up"
         /\ LET notice == Last(conn'[d].inbox) IN
            notice.kind = msg.kind /\ notice.nick = msg.nick /\ notice.body = msg.body
<1>1. conn \in [Conns -> ConnState] /\ \A c \in Conns : conn[c].inbox \in Seq(Notice)
  BY Types DEF ConnState
<1>2. ~Reports /\ ~Quiet
  BY MutedInbox DEF Muted
<1>3. SendTaken(f) /\ \E part \in Portions(f, msg) : conn' = Sent(sock[f], part)
  <2>1. IsOpen(f) => sock[f] \in Conns
    BY Types
  <2>2. ~(SendFails(f) /\ conn' = IF IsOpen(f) THEN Reported(sock[f]) ELSE conn)
    BY <1>2, <2>1 DEF SendFails, Reports, Quiet, Send
  <2>3. ~UNCHANGED conn
    OBVIOUS
  <2> QED
    BY <2>2, <2>3 DEF Send
<1>4. PICK part \in Portions(f, msg) : conn' = Sent(sock[f], part)
  BY <1>3
<1>5. part \in Notice /\ part.kind = msg.kind /\ part.nick = msg.nick /\ part.body = msg.body
  BY PortionOK
<1>6. PICK c \in Conns : c = sock[f] /\ IsOpen(f)
  BY <1>3, Types DEF SendTaken
<1>7. d = c /\ conn[c].peer = "up" /\ conn'[c].inbox = Append(conn[c].inbox, part)
  BY <1>1, <1>4, <1>6 DEF Sent, ConnState
<1>8. PICK s \in Seq(Notice) : s = conn[c].inbox
  BY <1>1
<1>9. Last(Append(s, part)) = part
  BY <1>5 DEF Last
<1> QED
  BY <1>5, <1>6, <1>7, <1>8, <1>9

\* Who is there and has the name that was read from a private message is the user it names,
\* or has its entry from one that was reset; or the name is empty, and nothing has been read
\* from that user.
LEMMA NamedIs ==
  ASSUME OneWorker, ServerInv, SpeechInv, NEW w \in Workers, th[w].pc = "private",
         NEW k \in Keys, IsOpen(k), conn[sock[k]].peer = "up", clients[k].nick = th[w].out.nick
  PROVE  \/ Head(th[w].buf).to \in {sock[k]} \union ResetConns
         \/ th[w].out.nick = <<>> /\ Len(conn[sock[k]].rx) = conn[sock[k]].sent
<1>1. IInv /\ SpeechOK(th[w]) /\ PartOK(th[w])
  BY DEF ServerInv, SpeechInv, SpeechOK
<1>2. k \in Fds /\ clients[k] # NoEntry /\ clients[k] \in ClientInfo /\ sock[k] \in Conns
  BY <1>1, Types DEF Keys
<1>3. clients[k].nick \in Seq(Msg)
  BY <1>2 DEF ClientInfo
<1>4. PICK c \in Conns : c = sock[k] /\ conn[c].peer = "up"
  BY <1>2
<1>5. \/ EntryOK(clients[k], c, Taken(conn[c]), Held(th[w], k))
      \/ Inherited(clients[k], Gone \ {c})
  <2>1. c \notin Gone
    BY <1>4 DEF Gone, ResetConns
  <2>2. SeatOK(k, th[w])
    BY <1>1, <1>2 DEF SpeechOK
  <2> QED
    BY <1>4, <2>1, <2>2 DEF SeatOK
<1>6. th[w].out.nick \in NamesRead(th[w].buf)
  BY <1>1 DEF PartOK
<1>7. CASE th[w].out.nick = <<>>
  <2>1. ~Inherited(clients[k], Gone \ {c})
    BY <1>7 DEF Inherited
  <2>2. ~clients[k].named /\ Taken(conn[c]) = Held(th[w], k)
    BY <1>2, <1>5, <1>7, <2>1 DEF EntryOK
  <2>3. th[w].fd # k
    BY <1>1, <2>2 DEF PartOK, Talking
  <2>4. Held(th[w], k) = 0
    BY <2>3 DEF Held
  <2>5. conn[c].rx \in Seq(Msg) /\ conn[c].sent \in Nat
    BY <1>1, Types DEF ConnState
  <2>6. Len(conn[c].rx) = conn[c].sent
    BY <2>2, <2>4, <2>5 DEF Taken
  <2> QED
    BY <1>4, <1>7, <2>6
<1>8. CASE th[w].out.nick = FirstWord(Head(th[w].buf).to)
  <2>1. PICK to : to = Head(th[w].buf).to
    OBVIOUS
  <2>2. PICK m : m = [src |-> to, no |-> 1, form |-> "word", to |-> to]
    OBVIOUS
  <2>3. clients[k].nick = <<m>> /\ m.src = to
    BY <1>8, <2>1, <2>2 DEF FirstWord
  <2>4. m \in Range(clients[k].nick) /\ clients[k].nick # <<>>
    <3>1. PICK s \in Seq(Msg) : s = clients[k].nick /\ s = <<m>>
      BY <1>3, <2>3
    <3>2. 1 \in DOMAIN s /\ s[1] = m /\ s # <<>>
      BY <3>1
    <3> QED
      BY <3>1, <3>2, RangeMember
  <2>5. CASE EntryOK(clients[k], c, Taken(conn[c]), Held(th[w], k))
    <3>1. From(clients[k].nick, c)
      BY <1>2, <2>4, <2>5 DEF EntryOK
    <3> QED
      BY <1>4, <2>1, <2>3, <2>4, <3>1 DEF From
  <2>6. CASE Inherited(clients[k], Gone \ {c})
    <3>1. PICK s \in Gone \ {c} : From(clients[k].nick, s)
      BY <2>6 DEF Inherited
    <3>2. to = s /\ s \in ResetConns
      BY <2>3, <2>4, <3>1 DEF From, Gone
    <3> QED
      BY <2>1, <3>2
  <2> QED
    BY <1>5, <2>5, <2>6
<1>9. th[w].out.nick # Garbage
  BY <1>3, GarbageAssumption
<1> QED
  BY <1>6, <1>7, <1>8, <1>9 DEF NamesRead

\* What is sent of a private message, and to whom.
PrivateTo(c) ==
  LET notice == Last(conn'[c].inbox) IN
  notice.kind = "private" =>
    \/ Head(notice.body).to \in {c} \union ResetConns
    \/ notice.nick = <<>> /\ Len(conn[c].rx) = conn[c].sent

\* Whatever happens.
LEMMA NextPrivate ==
  ASSUME OneWorker, ServerInv, SpeechInv, [Next]_vars, NEW c \in Conns, conn'[c].inbox # conn[c].inbox
  PROVE  PrivateTo(c)
<1>1. IInv /\ Tidy
  BY DEF ServerInv
<1>2. ~Muted /\ ~Outside /\ ~UNCHANGED conn
  BY <1>1, MutedInbox
<1>3. ASSUME NEW w \in Workers, NEW f \in Fds, NEW msg \in Notice, NEW t, Send(w, f, msg, t),
             msg.kind # "private"
      PROVE  PrivateTo(c)
  BY <1>1, <1>3, SendLast DEF PrivateTo
<1>4. ~UNCHANGED netVars
  BY <1>2 DEF netVars
<1>5. PICK w \in Workers : Worker(w)
  BY <1>2 DEF Next, RaceCrash, MainJoin, vars, netVars
<1>6. ~Mute(w)
  BY <1>1, <1>2, MuteNet
<1>7. \A l \in {"talk", "show"} : At(w, l) => th[w].fd \in Fds
  BY <1>1, Handler DEF At, InHandler, InBatch, PCs
<1>8. CASE Talk(w)
  <2>1. PICK msg \in Notice : msg = Note("caution", <<>>, <<>>, {}) /\ msg.kind = "caution"
    BY <1>1, MadeNotices DEF Note
  <2>2. th[w].fd \in Fds /\ \E t : Send(w, th[w].fd, msg, t)
    BY <1>4, <1>7, <1>8, <2>1 DEF Talk
  <2> QED
    BY <1>3, <2>1, <2>2
<1>9. CASE ShowStep(w)
  <2>1. PICK msg \in Notice : msg = Note("users", <<>>, <<>>, th[w].out.rows) /\ msg.kind = "users"
    BY <1>1, MadeNotices DEF Note
  <2>2. th[w].fd \in Fds /\ \E t : Send(w, th[w].fd, msg, t)
    BY <1>4, <1>7, <1>9, <2>1 DEF ShowStep
  <2> QED
    BY <1>3, <2>1, <2>2
<1>10. CASE BroadcastStep(w)
  <2>1. \E k \in Fds : \E t : Send(w, k, th[w].out, t)
    BY <1>4, <1>10 DEF BroadcastStep, LoopEnds, Pass
  <2>2. th[w].out \in Notice /\ th[w].out.kind # "private"
    BY <1>1, <1>10, MadeNotices DEF BroadcastStep, At, SpeechInv, SpeechOK, PartOK
  <2> QED
    BY <1>3, <2>1, <2>2
<1>11. CASE PrivateStep(w)
  <2>1. PICK k \in Fds : /\ IsNext(w, k) /\ clients[k].nick = th[w].out.nick
                         /\ \E t : Send(w, k, th[w].out, t)
    BY <1>4, <1>11 DEF PrivateStep, LoopEnds, Pass
  <2>2. th[w].pc = "private" /\ th[w].out \in Notice /\ th[w].out.body = th[w].buf
    BY <1>1, <1>11, MadeNotices DEF PrivateStep, At, SpeechInv, SpeechOK, PartOK
  <2>3. k \in Keys
    BY <1>1, <2>1 DEF IsNext, Ahead, Tidy, LocalsOK
  <2>4. /\ IsOpen(k) /\ c = sock[k] /\ conn[c].peer = "up"
        /\ LET notice == Last(conn'[c].inbox) IN
           notice.nick = th[w].out.nick /\ notice.body = th[w].out.body
    BY <1>1, <2>1, <2>2, SendLast
  <2>5. \/ Head(th[w].buf).to \in {c} \union ResetConns
        \/ th[w].out.nick = <<>> /\ Len(conn[c].rx) = conn[c].sent
    BY <2>1, <2>2, <2>3, <2>4, NamedIs
  <2> QED
    BY <2>2, <2>4, <2>5 DEF PrivateTo
<1> QED
  BY <1>5, <1>6, <1>8, <1>9, <1>10, <1>11 DEF Worker, Mute

\* With one worker a private message is delivered to the user it names, though the map is
\* searched by the name; or to the heir of its entry once it was reset; or, the name having
\* been read as empty, to users of whom nothing has been read.
THEOREM PrivateToNamed ==
  ASSUME OneWorker
  PROVE  Spec => PrivateOnlyToNamed
<1> DEFINE Named == \A c \in Conns : conn'[c].inbox # conn[c].inbox => PrivateTo(c)
<1>1. ServerInv /\ HomeInv /\ SpeechInv /\ [Next]_vars => [Named]_vars
  BY NextPrivate
<1>2. Spec => []([Named]_vars)
  BY <1>1, SpeechInvariance, PTL DEF Spec
<1> QED
  BY <1>2, PTL DEF PrivateOnlyToNamed, PrivateTo

-----------------------------------------------------------------------------
(* Whom a broadcast gets to.                                               *)

\* In the loop of a broadcast the worker does nothing else.
LEMMA OnlyBroadcasts ==
  ASSUME IInv, NEW w \in Workers, th[w].pc = "bcast", Worker(w)
  PROVE  BroadcastStep(w)
BY DEF Worker, Lock, EpollWait, EpollInterrupted, Unlock, NextEvent, CheckEvent, ErrClose, Accept,
       Insert, AddFd, SetNonblocking, Recv, Blocked, CloseConn, ReadName, Erase, Dispatch, SetNick,
       Welcome, Talk, Say, PrivateStep, ShowStep, Announce, At

\* A step of the loop passes by the user the message is about, sends it to another, or finds
\* no room; or it is the end of the loop, at the end of the map or before an entry that cannot
\* be sent to; or of the process.
LEMMA LoopStep ==
  ASSUME OneWorker, ServerInv, NEW w \in Workers, BroadcastStep(w)
  PROVE  /\ UNCHANGED <<sock, clients>> /\ th[w].pc = "bcast"
         /\ \/ th'[w].pc = "bcast" /\ UNCHANGED <<th, conn>>
            \/ th'[w].pc = "next" /\ Ahead(w) = {}
            \/ /\ th'[w].pc = "next"
               /\ \E k \in Keys \ {th[w].fd} :
                    SendFails(k) /\ \A f \in Keys : f <= k => f = k \/ f <= th[w].cur
            \/ \E k \in Keys :
                 /\ th'[w].pc = "bcast" /\ th'[w].cur = k /\ th'[w].fd = th[w].fd
                 /\ th'[w].out = th[w].out
                 /\ \A f \in Keys : f <= k => f = k \/ f <= th[w].cur
                 /\ \/ (k = th[w].fd \/ SendFull(k)) /\ UNCHANGED conn
                    \/ /\ IsOpen(k)
                       /\ \E part \in Portions(k, th[w].out) : conn' = Sent(sock[k], part)
<1>1. IInv /\ th[w].pc = "bcast" /\ th[w] \in Thread /\ th[w].cur # NoFd
  BY Types DEF ServerInv, BroadcastStep, At, Tidy, LocalsOK
<1>2. UNCHANGED <<sock, clients>>
  BY <1>1, LoopEffects DEF SendFrame
<1>3. CASE LoopEnds(w)
  <2>1. th'[w].pc = "next" /\ Ahead(w) = {}
    BY <1>1, <1>3, Returns DEF LoopEnds, IsOver
  <2> QED
    BY <1>1, <1>2, <2>1
<1>4. ASSUME NEW k \in Fds, IsNext(w, k),
             \/ k = th[w].fd /\ Pass(w, k)
             \/ k # th[w].fd /\ Send(w, k, th[w].out, Moved(w, k))
      PROVE  \/ th'[w].pc = "bcast" /\ UNCHANGED <<th, conn>>
             \/ /\ th'[w].pc = "next" /\ k \in Keys \ {th[w].fd} /\ SendFails(k)
                /\ \A f \in Keys : f <= k => f = k \/ f <= th[w].cur
             \/ /\ k \in Keys /\ th'[w].pc = "bcast" /\ th'[w].cur = k /\ th'[w].fd = th[w].fd
                /\ th'[w].out = th[w].out
                /\ \A f \in Keys : f <= k => f = k \/ f <= th[w].cur
                /\ \/ (k = th[w].fd \/ SendFull(k)) /\ UNCHANGED conn
                   \/ /\ IsOpen(k)
                      /\ \E part \in Portions(k, th[w].out) : conn' = Sent(sock[k], part)
  <2>1. k \in Keys /\ k \in Ahead(w) /\ \A j \in Ahead(w) : k <= j
    BY <1>1, <1>4 DEF IsNext, Ahead
  <2>2. \A f \in Keys : f <= k => f = k \/ f <= th[w].cur
    <3> TAKE f \in Keys
    <3>1. f \in Int /\ k \in Int /\ th[w].cur \in Int
      BY <1>1, SocketAssumption DEF Keys, Fds, Thread, AllFds, ListenFd, NoFd
    <3>2. f > th[w].cur => k <= f
      BY <2>1 DEF Ahead
    <3> QED
      BY <3>1, <3>2
  <2>3. Become(w, Moved(w, k)) =>
          /\ th'[w].pc = "bcast" /\ th'[w].cur = k /\ th'[w].fd = th[w].fd
          /\ th'[w].out = th[w].out
    <3>1. Become(w, Moved(w, k)) => th'[w] = Moved(w, k)
      BY <1>1, Becomes
    <3> QED
      BY <1>1, <3>1, MovedTurn DEF Same
  <2>4. Return(w) => th'[w].pc = "next"
    BY <1>1, Returns
  <2>5. CASE k = th[w].fd /\ Pass(w, k)
    BY <2>1, <2>2, <2>3, <2>5 DEF Pass, netVars
  <2>6. CASE k # th[w].fd /\ Send(w, k, th[w].out, Moved(w, k))
    <3>1. \/ /\ SendTaken(k) /\ \E part \in Portions(k, th[w].out) : conn' = Sent(sock[k], part)
             /\ Become(w, Moved(w, k))
          \/ SendFull(k) /\ Become(w, Moved(w, k)) /\ UNCHANGED conn
          \/ SendFails(k) /\ Return(w)
          \/ UNCHANGED <<th, conn>>
      BY <2>6 DEF Send, Die
    <3> QED
      BY <1>1, <2>1, <2>2, <2>3, <2>4, <2>6, <3>1 DEF SendTaken
  <2> QED
    BY <1>4, <2>5, <2>6
<1>5. CASE \E k \in Fds : /\ IsNext(w, k)
                          /\ \/ k = th[w].fd /\ Pass(w, k)
                             \/ k # th[w].fd /\ Send(w, k, th[w].out, Moved(w, k))
  <2>1. PICK k \in Fds : /\ IsNext(w, k)
                         /\ \/ k = th[w].fd /\ Pass(w, k)
                            \/ k # th[w].fd /\ Send(w, k, th[w].out, Moved(w, k))
    BY <1>5
  <2> QED
    BY <1>1, <1>2, <1>4, <2>1
<1> QED
  BY <1>3, <1>5 DEF BroadcastStep

\* A broadcast begins at the beginning of the map.
LEMMA Begins ==
  ASSUME OneWorker, ServerInv, NEW w \in Workers, Worker(w), th[w].pc # "bcast", th'[w].pc = "bcast"
  PROVE  th'[w].cur = 0
<1>1. IInv /\ SocketsOK /\ Base /\ Tidy /\ th[w] \in Thread /\ LocalsOK(th[w])
  BY Types DEF ServerInv, Tidy
<1>2. ~ErrClose(w) /\ ~Blocked(w)
  BY <1>1, Closing, Returns DEF Blocked, At, Base, PlaceOK
<1>3. ~(Lock(w) \/ EpollWait(w) \/ EpollInterrupted(w) \/ Unlock(w) \/ NextEvent(w) \/ CheckEvent(w))
  <2>1. ~(Lock(w) \/ CheckEvent(w))
    BY <1>1, Goes DEF Lock, CheckEvent
  <2>2. ~EpollWait(w)
    BY <1>1, Polls
  <2>3. ~(EpollInterrupted(w) \/ Unlock(w) \/ NextEvent(w))
    BY <1>1, LoopMoves
  <2> QED
    BY <2>1, <2>2, <2>3
<1>4. ~(Accept(w) \/ Insert(w) \/ AddFd(w) \/ SetNonblocking(w) \/ CloseConn(w))
  <2>1. ~Accept(w)
    BY <1>1, Accepted DEF Die
  <2>2. ~Insert(w)
    BY <1>1, Goes DEF Insert
  <2>3. ~(AddFd(w) \/ SetNonblocking(w))
    <3>1. AddFd(w) \/ SetNonblocking(w) => Goto(w, "nonblock") \/ Return(w)
      BY <1>1, Opens
    <3> QED
      BY <1>1, <3>1, Goes, Returns
  <2>4. ~CloseConn(w)
    BY <1>1, Closing, Goes
  <2> QED
    BY <2>1, <2>2, <2>3, <2>4
<1>5. ~Recv(w)
  BY <1>1, Recvs, RecvMoves, Goes, Returns
<1>6. ~(Dispatch(w) \/ SetNick(w))
  BY <1>1, Goes, Returns DEF Dispatch, SetNick
<1>7. ~ReadName(w)
  BY <1>1, Becomes DEF ReadName, Thread
<1>8. ~(Talk(w) \/ ShowStep(w) \/ BroadcastStep(w) \/ PrivateStep(w))
  BY <1>1, LoopEffects DEF Turned, Looped, Through, Killed
<1>9. CASE Erase(w)
  BY <1>1, <1>9 DEF Erase, At, LocalsOK, Thread
<1>10. CASE Welcome(w) \/ Say(w)
  <2>1. \E out : Become(w, [th[w] EXCEPT !.pc = "bcast", !.out = out])
    BY <1>10 DEF Welcome, Say, Announce
  <2>2. th'[w].cur = th[w].cur
    BY <1>1, <2>1, Becomes DEF Thread
  <2> QED
    BY <1>1, <1>10, <2>2 DEF Welcome, Say, Announce, At, LocalsOK
<1> QED
  BY <1>2, <1>3, <1>4, <1>5, <1>6, <1>7, <1>8, <1>9, <1>10 DEF Worker

\* What the clients do leaves everyone who is reached reached.
LEMMA OutsidePeers ==
  ASSUME IInv, Outside
  PROVE  \A c \in Conns : conn'[c].peer = "up" => conn[c].peer \in {"idle", "up"}
<1>1. PICK c \in Conns : Environment(c)
  BY DEF Outside
<1> QED
  BY <1>1, Types DEF Environment, Connect, ClientSend, ClientClose, ClientAbort, ResetArrives,
                     PeerBecomes, ConnState

\* Whatever happens.
LEMMA NextReach ==
  ASSUME OneWorker, ServerInv, ReachInv, [Next]_vars
  PROVE  ReachInv'
<1>1. IInv /\ SocketsOK /\ \A f \in Keys : f \in Fds
  BY DEF ServerInv, Keys
<1>2. CASE \E w \in Workers : Worker(w)
  <2>1. PICK w \in Workers : Worker(w) /\ \A v \in Workers : v = w
    BY <1>2 DEF OneWorker
  <2>2. CASE th'[w].pc # "bcast"
    BY <2>1, <2>2 DEF ReachInv
  <2>3. CASE th[w].pc # "bcast" /\ th'[w].pc = "bcast"
    <3>1. th'[w].cur = 0
      BY <2>1, <2>3, Begins
    <3>2. \A f \in Keys' : ~(f <= 0)
      BY SocketAssumption DEF Keys, Fds
    <3> QED
      BY <2>1, <3>1, <3>2 DEF ReachInv
  <2>4. CASE th[w].pc = "bcast" /\ th'[w].pc = "bcast"
    <3>1. BroadcastStep(w) /\ UNCHANGED <<sock, clients>>
      BY <1>1, <2>1, <2>4, OnlyBroadcasts, LoopStep
    <3>2. UNCHANGED Keys
      BY <3>1 DEF Keys
    <3>3. CASE UNCHANGED <<th, conn>>
      BY <3>1, <3>2, <3>3 DEF ReachInv, IsOpen
    <3>4. CASE ~UNCHANGED <<th, conn>>
      <4>1. PICK k \in Keys :
              /\ th'[w].cur = k /\ th'[w].fd = th[w].fd /\ th'[w].out = th[w].out
              /\ \A f \in Keys : f <= k => f = k \/ f <= th[w].cur
              /\ \/ (k = th[w].fd \/ SendFull(k)) /\ UNCHANGED conn
                 \/ /\ IsOpen(k)
                    /\ \E part \in Portions(k, th[w].out) : conn' = Sent(sock[k], part)
        BY <2>4, <3>1, <3>4, LoopStep
      <4>2. ASSUME NEW f \in Keys, f # th[w].fd, f <= k, IsOpen(f), conn'[sock[f]].peer = "up",
                   sock[f] \notin Slow
            PROVE  conn'[sock[f]].inbox # <<>> /\ Last(conn'[sock[f]].inbox) = th[w].out
        <5>1. PICK c \in Conns : c = sock[f]
          BY <1>1, <4>2, Types
        <5>2. conn[c] \in ConnState /\ conn[c].inbox \in Seq(Notice) /\ th[w].out \in Notice
          BY <1>1, Types, MadeNotices DEF ConnState
        <5>3. CASE f <= th[w].cur /\ conn'[c] = conn[c]
          BY <2>4, <4>2, <5>1, <5>3 DEF ReachInv
        <5>4. CASE f = k
          <6>1. ~SendFull(k) /\ Portions(k, th[w].out) = {th[w].out}
            BY <4>2, <5>4 DEF SendFull, Portions
          <6>2. conn' = Sent(c, th[w].out)
            BY <4>1, <4>2, <5>1, <5>4, <6>1
          <6>3. conn'[c].peer = IF conn[c].peer = "fin" THEN "poked" ELSE conn[c].peer
            BY <1>1, <5>2, <6>2, Types DEF Sent, ConnState
          <6>4. conn[c].peer = "up"
            BY <4>2, <5>1, <6>3
          <6>5. conn'[c].inbox = Append(conn[c].inbox, th[w].out)
            BY <1>1, <5>2, <6>2, <6>4, Types DEF Sent, ConnState
          <6>6. PICK s \in Seq(Notice) : s = conn[c].inbox
            BY <5>2
          <6>7. Append(s, th[w].out) # <<>> /\ Last(Append(s, th[w].out)) = th[w].out
            BY <5>2 DEF Last
          <6> QED
            BY <5>1, <6>5, <6>6, <6>7
        <5>5. CASE f # k
          <6>1. f <= th[w].cur
            BY <4>1, <4>2, <5>5
          <6>2. CASE UNCHANGED conn
            BY <5>3, <6>1, <6>2
          <6>3. CASE IsOpen(k) /\ \E part \in Portions(k, th[w].out) : conn' = Sent(sock[k], part)
            <7>1. PICK part \in Portions(k, th[w].out) : conn' = Sent(sock[k], part)
              BY <6>3
            <7>2. PICK d \in Conns : d = sock[k]
              BY <1>1, <6>3, Types
            <7>3. d # c
              BY <1>1, <4>2, <5>1, <5>5, <6>3, <7>2 DEF SocketsOK
            <7>4. conn'[c] = conn[c]
              BY <1>1, <7>1, <7>2, <7>3, Types DEF Sent
            <7> QED
              BY <5>3, <6>1, <7>4
          <6> QED
            BY <4>1, <6>2, <6>3
        <5> QED
          BY <5>4, <5>5
      <4> QED
        BY <2>1, <3>1, <3>2, <4>1, <4>2 DEF ReachInv, IsOpen
    <3> QED
      BY <3>3, <3>4
  <2> QED
    BY <2>2, <2>3, <2>4
<1>3. ASSUME UNCHANGED <<sock, clients, th>>,
             \A c \in Conns : /\ conn'[c].inbox = conn[c].inbox
                              /\ conn'[c].peer = "up" => conn[c].peer \in {"idle", "up"}
      PROVE  ReachInv'
  <2>1. UNCHANGED Keys
    BY <1>3 DEF Keys
  <2>2. ASSUME NEW w \in Workers, th[w].pc = "bcast", NEW f \in Keys \ {th[w].fd}, f <= th[w].cur,
               IsOpen(f), conn'[sock[f]].peer = "up", sock[f] \notin Slow
        PROVE  conn'[sock[f]].inbox # <<>> /\ Last(conn'[sock[f]].inbox) = th[w].out
    <3>1. sock[f] \in Conns /\ conn[sock[f]].peer # "idle"
      BY <1>1, <2>2, Types DEF SocketsOK, Waiting
    <3> QED
      BY <1>3, <2>2, <3>1 DEF ReachInv
  <2> QED
    BY <1>3, <2>1, <2>2 DEF ReachInv, IsOpen
<1>4. CASE Outside
  <2>1. UNCHANGED <<sock, clients, th>>
    BY <1>4 DEF Outside, Environment, Connect, ClientSend, ClientClose, ClientAbort, ResetArrives,
                PeerBecomes, regVars
  <2> QED
    BY <1>1, <1>3, <1>4, <2>1, MutedInbox, OutsidePeers
<1>5. CASE RaceCrash \/ MainJoin \/ UNCHANGED vars
  <2>1. UNCHANGED <<conn, sock, clients, th>>
    BY <1>5 DEF RaceCrash, Die, MainJoin, vars, netVars, regVars
  <2> QED
    BY <1>3, <2>1
<1> QED
  BY <1>2, <1>4, <1>5 DEF Next

\* What BroadcastReachesAll says of a step.
Reached ==
  \A w \in Workers : At(w, "bcast") /\ th'[w].pc # "bcast" =>
    \A f \in Keys \ {th[w].fd} :
      IsOpen(f) /\ conn[sock[f]].peer = "up" /\ sock[f] \notin Slow =>
        \/ /\ conn[sock[f]].inbox # <<>>
           /\ Last(conn[sock[f]].inbox) = th[w].out
        \/ \E k \in Keys \ {th[w].fd} : k < f /\ SendFails(k)

\* With one worker a broadcast that comes to its end has been sent to everyone online but the
\* user it is about, save those whose buffer was full, or else an entry before theirs could
\* not be sent to.
THEOREM EveryoneReached ==
  ASSUME OneWorker
  PROVE  Spec => BroadcastReachesAll
<1>1. Init => ReachInv
  BY DEF Init, IdleThread, ReachInv
<1>2. ServerInv /\ ReachInv /\ [Next]_vars => ReachInv'
  BY NextReach
<1>3. ServerInv /\ ReachInv /\ [Next]_vars => [Reached]_vars
  <2> SUFFICES ASSUME ServerInv, ReachInv, Next, NEW w \in Workers, At(w, "bcast"), th'[w].pc # "bcast",
                      NEW f \in Keys \ {th[w].fd}, IsOpen(f), conn[sock[f]].peer = "up",
                      sock[f] \notin Slow
               PROVE  \/ /\ conn[sock[f]].inbox # <<>>
                         /\ Last(conn[sock[f]].inbox) = th[w].out
                      \/ \E k \in Keys \ {th[w].fd} : k < f /\ SendFails(k)
    BY DEF vars, Reached
  <2>1. th[w].pc = "bcast" /\ IInv
    BY DEF At, ServerInv
  <2>2. Worker(w)
    <3>1. th' # th
      BY <2>1
    <3>2. ~RaceCrash /\ ~MainJoin /\ ~Outside
      BY <3>1 DEF RaceCrash, Die, MainJoin, Outside
    <3> QED
      BY <3>2 DEF Next, OneWorker
  <2>3. BroadcastStep(w)
    BY <2>1, <2>2, OnlyBroadcasts
  <2>4. \A k \in Keys : k \in Int
    BY SocketAssumption DEF Keys, Fds
  <2>5. th[w].cur \in AllFds \union {NoFd}
    BY <2>1, Types DEF Thread
  <2>6. th[w].cur \in Int /\ f \in Int
    BY <2>4, <2>5, SocketAssumption DEF AllFds, Fds, ListenFd, NoFd
  <2>7. CASE f <= th[w].cur
    BY <2>1, <2>7 DEF ReachInv
  <2>8. CASE ~(f <= th[w].cur)
    <3>1. f \in Ahead(w)
      BY <2>4, <2>6, <2>8 DEF Ahead
    <3>2. PICK k \in Keys \ {th[w].fd} :
            SendFails(k) /\ \A g \in Keys : g <= k => g = k \/ g <= th[w].cur
      BY <2>3, <3>1, LoopStep
    <3>3. k # f
      BY <3>2 DEF SendFails
    <3>4. k < f
      BY <2>4, <2>8, <3>2, <3>3
    <3> QED
      BY <3>2, <3>4
  <2> QED
    BY <2>7, <2>8
<1>4. Spec => []ServerInv
  BY ServerInvariance
<1>5. Spec => []([Reached]_vars)
  BY <1>1, <1>2, <1>3, <1>4, PTL DEF Spec
<1> QED
  BY <1>5, PTL DEF BroadcastReachesAll, Reached

-----------------------------------------------------------------------------
(* What a user hears, also when connections are reset.                     *)

\* A text stands behind all the chat lines of an inbox.
Follows(text, inbox) == \A i \in Lines(inbox) : Before(inbox[i].body, text)

\* All of a text has been taken from its senders.
AllTaken(text) == \A p \in DOMAIN text : text[p].no <= Taken(conn[text[p].src])

\* The chat lines of an inbox are in order, and were taken.
HeardOK(inbox) ==
  \A i, j \in Lines(inbox) :
    /\ InOrder(inbox[i].body) /\ AllTaken(inbox[i].body)
    /\ i < j => Before(inbox[i].body, inbox[j].body)

\* What a worker is reading is behind all that anyone has heard; what it is sending is
\* behind all that those have heard who are still to be sent it.
SayOK(t) ==
  /\ t.cur # NoFd
  /\ t.pc \in Reading =>
       InOrder(t.buf) /\ AllTaken(t.buf) /\ \A c \in Conns : Follows(t.buf, conn[c].inbox)
  /\ t.out.kind = "say" =>
       /\ t.pc = "bcast" /\ InOrder(t.out.body) /\ AllTaken(t.out.body)
       /\ \A f \in Fds : f > t.cur /\ IsOpen(f) => Follows(t.out.body, conn[sock[f]].inbox)

HearInv ==
  /\ \A c \in Conns : RxOK(c) /\ HeardOK(conn[c].inbox)
  /\ \A w \in Workers : SayOK(th[w])

\* A notice that is no chat line changes nothing in what is heard.
LEMMA OtherNotice ==
  ASSUME NEW inbox \in Seq(Notice), NEW msg \in Notice, msg.kind # "say"
  PROVE  /\ HeardOK(inbox) => HeardOK(Append(inbox, msg))
         /\ \A text : Follows(text, inbox) => Follows(text, Append(inbox, msg))
<1> DEFINE new == Append(inbox, msg)
<1>1. Lines(new) = Lines(inbox) /\ \A i \in Lines(inbox) : new[i] = inbox[i]
  BY DEF Lines
<1> HIDE DEF new
<1>2. HeardOK(inbox) => HeardOK(new)
  BY <1>1 DEF HeardOK
<1>3. \A text : Follows(text, inbox) => Follows(text, new)
  BY <1>1 DEF Follows
<1> QED
  BY <1>2, <1>3 DEF new

\* A chat line that is in order, was taken and is behind the others comes behind them.
LEMMA OneMoreLine ==
  ASSUME NEW inbox \in Seq(Notice), NEW msg \in Notice, msg.kind = "say",
         HeardOK(inbox), InOrder(msg.body), AllTaken(msg.body), Follows(msg.body, inbox)
  PROVE  HeardOK(Append(inbox, msg))
<1> DEFINE n == Len(inbox) + 1
           new == Append(inbox, msg)
<1>1. /\ n \in Nat /\ new[n] = msg /\ Lines(inbox) \subseteq Nat /\ Lines(new) = Lines(inbox) \union {n}
      /\ \A i \in Lines(inbox) : i < n /\ new[i] = inbox[i]
  <2>1. /\ Len(inbox) \in Nat /\ DOMAIN inbox = 1..Len(inbox) /\ DOMAIN new = 1..n /\ n \in Nat
        /\ \A i \in 1..n : new[i] = IF i = n THEN msg ELSE inbox[i]
    OBVIOUS
  <2> HIDE DEF n, new
  <2>2. n = Len(inbox) + 1
    BY DEF n
  <2>3. new[n] = msg /\ \A i \in 1..Len(inbox) : i < n /\ i \in 1..n /\ new[i] = inbox[i]
    BY <2>1, <2>2
  <2>4. Lines(inbox) \subseteq 1..Len(inbox) /\ Lines(new) = Lines(inbox) \union {n}
    <3>1. \A i : i \in 1..n <=> i \in 1..Len(inbox) \/ i = n
      BY <2>1, <2>2
    <3> QED
      BY <2>1, <2>3, <3>1 DEF Lines
  <2> QED
    BY <2>1, <2>3, <2>4
<1> HIDE DEF n, new
<1>2. ASSUME NEW i \in Lines(new), NEW j \in Lines(new)
      PROVE  /\ InOrder(new[i].body) /\ AllTaken(new[i].body)
             /\ i < j => Before(new[i].body, new[j].body)
  <2>1. CASE i \in Lines(inbox) /\ j \in Lines(inbox)
    BY <1>1, <2>1 DEF HeardOK
  <2>2. CASE i \in Lines(inbox) /\ j = n
    BY <1>1, <2>2 DEF HeardOK, Follows
  <2>3. CASE i = n
    <3>1. ~(i < j)
      BY <1>1, <1>2, <2>3
    <3> QED
      BY <1>1, <2>3, <3>1
  <2> QED
    BY <1>1, <1>2, <2>1, <2>2, <2>3
<1> QED
  BY <1>2 DEF HeardOK, new

\* What was taken stays taken.
LEMMA StillTaken ==
  ASSUME IInv, NEW text \in Seq(Msg), AllTaken(text),
         \A c \in Conns : Taken(conn'[c]) \in Int /\ Taken(conn[c]) \in Int /\ Taken(conn'[c]) >= Taken(conn[c])
  PROVE  AllTaken(text)'
<1> SUFFICES ASSUME NEW p \in DOMAIN text
             PROVE  text[p].no <= Taken(conn'[text[p].src])
  BY DEF AllTaken
<1>1. text[p] \in Msg
  OBVIOUS
<1>2. PICK c \in Conns : c = text[p].src
  BY <1>1 DEF Msg
<1>3. text[p].no \in Nat
  BY <1>1 DEF Msg
<1>4. text[p].no <= Taken(conn[c])
  BY <1>2 DEF AllTaken
<1>5. PICK m \in Int, n \in Int : m = Taken(conn[c]) /\ n = Taken(conn'[c]) /\ n >= m
  OBVIOUS
<1> QED
  BY <1>2, <1>3, <1>4, <1>5

\* How much was taken is a number.
LEMMA TakenNat ==
  ASSUME IInv, NEW c \in Conns
  PROVE  Taken(conn[c]) \in Int
<1>1. conn[c].rx \in Seq(Msg) /\ conn[c].sent \in Nat
  BY Types DEF ConnState
<1> QED
  BY <1>1 DEF Taken

\* Nothing taken, nothing lost.
LEMMA TakenStays ==
  ASSUME IInv, \A c \in Conns : Taken(conn'[c]) = Taken(conn[c])
  PROVE  \A text \in Seq(Msg) : AllTaken(text) => AllTaken(text)'
<1>1. \A c \in Conns : /\ Taken(conn'[c]) \in Int /\ Taken(conn[c]) \in Int
                        /\ Taken(conn'[c]) >= Taken(conn[c])
  BY TakenNat
<1> QED
  BY <1>1, StillTaken

\* The body of a chat line is a text.
LEMMA BodyIsText ==
  ASSUME NEW inbox \in Seq(Notice), NEW i \in Lines(inbox)
  PROVE  inbox[i].body \in Seq(Msg)
<1>1. i \in DOMAIN inbox
  BY DEF Lines
<1>2. inbox[i] \in Notice
  BY <1>1
<1> QED
  BY <1>2 DEF Notice

\* What was heard was taken, and stays so.
LEMMA HeardStill ==
  ASSUME NEW inbox \in Seq(Notice), HeardOK(inbox),
         \A text \in Seq(Msg) : AllTaken(text) => AllTaken(text)'
  PROVE  HeardOK(inbox)'
<1>1. \A i \in Lines(inbox) : inbox[i].body \in Seq(Msg)
  BY BodyIsText
<1> QED
  BY <1>1 DEF HeardOK

\* A step that takes nothing, sends no chat line and begins none.
LEMMA QuietHear ==
  ASSUME OneWorker, IInv, HearInv, NEW w \in Workers,
         \A c \in Conns : RxOK(c)' /\ Taken(conn'[c]) = Taken(conn[c]),
         \A c \in Conns : \/ conn'[c].inbox = conn[c].inbox
                          \/ \E msg \in Notice : /\ msg.kind # "say"
                                                 /\ conn'[c].inbox = Append(conn[c].inbox, msg),
         th'[w].cur # NoFd,
         th'[w].pc \in Reading =>
           th'[w].buf = <<>> \/ (th[w].pc \in Reading /\ th'[w].buf = th[w].buf),
         th'[w].out.kind # "say" \/ UNCHANGED <<th, sock>>
  PROVE  HearInv'
<1>1. \A c \in Conns : conn[c].inbox \in Seq(Notice)
  BY Types DEF ConnState
<1>2. \A text \in Seq(Msg) : AllTaken(text) => AllTaken(text)'
  BY TakenStays
<1>3. \A c \in Conns : \A text : Follows(text, conn[c].inbox) => Follows(text, conn'[c].inbox)
  BY <1>1, OtherNotice
<1>4. ASSUME NEW c \in Conns
      PROVE  HeardOK(conn[c].inbox)'
  <2>1. PICK new \in Seq(Notice) : new = conn'[c].inbox /\ HeardOK(new)
    <3>1. PICK old \in Seq(Notice) : old = conn[c].inbox /\ HeardOK(old)
      BY <1>1 DEF HearInv
    <3>2. CASE conn'[c].inbox = old
      BY <3>1, <3>2
    <3>3. ASSUME NEW msg \in Notice, msg.kind # "say", conn'[c].inbox = Append(old, msg)
          PROVE  \E new \in Seq(Notice) : new = conn'[c].inbox /\ HeardOK(new)
      <4>1. Append(old, msg) \in Seq(Notice)
        OBVIOUS
      <4>2. HeardOK(Append(old, msg))
        BY <3>1, <3>3, OtherNotice
      <4> QED
        BY <3>3, <4>1, <4>2
    <3> QED
      BY <3>1, <3>2, <3>3
  <2>2. HeardOK(new)'
    BY <1>2, <2>1, HeardStill
  <2> QED
    BY <2>1, <2>2 DEF HeardOK, AllTaken
<1>5. th[w] \in Thread /\ SayOK(th[w])
  BY Types DEF HearInv
<1>6. th[w].buf \in Seq(Msg) /\ th[w].out.body \in Seq(Msg)
  BY <1>5 DEF Thread, Notice
<1>7. ASSUME th'[w].pc \in Reading
      PROVE  (InOrder(th[w].buf) /\ AllTaken(th[w].buf) /\ \A c \in Conns : Follows(th[w].buf, conn[c].inbox))'
  <2>1. CASE th'[w].buf = <<>>
    BY <2>1 DEF InOrder, AllTaken, Follows, Before
  <2>2. CASE th[w].pc \in Reading /\ th'[w].buf = th[w].buf
    <3>1. PICK text \in Seq(Msg) : text = th[w].buf
      BY <1>6
    <3>2. InOrder(text) /\ AllTaken(text) /\ \A c \in Conns : Follows(text, conn[c].inbox)
      BY <1>5, <2>2, <3>1 DEF SayOK
    <3>3. AllTaken(text)' /\ \A c \in Conns : Follows(text, conn'[c].inbox)
      BY <1>2, <1>3, <3>2
    <3> QED
      BY <2>2, <3>1, <3>2, <3>3 DEF AllTaken, InOrder, Follows
  <2> QED
    BY <1>7, <2>1, <2>2
<1>8. ASSUME th'[w].out.kind = "say"
      PROVE  (/\ th[w].pc = "bcast" /\ InOrder(th[w].out.body) /\ AllTaken(th[w].out.body)
              /\ \A f \in Fds : f > th[w].cur /\ IsOpen(f) => Follows(th[w].out.body, conn[sock[f]].inbox))'
  <2>1. UNCHANGED <<th, sock>>
    BY <1>8
  <2>2. PICK text \in Seq(Msg) : text = th[w].out.body
    BY <1>6
  <2>3. /\ th[w].pc = "bcast" /\ InOrder(text) /\ AllTaken(text)
        /\ \A f \in Fds : f > th[w].cur /\ IsOpen(f) => Follows(text, conn[sock[f]].inbox)
    BY <1>5, <1>8, <2>1, <2>2 DEF SayOK
  <2>4. AllTaken(text)'
    BY <1>2, <2>3
  <2>5. \A f \in Fds : f > th[w].cur /\ IsOpen(f) => Follows(text, conn'[sock[f]].inbox)
    BY <1>3, <2>3, Types
  <2> QED
    BY <2>1, <2>2, <2>3, <2>4, <2>5 DEF AllTaken, InOrder, Follows, IsOpen
<1>9. SayOK(th[w])'
  BY <1>7, <1>8 DEF SayOK
<1> QED
  BY <1>4, <1>9 DEF HearInv, OneWorker

\* A message that comes next is behind all that was taken.
LEMMA NextBehind ==
  ASSUME IInv, NEW old \in Seq(Msg), AllTaken(old), NEW m \in Msg, m.no = Taken(conn[m.src]) + 1
  PROVE  \A p \in DOMAIN old : old[p].src = m.src => old[p].no < m.no
<1> TAKE p \in DOMAIN old
<1> HAVE old[p].src = m.src
<1>1. old[p] \in Msg
  OBVIOUS
<1>2. old[p].no \in Nat /\ m.src \in Conns
  BY <1>1 DEF Msg
<1>3. PICK n \in Int : n = Taken(conn[m.src])
  BY <1>2, TakenNat
<1>4. old[p].no <= n /\ m.no = n + 1
  BY <1>3 DEF AllTaken
<1> QED
  BY <1>2, <1>4

\* A text that gets longer by such a message stays in order, and behind what was heard.
LEMMA TextGrows ==
  ASSUME IInv, NEW text \in Seq(Msg), NEW m \in Msg, m.no = Taken(conn[m.src]) + 1,
         InOrder(text), AllTaken(text)
  PROVE  /\ InOrder(Append(text, m))
         /\ \A inbox \in Seq(Notice) :
              HeardOK(inbox) /\ Follows(text, inbox) => Follows(Append(text, m), inbox)
<1> DEFINE new == Append(text, m)
           n == Len(text) + 1
<1>1. /\ DOMAIN new = 1..n /\ DOMAIN text = 1..Len(text) /\ Len(text) \in Nat /\ n = Len(text) + 1
      /\ \A q \in 1..n : new[q] = IF q = n THEN m ELSE text[q]
  OBVIOUS
<1> HIDE DEF new, n
<1>2. \A q \in DOMAIN new : (q = n /\ new[q] = m) \/ (q \in DOMAIN text /\ new[q] = text[q] /\ q < n)
  BY <1>1
<1>3. DOMAIN new \subseteq Int /\ n \in Int
  BY <1>1
<1>4. InOrder(new)
  <2> SUFFICES ASSUME NEW p \in DOMAIN new, NEW q \in DOMAIN new, p < q, new[p].src = new[q].src
               PROVE  new[p].no < new[q].no
    BY DEF InOrder
  <2>1. p \in DOMAIN text /\ new[p] = text[p]
    <3>1. p # n
      BY <1>2, <1>3
    <3> QED
      BY <1>2, <3>1
  <2>2. CASE q = n /\ new[q] = m
    BY <2>1, <2>2, NextBehind
  <2>3. CASE q \in DOMAIN text /\ new[q] = text[q]
    BY <2>1, <2>3 DEF InOrder
  <2> QED
    BY <1>2, <2>2, <2>3
<1>5. ASSUME NEW inbox \in Seq(Notice), HeardOK(inbox), Follows(text, inbox)
      PROVE  Follows(new, inbox)
  <2> SUFFICES ASSUME NEW i \in Lines(inbox)
               PROVE  Before(inbox[i].body, new)
    BY DEF Follows
  <2>1. PICK old \in Seq(Msg) : old = inbox[i].body
    BY BodyIsText
  <2>2. AllTaken(old) /\ Before(old, text)
    BY <1>5, <2>1 DEF HeardOK, Follows
  <2>3. \A p \in DOMAIN old : old[p].src = m.src => old[p].no < m.no
    BY <2>2, NextBehind
  <2>4. Before(old, new)
    BY <1>2, <2>2, <2>3 DEF Before
  <2> QED
    BY <2>1, <2>4
<1> QED
  BY <1>4, <1>5 DEF new

\* In recv.
LEMMA RecvHear ==
  ASSUME OneWorker, IInv, SocketsOK, Base, HomeInv, HearInv, NEW w \in Workers, Recv(w)
  PROVE  HearInv'
<1>1. PICK f \in Fds, c \in Conns : f = th[w].fd /\ c = sock[f] /\ IsOpen(f)
  BY ReadTaken DEF HearInv
<1>2. /\ \A d \in Conns : RxOK(d) /\ RxOK(d)'
      /\ th[w].pc = "recv" /\ UNCHANGED <<sock, backlog, clients>>
      /\ \/ /\ th'[w].pc = "recv" /\ th'[w].out = th[w].out /\ th'[w].cur = th[w].cur
            /\ conn[c].rx # <<>> /\ conn' = [conn EXCEPT ![c].rx = Tail(@)]
            /\ th'[w].buf = Append(th[w].buf, Head(conn[c].rx))
         \/ /\ th'[w].pc \in {"close", "dispatch"} /\ th'[w].buf = th[w].buf /\ UNCHANGED conn
            /\ th'[w].out = th[w].out /\ th'[w].cur = th[w].cur
         \/ conn[c].peer = "rsterr" /\ Return(w) /\ conn' = Reported(c)
  BY <1>1, ReadTaken DEF HearInv
<1>3. SayOK(th[w]) /\ th[w].cur # NoFd /\ th[w].out.kind # "say"
  BY <1>2 DEF HearInv, SayOK
<1>4. CASE /\ th'[w].pc \in {"close", "dispatch"} /\ th'[w].buf = th[w].buf /\ UNCHANGED conn
           /\ th'[w].out = th[w].out /\ th'[w].cur = th[w].cur
  BY <1>2, <1>3, <1>4, QuietHear DEF Reading
<1>5. CASE conn[c].peer = "rsterr" /\ Return(w) /\ conn' = Reported(c)
  <2>1. \A d \in Conns : Taken(conn'[d]) = Taken(conn[d]) /\ conn'[d].inbox = conn[d].inbox
    BY <1>5, Types DEF Reported, ConnState, Taken
  <2>2. th'[w].pc \notin Reading /\ th'[w].out.kind # "say" /\ th'[w].cur # NoFd
    BY <1>5, Returns DEF Reading, Nothing, Note, NoFd
  <2> QED
    BY <1>2, <2>1, <2>2, QuietHear
<1>6. CASE /\ th'[w].pc = "recv" /\ th'[w].out = th[w].out /\ th'[w].cur = th[w].cur
           /\ conn[c].rx # <<>> /\ conn' = [conn EXCEPT ![c].rx = Tail(@)]
           /\ th'[w].buf = Append(th[w].buf, Head(conn[c].rx))
  <2>1. PICK m \in Msg : m = Head(conn[c].rx) /\ m.src = c
    <3>1. conn[c].rx \in Seq(Msg) /\ conn[c].rx # <<>>
      BY <1>6, Types DEF ConnState
    <3>2. Head(conn[c].rx) \in Msg /\ Head(conn[c].rx) \in Range(conn[c].rx)
      BY <3>1, RangeTail
    <3> QED
      BY <3>2 DEF HomeInv, RxOwn
  <2>2. PICK n \in Nat : /\ n = Taken(conn[c]) /\ Taken(conn'[c]) = n + 1 /\ m.no = n + 1
                         /\ \A d \in Conns \ {c} : conn'[d] = conn[d]
    BY <1>2, <1>6, <2>1, TakeOne
  <2>3. \A d \in Conns : conn'[d].inbox = conn[d].inbox /\ conn[d].inbox \in Seq(Notice)
    BY <1>6, Types DEF ConnState
  <2>4. \A d \in Conns : /\ Taken(conn'[d]) \in Int /\ Taken(conn[d]) \in Int
                         /\ Taken(conn'[d]) >= Taken(conn[d])
    <3> TAKE d \in Conns
    <3>1. Taken(conn[d]) \in Int
      BY TakenNat
    <3> QED
      BY <2>2, <3>1
  <2>5. \A text \in Seq(Msg) : AllTaken(text) => AllTaken(text)'
    BY <2>4, StillTaken
  <2>6. PICK text \in Seq(Msg) : text = th[w].buf
    BY Types DEF Thread
  <2>7. InOrder(text) /\ AllTaken(text) /\ \A d \in Conns : Follows(text, conn[d].inbox)
    BY <1>2, <1>3, <2>6 DEF SayOK, Reading
  <2>8. PICK new \in Seq(Msg) : new = Append(text, m) /\ new = th'[w].buf
    <3>1. Append(text, m) \in Seq(Msg)
      BY <2>1, <2>6
    <3>2. Append(text, m) = th'[w].buf
      BY <1>6, <2>1, <2>6
    <3> QED
      BY <3>1, <3>2
  <2>9. \A d \in Conns : HeardOK(conn[d].inbox)
    BY DEF HearInv
  <2>10. InOrder(new) /\ \A d \in Conns : Follows(new, conn[d].inbox)
    BY <2>1, <2>2, <2>3, <2>7, <2>8, <2>9, TextGrows
  <2>11. AllTaken(new)'
    <3>1. AllTaken(text)'
      BY <2>5, <2>7
    <3>2. \A q \in DOMAIN new : (q \in DOMAIN text /\ new[q] = text[q]) \/ new[q] = m
      <4>1. \A q \in DOMAIN Append(text, m) :
              (q \in DOMAIN text /\ Append(text, m)[q] = text[q]) \/ Append(text, m)[q] = m
        OBVIOUS
      <4> QED
        BY <2>8, <4>1
    <3>3. m.no <= Taken(conn'[m.src])
      BY <2>1, <2>2
    <3> QED
      BY <3>1, <3>2, <3>3 DEF AllTaken
  <2>12. ASSUME NEW d \in Conns
         PROVE  HeardOK(conn[d].inbox)'
    <3>1. PICK inbox \in Seq(Notice) : inbox = conn[d].inbox /\ inbox = conn'[d].inbox
      BY <2>3
    <3>2. HeardOK(inbox)'
      BY <2>5, <2>9, <3>1, HeardStill
    <3> QED
      BY <3>1, <3>2 DEF HeardOK, AllTaken
  <2>13. SayOK(th[w])'
    BY <1>3, <1>6, <2>3, <2>8, <2>10, <2>11 DEF SayOK, AllTaken, Follows
  <2> QED
    BY <1>2, <2>12, <2>13 DEF HearInv, OneWorker
<1> QED
  BY <1>2, <1>4, <1>5, <1>6

\* Whoever does not read takes nothing.
LEMMA NothingTaken ==
  ASSUME IInv, Base, HearInv, NEW w \in Workers, Worker(w), ~Recv(w)
  PROVE  \A c \in Conns : RxOK(c)' /\ Taken(conn'[c]) = Taken(conn[c])
<1>1. \A c \in Conns : /\ conn'[c].rx = conn[c].rx /\ conn'[c].sent = conn[c].sent
                       /\ Waiting(c)' => Waiting(c)
  BY UnreadKept
<1> QED
  BY <1>1 DEF HearInv, RxOK, Taken

\* What the worker makes of the text and the notice it has in hand when it neither reads nor
\* sends nor says a line.
LEMMA QuietMoves ==
  ASSUME IInv, Base, HomeInv, HearInv, NEW w \in Workers, Mute(w), ~Recv(w), ~Say(w)
  PROVE  /\ th'[w].cur # NoFd /\ th'[w].out.kind # "say"
         /\ th'[w].pc \in Reading =>
              th'[w].buf = <<>> \/ (th[w].pc \in Reading /\ th'[w].buf = th[w].buf)
<1>1. th[w].pc # "bcast" /\ th[w].cur # NoFd /\ th[w].out.kind # "say"
  <2>1. SayOK(th[w])
    BY DEF HearInv
  <2>2. th[w].pc # "bcast"
    BY DEF Mute, Lock, EpollWait, EpollInterrupted, Unlock, NextEvent, CheckEvent, ErrClose, Accept,
           Insert, AddFd, SetNonblocking, Recv, Blocked, CloseConn, ReadName, Erase, Dispatch,
           SetNick, Welcome, Say, Announce, At
  <2> QED
    BY <2>1, <2>2 DEF SayOK
<1>2. Nothing.kind = "none" /\ 0 # NoFd
  BY DEF Nothing, Note, NoFd
<1>3. Return(w) => /\ th'[w].cur # NoFd /\ th'[w].out.kind # "say" /\ th'[w].pc \notin Reading
  BY <1>2, Returns DEF Reading
<1>4. CASE Lock(w) \/ EpollWait(w) \/ EpollInterrupted(w) \/ Unlock(w) \/ NextEvent(w) \/ CheckEvent(w)
  <2>1. th'[w].buf = th[w].buf /\ th'[w].cur = th[w].cur /\ th'[w].out = th[w].out
    BY <1>4, LoopMoves, Polls
  <2>2. th[w].buf = <<>>
    <3>1. th[w].pc \notin InHandler
      BY <1>4 DEF Lock, EpollWait, EpollInterrupted, Unlock, NextEvent, CheckEvent, At, InHandler,
                  InBatch
    <3> QED
      BY <3>1 DEF HomeInv, ThreadsHome, ThreadHome
  <2> QED
    BY <1>1, <2>1, <2>2
<1>5. CASE ErrClose(w) \/ CloseConn(w)
  <2>1. Return(w) \/ Goto(w, "readname")
    BY <1>5, Closing
  <2> QED
    BY <1>1, <1>3, <2>1, Goes DEF Reading
<1>6. CASE Accept(w)
  <2>1. \/ UNCHANGED th
        \/ /\ th'[w].pc = "insert"
           /\ th'[w].buf = th[w].buf /\ th'[w].cur = th[w].cur /\ th'[w].out = th[w].out
    BY <1>6, Accepted DEF Die
  <2> QED
    BY <1>1, <2>1 DEF Reading
<1>7. CASE Insert(w) \/ AddFd(w) \/ SetNonblocking(w)
  <2>1. Goto(w, "addfd") \/ Goto(w, "nonblock") \/ Return(w)
    BY <1>7, Opens DEF Insert
  <2> QED
    BY <1>1, <1>3, <2>1, Goes DEF Reading
<1>8. CASE ReadName(w) \/ Erase(w) \/ Welcome(w)
  <2>1. /\ th'[w].pc \in {"erase", "bcast"} /\ th'[w].cur = th[w].cur
        /\ \/ th'[w].out.kind = th[w].out.kind
           \/ \E nick : th'[w].out \in {Note("leave", nick, <<>>, {}), Note("welcome", nick, <<>>, {})}
    BY <1>8, SpeakMoves
  <2>2. \A nick : /\ Note("leave", nick, <<>>, {}).kind = "leave"
                  /\ Note("welcome", nick, <<>>, {}).kind = "welcome"
    BY DEF Note
  <2>3. th'[w].out.kind # "say"
    BY <1>1, <2>1, <2>2
  <2> QED
    BY <1>1, <2>1, <2>3 DEF Reading
<1>9. CASE Dispatch(w) \/ SetNick(w)
  <2>1. Return(w) \/ Goto(w, "welcome") \/ (th[w].pc = "dispatch" /\ \E l \in {"talk", "setnick"} : Goto(w, l))
    BY <1>9 DEF Dispatch, SetNick, At
  <2> QED
    BY <1>1, <1>3, <2>1, Goes DEF Reading
<1>10. ~Blocked(w)
  BY DEF Blocked, At, Base, PlaceOK
<1> QED
  BY <1>4, <1>5, <1>6, <1>7, <1>8, <1>9, <1>10 DEF Mute

\* Such a step.
LEMMA MuteHear ==
  ASSUME OneWorker, IInv, Base, HomeInv, HearInv, NEW w \in Workers, Mute(w), ~Recv(w), ~Say(w)
  PROVE  HearInv'
<1>1. \A c \in Conns : conn'[c].inbox = conn[c].inbox
  BY MuteNet, MutedInbox
<1>2. Worker(w)
  BY DEF Mute, Worker
<1> QED
  BY <1>1, <1>2, NothingTaken, QuietMoves, QuietHear

\* The text that was read becomes the line that is sent.
LEMMA SayHear ==
  ASSUME OneWorker, IInv, SocketsOK, Base, HearInv, NEW w \in Workers, Say(w)
  PROVE  HearInv'
<1>1. UNCHANGED <<conn, sock>> /\ th[w].pc = "say" /\ Worker(w) /\ ~Recv(w)
  BY DEF Say, Announce, At, netVars, Worker, Recv
<1>2. /\ th'[w].pc = "bcast" /\ th'[w].cur = th[w].cur /\ th'[w].out.kind = "say"
      /\ th'[w].out.body = th[w].buf
  <2>1. PICK nick : /\ th'[w].pc = "bcast" /\ th'[w].cur = th[w].cur
                    /\ th'[w].out = Note("say", nick, th[w].buf, {})
    BY SpeakMoves
  <2> QED
    BY <2>1 DEF Note
<1>3. SayOK(th[w])
  BY DEF HearInv
<1>4. /\ th[w].cur # NoFd /\ InOrder(th[w].buf) /\ AllTaken(th[w].buf)
      /\ \A c \in Conns : Follows(th[w].buf, conn[c].inbox)
  BY <1>1, <1>3 DEF SayOK, Reading
<1>5. \A f \in Fds : IsOpen(f) => Follows(th[w].buf, conn[sock[f]].inbox)
  BY <1>4, Types
<1>6. SayOK(th[w])'
  BY <1>1, <1>2, <1>4, <1>5 DEF SayOK, Reading, AllTaken, InOrder, Follows, IsOpen
<1>7. \A c \in Conns : RxOK(c)'
  BY <1>1, NothingTaken
<1>8. \A c \in Conns : HeardOK(conn[c].inbox)'
  BY <1>1 DEF HearInv, HeardOK, AllTaken
<1> QED
  BY <1>6, <1>7, <1>8 DEF HearInv, OneWorker

\* A send that is taken puts its notice into one inbox, or into none.
LEMMA SentInbox ==
  ASSUME IInv, NEW c \in Conns, NEW msg, conn' = Sent(c, msg)
  PROVE  /\ \A d \in Conns \ {c} : conn'[d].inbox = conn[d].inbox
         /\ \/ conn'[c].inbox = conn[c].inbox
            \/ conn'[c].inbox = Append(conn[c].inbox, msg)
BY Types DEF Sent, ConnState

\* A send of anything but a chat line.
LEMMA OtherSend ==
  ASSUME IInv, NEW w \in Workers, NEW f \in Fds, NEW msg \in Notice, msg.kind # "say", NEW t,
         Send(w, f, msg, t)
  PROVE  \A c \in Conns : \/ conn'[c].inbox = conn[c].inbox
                          \/ \E m \in Notice : /\ m.kind # "say"
                                               /\ conn'[c].inbox = Append(conn[c].inbox, m)
<1>1. CASE SendTaken(f) /\ \E part \in Portions(f, msg) : conn' = Sent(sock[f], part)
  <2>1. PICK c \in Conns : c = sock[f]
    BY <1>1, Types DEF SendTaken
  <2>2. PICK part \in Portions(f, msg) : conn' = Sent(c, part)
    BY <1>1, <2>1
  <2>3. part \in Notice /\ part.kind # "say"
    BY <2>2, PortionOK
  <2> QED
    BY <2>2, <2>3, SentInbox
<1>2. CASE SendFails(f) /\ conn' = (IF IsOpen(f) THEN Reported(sock[f]) ELSE conn)
  BY <1>2, Types DEF Reported, ConnState
<1>3. CASE UNCHANGED conn
  BY <1>3
<1> QED
  BY <1>1, <1>2, <1>3 DEF Send

\* The steps of the loops that send no chat line.
LEMMA LoopHear ==
  ASSUME OneWorker, IInv, Base, HearInv, NEW w \in Workers,
         Talk(w) \/ ShowStep(w) \/ PrivateStep(w) \/ (BroadcastStep(w) /\ th[w].out.kind # "say")
  PROVE  HearInv'
<1>1. Worker(w) /\ ~Recv(w)
  BY DEF Worker, Talk, ShowStep, PrivateStep, BroadcastStep, Recv, At
<1>2. SayOK(th[w]) /\ th[w].cur # NoFd /\ th[w].out.kind # "say"
  BY DEF HearInv, SayOK, Talk, ShowStep, PrivateStep, At
<1>3. SendFrame /\ (Turned(w) \/ Looped(w) \/ Through(w) \/ Killed(w))
  BY LoopEffects
<1>4. /\ th'[w].cur # NoFd /\ th'[w].out.kind # "say"
      /\ th'[w].pc \in Reading =>
           th'[w].buf = <<>> \/ (th[w].pc \in Reading /\ th'[w].buf = th[w].buf)
  <2>1. CASE Turned(w)
    BY <1>2, <2>1 DEF Turned, Reading
  <2>2. CASE Looped(w)
    BY <1>2, <2>2 DEF Looped, Fds, NoFd
  <2>3. CASE Through(w)
    BY <2>3 DEF Through, Nothing, Note, NoFd
  <2>4. CASE Killed(w)
    BY <1>2, <2>4 DEF Killed
  <2> QED
    BY <1>3, <2>1, <2>2, <2>3, <2>4
<1>5. /\ Note("caution", <<>>, <<>>, {}).kind = "caution"
      /\ Note("users", <<>>, <<>>, th[w].out.rows).kind = "users"
  BY DEF Note
<1>6. \/ UNCHANGED netVars
      \/ \E f \in Fds, msg \in Notice : msg.kind # "say" /\ \E t : Send(w, f, msg, t)
  <2>1. CASE Talk(w) \/ ShowStep(w)
    <3>1. th[w].fd \in Fds
      BY <2>1, Handler DEF Talk, ShowStep, InHandler, InBatch, PCs
    <3> QED
      BY <1>5, <2>1, <3>1, MadeNotices DEF Talk, ShowStep
  <2>2. CASE PrivateStep(w)
    BY <1>2, <2>2, MadeNotices DEF PrivateStep, LoopEnds, Pass, netVars
  <2>3. CASE BroadcastStep(w)
    BY <1>2, <2>3, MadeNotices DEF BroadcastStep, LoopEnds, Pass
  <2> QED
    BY <2>1, <2>2, <2>3
<1>7. \A c \in Conns : \/ conn'[c].inbox = conn[c].inbox
                       \/ \E m \in Notice : /\ m.kind # "say"
                                            /\ conn'[c].inbox = Append(conn[c].inbox, m)
  BY <1>6, OtherSend DEF netVars
<1> QED
  BY <1>1, <1>4, <1>7, NothingTaken, QuietHear

\* A broadcast of a chat line goes on to the next user.
LEMMA MovedHear ==
  ASSUME OneWorker, IInv, SocketsOK, HearInv, NEW w \in Workers, NEW k \in Fds, IsNext(w, k),
         th[w].pc = "bcast", th[w].out.kind = "say", UNCHANGED sock,
         th'[w].pc = "bcast", th'[w].out = th[w].out, th'[w].cur = k,
         \A c \in Conns : RxOK(c)' /\ Taken(conn'[c]) = Taken(conn[c]),
         NEW msg \in Notice, msg.kind = "say", msg.body = th[w].out.body,
         UNCHANGED conn \/ (IsOpen(k) /\ conn' = Sent(sock[k], msg))
  PROVE  HearInv'
<1>1. msg.body = th[w].out.body
  OBVIOUS
<1>2. PICK text \in Seq(Msg) : text = msg.body
  BY DEF Notice
<1>3. SayOK(th[w]) /\ th[w] \in Thread /\ th[w].cur # NoFd
  BY Types DEF HearInv, SayOK
<1>4. /\ InOrder(text) /\ AllTaken(text)
      /\ \A f \in Fds : f > th[w].cur /\ IsOpen(f) => Follows(text, conn[sock[f]].inbox)
  BY <1>1, <1>2, <1>3 DEF SayOK
<1>5. k > th[w].cur /\ k # NoFd
  BY <1>3 DEF IsNext, Ahead, Fds, NoFd
<1>6. \A f \in Fds : f > k => f > th[w].cur
  BY <1>3, <1>5, SocketAssumption DEF Fds, Thread, AllFds, ListenFd, NoFd
<1>7. \A old \in Seq(Msg) : AllTaken(old) => AllTaken(old)'
  BY TakenStays
<1>8. IsOpen(k) /\ conn' = Sent(sock[k], msg) =>
        \A d \in Conns : \/ conn'[d].inbox = conn[d].inbox
                         \/ d = sock[k] /\ conn'[d].inbox = Append(conn[d].inbox, msg)
  BY Types, SentInbox
<1>9. \A d \in Conns : \/ conn'[d].inbox = conn[d].inbox
                       \/ IsOpen(k) /\ d = sock[k] /\ conn'[d].inbox = Append(conn[d].inbox, msg)
  BY <1>8
<1>10. ASSUME NEW d \in Conns
       PROVE  HeardOK(conn[d].inbox)'
  <2>1. PICK old \in Seq(Notice) : old = conn[d].inbox
    BY Types DEF ConnState
  <2>2. HeardOK(old)
    BY <2>1 DEF HearInv
  <2>3. PICK new \in Seq(Notice) : new = conn'[d].inbox /\ HeardOK(new)
    <3>1. CASE conn'[d].inbox = conn[d].inbox
      BY <2>1, <2>2, <3>1
    <3>2. CASE IsOpen(k) /\ d = sock[k] /\ conn'[d].inbox = Append(old, msg)
      <4>1. Follows(text, old)
        BY <1>4, <1>5, <2>1, <3>2
      <4>2. HeardOK(Append(old, msg))
        BY <1>1, <1>2, <1>4, <2>2, <4>1, OneMoreLine
      <4>3. Append(old, msg) \in Seq(Notice)
        OBVIOUS
      <4> QED
        BY <3>2, <4>2, <4>3
    <3> QED
      BY <1>9, <2>1, <3>1, <3>2
  <2>4. HeardOK(new)'
    BY <1>7, <2>3, HeardStill
  <2> QED
    BY <2>3, <2>4 DEF HeardOK, AllTaken
<1>11. \A f \in Fds : f > k /\ IsOpen(f) => Follows(text, conn'[sock[f]].inbox)
  <2> SUFFICES ASSUME NEW f \in Fds, f > k, IsOpen(f)
               PROVE  Follows(text, conn'[sock[f]].inbox)
    OBVIOUS
  <2>1. f # k /\ sock[f] # sock[k] /\ sock[f] \in Conns
    BY Types, SocketAssumption DEF SocketsOK, Fds
  <2>2. Follows(text, conn[sock[f]].inbox)
    BY <1>4, <1>6
  <2> QED
    BY <1>9, <2>1, <2>2
<1>12. SayOK(th[w])'
  <2>1. AllTaken(text)'
    BY <1>4, <1>7
  <2> QED
    BY <1>1, <1>2, <1>4, <1>5, <1>11, <2>1 DEF SayOK, Reading, AllTaken, InOrder, Follows, IsOpen
<1> QED
  BY <1>10, <1>12 DEF HearInv, OneWorker

\* A broadcast.
LEMMA BroadcastHear ==
  ASSUME OneWorker, IInv, SocketsOK, Base, HearInv, NEW w \in Workers, BroadcastStep(w)
  PROVE  HearInv'
<1>1. Worker(w) /\ ~Recv(w) /\ th[w].pc = "bcast"
  BY DEF Worker, BroadcastStep, Recv, At
<1>2. CASE th[w].out.kind # "say"
  BY <1>2, LoopHear
<1>3. ASSUME Return(w), \A c \in Conns : conn'[c].inbox = conn[c].inbox
      PROVE  HearInv'
  <2>1. th'[w].pc \notin Reading /\ th'[w].out.kind # "say" /\ th'[w].cur # NoFd
    BY <1>3, Returns DEF Reading, Nothing, Note, NoFd
  <2> QED
    BY <1>1, <1>3, <2>1, NothingTaken, QuietHear
<1>4. ASSUME UNCHANGED <<th, conn, sock>>
      PROVE  HearInv'
  <2>1. SayOK(th[w])
    BY DEF HearInv
  <2> QED
    BY <1>1, <1>4, <2>1, NothingTaken, QuietHear DEF SayOK
<1>5. ASSUME th[w].out.kind = "say", NEW k \in Fds, IsNext(w, k), Become(w, Moved(w, k)), UNCHANGED sock,
             UNCHANGED conn \/ (IsOpen(k) /\ \E part \in Portions(k, th[w].out) : conn' = Sent(sock[k], part))
      PROVE  HearInv'
  <2>1. th'[w].pc = "bcast" /\ th'[w].out = th[w].out /\ th'[w].cur = k
    BY <1>1, <1>5, Becomes, MovedTurn
  <2>2. th[w].out \in Notice
    BY MadeNotices
  <2>3. PICK msg \in Notice :
          /\ msg.kind = "say" /\ msg.body = th[w].out.body
          /\ UNCHANGED conn \/ (IsOpen(k) /\ conn' = Sent(sock[k], msg))
    <3>1. CASE UNCHANGED conn
      BY <1>5, <2>2, <3>1
    <3>2. ASSUME NEW part \in Portions(k, th[w].out), IsOpen(k), conn' = Sent(sock[k], part)
          PROVE  \E msg \in Notice : /\ msg.kind = "say" /\ msg.body = th[w].out.body
                                      /\ IsOpen(k) /\ conn' = Sent(sock[k], msg)
      <4>1. part \in Notice /\ part.kind = "say" /\ part.body = th[w].out.body
        BY <1>5, <2>2, PortionOK
      <4> QED
        BY <3>2, <4>1
    <3> QED
      BY <1>5, <3>1, <3>2
  <2> QED
    BY <1>1, <1>5, <2>1, <2>3, NothingTaken, MovedHear
<1>6. ASSUME th[w].out.kind = "say", NEW k \in Fds, IsNext(w, k), Send(w, k, th[w].out, Moved(w, k))
      PROVE  HearInv'
  <2>1. CASE Return(w) /\ SendFails(k) /\ conn' = (IF IsOpen(k) THEN Reported(sock[k]) ELSE conn)
    <3>1. \A c \in Conns : conn'[c].inbox = conn[c].inbox
      BY <2>1, Types DEF Reported, ConnState
    <3> QED
      BY <1>3, <2>1, <3>1
  <2>2. UNCHANGED sock
    BY <1>6 DEF Send
  <2> QED
    BY <1>4, <1>5, <1>6, <2>1, <2>2 DEF Send, SendTaken, Die
<1>7. CASE LoopEnds(w)
  BY <1>3, <1>7 DEF LoopEnds, netVars
<1>8. ASSUME th[w].out.kind = "say", NEW k \in Fds, IsNext(w, k), Pass(w, k)
      PROVE  HearInv'
  BY <1>5, <1>8 DEF Pass, netVars
<1> QED
  BY <1>2, <1>6, <1>7, <1>8 DEF BroadcastStep

\* Whatever happens.
LEMMA NextHear ==
  ASSUME OneWorker, IInv, SocketsOK, Base, HomeInv, HearInv, [Next]_vars
  PROVE  HearInv'
<1>1. CASE \E w \in Workers : Worker(w)
  <2>1. PICK w \in Workers : Worker(w)
    BY <1>1
  <2>2. CASE Mute(w) /\ ~Recv(w) /\ ~Say(w)
    BY <2>2, MuteHear
  <2>3. CASE Talk(w) \/ ShowStep(w) \/ PrivateStep(w)
    BY <2>3, LoopHear
  <2> QED
    BY <2>1, <2>2, <2>3, RecvHear, SayHear, BroadcastHear DEF Worker, Mute
<1>2. ASSUME UNCHANGED <<sock, th>>,
             \A c \in Conns : /\ RxOK(c)' /\ Taken(conn'[c]) = Taken(conn[c])
                              /\ conn'[c].inbox = conn[c].inbox
      PROVE  HearInv'
  <2>1. CASE Workers = {}
    <3>1. \A text \in Seq(Msg) : AllTaken(text) => AllTaken(text)'
      BY <1>2, TakenStays
    <3>2. ASSUME NEW c \in Conns
          PROVE  HeardOK(conn[c].inbox)'
      <4>1. PICK inbox \in Seq(Notice) : inbox = conn[c].inbox /\ inbox = conn'[c].inbox
        BY <1>2, Types DEF ConnState
      <4>2. HeardOK(inbox)'
        BY <3>1, <4>1, HeardStill DEF HearInv
      <4> QED
        BY <4>1, <4>2 DEF HeardOK, AllTaken
    <3> QED
      BY <1>2, <2>1, <3>2 DEF HearInv
  <2>2. ASSUME NEW w \in Workers
        PROVE  HearInv'
    <3>1. SayOK(th[w])
      BY DEF HearInv
    <3> QED
      BY <1>2, <3>1, QuietHear DEF SayOK
  <2> QED
    BY <2>1, <2>2
<1>3. CASE Outside
  BY <1>2, <1>3, OutsideTaken, MutedInbox DEF HearInv
<1>4. CASE RaceCrash \/ MainJoin \/ UNCHANGED vars
  <2>1. UNCHANGED <<conn, sock, backlog, th>>
    BY <1>4 DEF RaceCrash, Die, MainJoin, vars, netVars
  <2>2. \A c \in Conns : RxOK(c)' /\ Taken(conn'[c]) = Taken(conn[c])
    BY <2>1 DEF HearInv, RxOK, Waiting
  <2> QED
    BY <1>2, <2>1, <2>2
<1> QED
  BY <1>1, <1>3, <1>4 DEF Next

\* Nobody has heard a thing yet.
LEMMA InitHear ==
  ASSUME Init
  PROVE  HearInv
<1>1. \A w \in Workers : th[w].pc = "lock" /\ th[w].out = Nothing /\ th[w].cur = 0
  BY DEF Init, IdleThread
<1>2. \A c \in Conns : conn[c].inbox = <<>>
  BY DEF Init, SocketInit
<1>3. \A c \in Conns : RxOK(c)
  BY InitSpeech DEF SpeechInv
<1>4. \A c \in Conns : HeardOK(conn[c].inbox)
  BY <1>2 DEF HeardOK, Lines
<1>5. \A w \in Workers : SayOK(th[w])
  BY <1>1 DEF SayOK, Reading, Nothing, Note, NoFd
<1> QED
  BY <1>3, <1>4, <1>5 DEF HearInv

\* With one worker everyone hears each other user's chat lines in the order that user sent
\* them in, and none of them twice, whatever connections are reset.
THEOREM HeardAsSent ==
  ASSUME OneWorker
  PROVE  Spec => []HeardInOrder
<1>1. Init => HomeInv /\ HearInv
  BY InitHome, InitHear
<1>2. IInv /\ SocketsOK /\ Base /\ HomeInv /\ HearInv /\ [Next]_vars => HomeInv' /\ HearInv'
  BY NextHome, NextHear
<1>3. HearInv => HeardInOrder
  BY DEF HearInv, HeardOK, HeardInOrder
<1> QED
  BY <1>1, <1>2, <1>3, OneInvariance, PTL DEF Spec
=============================================================================
