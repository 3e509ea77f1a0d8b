------------------------------- MODULE Server -------------------------------
(***************************************************************************)
(* The worker threads of qiaqia_server (server/server.hpp).  All of them   *)
(* run start_worker: wait for events under io_event_mux, then handle the   *)
(* batch without it.  They share the static events array, the map of       *)
(* clients and the sockets of SocketLayer.                                 *)
(*                                                                         *)
(* A step goes from one system call, lock operation or access to a shared  *)
(* variable to the next; code between them only touches locals.            *)
(*                                                                         *)
(* An operator marked "Mutant" is no part of the model: it is its          *)
(* successor with a bug in it, which a property has to catch.              *)
(***************************************************************************)
EXTENDS SocketLayer

CONSTANTS
  Workers,       \* the worker threads, workerNum of them
  EPOLL_SIZE,    \* how many events one epoll_wait reports
  Interrupts     \* TRUE: the process may be stopped and continued

ASSUME ServerAssumption ==
  /\ EPOLL_SIZE \in Nat \ {0}
  /\ Interrupts \in BOOLEAN
  /\ None \notin Workers

VARIABLES
  status,        \* of the process
  mux,           \* io_event_mux: the worker that holds it
  events,        \* the static array epoll_wait fills
  clients,       \* the map of ClientInfo by descriptor
  th             \* per worker: where it is, and its locals

vars == <<netVars, status, mux, events, clients, th>>
regVars == <<events, clients>>

Event == [fd: AllFds \union {NoFd}, err: BOOLEAN]

(***************************************************************************)
(* origin is the address in clientIP and clientPort: the connection the    *)
(* entry was made for, None in one that operator[] made.                   *)
(***************************************************************************)
NoEntry == None
ClientInfo == [origin: Conns \union {None}, nick: Seq(Msg), named: BOOLEAN]
Fresh(c) == [origin |-> c, nick |-> <<>>, named |-> FALSE]

ASSUME EntryAssumption == NoEntry \notin ClientInfo

Keys == {f \in Fds : clients[f] # NoEntry}

\* clients[f]: operator[] inserts an entry when there is none.
Touched(f) == IF f \in Keys THEN clients ELSE [clients EXCEPT ![f] = Fresh(None)]

(***************************************************************************)
(* idx and cnt: i and ready_count; fd: readyFd; con: the socket a call is  *)
(* at work on; buf: byte_stream; cur: where a loop over clients stands; 0  *)
(* before it begins; out: the message being sent.                          *)
(***************************************************************************)
PCs == {"lock", "wait", "unlock", "next", "check", "errclose", "accept", "insert", "addfd",
        "nonblock", "recv", "blocked", "close", "readname", "erase", "dispatch", "setnick",
        "welcome", "talk", "show", "private", "say", "bcast", "done"}

Thread == [pc: PCs, cnt: -1..EPOLL_SIZE, idx: 0..EPOLL_SIZE + 1, fd: AllFds \union {NoFd},
           con: Conns \union {None}, buf: Seq(Msg), cur: AllFds \union {NoFd}, out: Notice]

TypeOK ==
  /\ SocketTypeOK
  /\ status \in {"running", "joined", "errExit", "killed"}
  /\ mux \in Workers \union {None}
  /\ events \in [1..EPOLL_SIZE -> Event]
  /\ clients \in [Fds -> ClientInfo \union {NoEntry}]
  /\ th \in [Workers -> Thread]

Note(kind, nick, body, rows) ==
  [kind |-> kind, nick |-> nick, body |-> body, rows |-> rows, cut |-> FALSE]
Nothing == Note("none", <<>>, <<>>, {})

IdleThread == [pc |-> "lock", cnt |-> 0, idx |-> 0, fd |-> NoFd, con |-> None,
               buf |-> <<>>, cur |-> 0, out |-> Nothing]

Init ==
  /\ SocketInit
  /\ status = "running"
  /\ mux = None
  /\ events = [i \in 1..EPOLL_SIZE |-> [fd |-> NoFd, err |-> TRUE]]
  /\ clients = [f \in Fds |-> NoEntry]
  /\ th = [w \in Workers |-> IdleThread]

At(w, l) == status = "running" /\ th[w].pc = l
Become(w, t) == th' = [th EXCEPT ![w] = t]
Goto(w, l) == Become(w, [th[w] EXCEPT !.pc = l])
Die(end) == status' = end /\ UNCHANGED th

\* Mutant: byte_stream outlives the handler.
KeepsText(t) == [t EXCEPT !.pc = "next", !.idx = @ + 1, !.con = None, !.cur = 0, !.out = Nothing]

\* The event is dealt with: the locals of its handlers go, ++i.
Finished(t) == [t EXCEPT !.pc = "next", !.idx = @ + 1, !.con = None, !.buf = <<>>,
                         !.cur = 0, !.out = Nothing]
Return(w) == Become(w, Finished(th[w]))

(***************************************************************************)
(* A send of msg to descriptor f.  When all of it is taken, or a part, or  *)
(* nothing because the buffer is full, the worker goes on as t; on another *)
(* error its handler returns -1.  No MSG_NOSIGNAL: EPIPE comes with        *)
(* SIGPIPE.                                                                *)
(***************************************************************************)
Send(w, f, msg, t) ==
  /\ UNCHANGED <<sock, backlog, mux, regVars>>
  /\ \/ /\ SendTaken(f)
        /\ \E part \in Portions(f, msg) : conn' = Sent(sock[f], part)
        /\ Become(w, t) /\ UNCHANGED <<ready, status>>
     \/ /\ SendFull(f)
        /\ Become(w, t) /\ UNCHANGED <<conn, ready, status>>
     \/ /\ SendFails(f)
        /\ conn' = IF IsOpen(f) THEN Reported(sock[f]) ELSE conn
        /\ Return(w) /\ UNCHANGED <<ready, status>>
     \/ /\ SendBroken(f)
        /\ Die("killed") /\ UNCHANGED <<conn, ready>>

-----------------------------------------------------------------------------
(* start_worker: the batch.                                                *)

Lock(w) ==
  /\ At(w, "lock") /\ mux = None
  /\ mux' = w
  /\ Goto(w, "wait")
  /\ UNCHANGED <<netVars, regVars, status>>

\* Mutant: the array is cleared before it is filled.
FilledAfterClear(n, batch) ==
  [i \in 1..EPOLL_SIZE |-> IF i \in 1..n THEN [fd |-> batch[i], err |-> Failed(batch[i])]
                                         ELSE [fd |-> NoFd, err |-> TRUE]]

\* The batch overwrites the front of the array.
Filled(n, batch) ==
  [i \in 1..EPOLL_SIZE |-> IF i \in 1..n THEN [fd |-> batch[i], err |-> Failed(batch[i])]
                                         ELSE events[i]]

\* Mutant: epoll_wait is offered one event more than the array holds.
OffersOneMore == EPOLL_SIZE + 1

MaxEvents == EPOLL_SIZE

\* The order of a batch is not the server's to choose.
EpollWait(w) ==
  /\ At(w, "wait")
  /\ LET avail == {f \in ready : Readable(f)} IN
     \E n \in 1..MaxEvents : \E batch \in Injection(1..n, avail) :
       /\ n = MaxEvents \/ avail = Range(batch)
       /\ events' = Filled(n, batch)
       /\ ready' = avail \ Range(batch)
       /\ Become(w, [th[w] EXCEPT !.pc = "unlock", !.cnt = n])
  /\ UNCHANGED <<conn, sock, backlog, mux, clients, status>>

\* EINTR: epoll_wait is never restarted after SIGCONT.
EpollInterrupted(w) ==
  /\ Interrupts /\ At(w, "wait")
  /\ Become(w, [th[w] EXCEPT !.pc = "unlock", !.cnt = -1])
  /\ UNCHANGED <<netVars, regVars, status, mux>>

\* Mutant: a worker that ends its loop leaves the mutex locked.
UnlockAfterTest(w) ==
  /\ At(w, "unlock")
  /\ IF th[w].cnt < 0 THEN Goto(w, "done") /\ UNCHANGED mux
     ELSE mux' = None /\ Become(w, [th[w] EXCEPT !.pc = "next", !.idx = 1])
  /\ UNCHANGED <<netVars, regVars, status>>

Unlock(w) ==
  /\ At(w, "unlock")
  /\ mux' = None
  /\ Become(w, IF th[w].cnt < 0 THEN [th[w] EXCEPT !.pc = "done"]
                                ELSE [th[w] EXCEPT !.pc = "next", !.idx = 1])
  /\ UNCHANGED <<netVars, regVars, status>>

\* Mutant: the last event of a batch is left out.
SkipsLast(w) ==
  /\ At(w, "next")
  /\ Become(w, IF th[w].idx >= th[w].cnt
               THEN [th[w] EXCEPT !.pc = "lock"]
               ELSE [th[w] EXCEPT !.pc = "check", !.fd = events[th[w].idx].fd])
  /\ UNCHANGED <<netVars, regVars, status, mux>>

NextEvent(w) ==
  /\ At(w, "next")
  /\ Become(w, IF th[w].idx > th[w].cnt
               THEN [th[w] EXCEPT !.pc = "lock"]
               ELSE [th[w] EXCEPT !.pc = "check", !.fd = events[th[w].idx].fd])
  /\ UNCHANGED <<netVars, regVars, status, mux>>

CheckEvent(w) ==
  /\ At(w, "check")
  /\ Goto(w, IF events[th[w].idx].err THEN "errclose"
             ELSE IF th[w].fd = ListenFd THEN "accept"
             ELSE "recv")
  /\ UNCHANGED <<netVars, regVars, status, mux>>

\* Closes the descriptor the array holds now; the entry in clients stays.
ErrClose(w) ==
  /\ At(w, "errclose")
  /\ LET f == events[th[w].idx].fd IN
     IF f # NoFd /\ IsOpen(f) THEN Close(f) ELSE UNCHANGED <<sock, ready, conn>>
  /\ Return(w)
  /\ UNCHANGED <<backlog, regVars, status, mux>>

-----------------------------------------------------------------------------
(* start_worker: a new connection.                                         *)

AcceptOne(w) ==
  /\ backlog # <<>>
  /\ \E f \in Fds :
       /\ IsLowestFree(f)
       /\ sock' = [sock EXCEPT ![f] = Head(backlog)]
       /\ backlog' = Tail(backlog)
       /\ Become(w, [th[w] EXCEPT !.pc = "insert", !.fd = f, !.con = Head(backlog)])
  /\ UNCHANGED status

\* EAGAIN leaves the batch, with the events behind this one.
AcceptNone(w) == backlog = <<>> /\ Goto(w, "lock") /\ UNCHANGED <<sock, backlog, status>>

AcceptFails == Die("errExit") /\ UNCHANGED <<sock, backlog>>

\* accept looks for a descriptor before it looks at the queue.
Accept(w) ==
  /\ At(w, "accept")
  /\ IF ~IsOpen(ListenFd) \/ \A f \in Fds : IsOpen(f) THEN AcceptFails
     ELSE AcceptOne(w) \/ AcceptNone(w)
  /\ UNCHANGED <<conn, ready, regVars, mux>>

\* store_client_infomation: insert leaves an entry that is there as it is.
Insert(w) ==
  /\ At(w, "insert")
  /\ LET f == th[w].fd IN
     clients' = IF f \in Keys THEN clients ELSE [clients EXCEPT ![f] = Fresh(th[w].con)]
  /\ Goto(w, "addfd")
  /\ UNCHANGED <<netVars, events, status, mux>>

AddFd(w) ==
  /\ At(w, "addfd")
  /\ LET f == th[w].fd
         c == sock[f] IN
     IF IsOpen(f) /\ conn[c].watch = NoFd
     THEN /\ conn' = [conn EXCEPT ![c].watch = f]
          /\ ready' = IF HasInput(c) THEN ready \union {f} ELSE ready
          /\ Goto(w, "nonblock") /\ UNCHANGED status
     ELSE Die("errExit") /\ UNCHANGED <<conn, ready>>
  /\ UNCHANGED <<sock, backlog, regVars, mux>>

\* Mutant: the socket stays blocking.
LeaveBlocking(w) ==
  /\ At(w, "nonblock")
  /\ Return(w)
  /\ UNCHANGED <<netVars, regVars, status, mux>>

\* Mutant: an accepted connection ends the batch.
NonblockingThenBreak(w) ==
  /\ At(w, "nonblock")
  /\ conn' = [conn EXCEPT ![sock[th[w].fd]].nonblock = TRUE]
  /\ Goto(w, "lock")
  /\ UNCHANGED <<sock, backlog, ready, regVars, status, mux>>

SetNonblocking(w) ==
  /\ At(w, "nonblock")
  /\ IF IsOpen(th[w].fd)
     THEN conn' = [conn EXCEPT ![sock[th[w].fd]].nonblock = TRUE] /\ Return(w) /\ UNCHANGED status
     ELSE Die("errExit") /\ UNCHANGED conn
  /\ UNCHANGED <<sock, backlog, ready, regVars, mux>>

-----------------------------------------------------------------------------
(* get_msg_and_forward_to_clients: reading.                                *)

\* Mutant: one recv for an edge.
TakeOnce(w, c) ==
  /\ conn' = [conn EXCEPT ![c].rx = Tail(@)]
  /\ Become(w, [th[w] EXCEPT !.pc = "dispatch", !.con = None, !.buf = <<Head(conn[c].rx)>>])

Take(w, c) ==
  /\ conn' = [conn EXCEPT ![c].rx = Tail(@)]
  /\ Become(w, [th[w] EXCEPT !.pc = "recv", !.con = None, !.buf = Append(@, Head(conn[c].rx))])

\* Mutant: the end of the stream is taken for the end of the input.
IgnoreEnd(w, c) ==
  \/ conn[c].rx # <<>> /\ Take(w, c)
  \/ conn[c].rx = <<>> /\ Return(w) /\ UNCHANGED conn

\* What recv does once there is input, on the socket it has got hold of.
RecvFrom(w, c) ==
  \/ conn[c].rx # <<>> /\ Take(w, c)
  \/ /\ conn[c].rx = <<>> /\ conn[c].peer = "rsterr"
     /\ conn' = Reported(c) /\ Return(w)
  \/ /\ conn[c].rx = <<>> /\ conn[c].peer \in {"fin", "poked", "rst"}
     /\ Become(w, [th[w] EXCEPT !.pc = "close", !.con = None]) /\ UNCHANGED conn

Recv(w) ==
  /\ At(w, "recv")
  /\ LET c == sock[th[w].fd] IN
     \/ ~IsOpen(th[w].fd) /\ Return(w) /\ UNCHANGED conn
     \/ IsOpen(th[w].fd) /\ HasInput(c) /\ RecvFrom(w, c)
     \/ /\ IsOpen(th[w].fd) /\ ~HasInput(c) /\ UNCHANGED conn
        /\ Become(w, IF conn[c].nonblock
                     THEN [th[w] EXCEPT !.pc = "dispatch"]
                     ELSE [th[w] EXCEPT !.pc = "blocked", !.con = c])
  /\ UNCHANGED <<sock, backlog, ready, regVars, status, mux>>

\* Not yet nonblocking: the worker sleeps in recv, whatever becomes of its descriptor.
Blocked(w) ==
  /\ At(w, "blocked") /\ HasInput(th[w].con)
  /\ RecvFrom(w, th[w].con)
  /\ UNCHANGED <<sock, backlog, ready, regVars, status, mux>>

-----------------------------------------------------------------------------
(* get_msg_and_forward_to_clients: the client side closed.                 *)

CloseConn(w) ==
  /\ At(w, "close")
  /\ IF IsOpen(th[w].fd)
     THEN Close(th[w].fd) /\ Goto(w, "readname") /\ UNCHANGED status
     ELSE Die("errExit") /\ UNCHANGED <<sock, ready, conn>>
  /\ UNCHANGED <<backlog, regVars, mux>>

ReadName(w) ==
  /\ At(w, "readname")
  /\ clients' = Touched(th[w].fd)
  /\ Become(w, [th[w] EXCEPT !.pc = "erase",
                             !.out = Note("leave", clients'[th[w].fd].nick, <<>>, {})])
  /\ UNCHANGED <<netVars, events, status, mux>>

\* Mutants: the entry stays; the entry is made empty.
KeepsEntry(f)  == clients
BlanksEntry(f) == [clients EXCEPT ![f] = Fresh(None)]

Erased(f) == [clients EXCEPT ![f] = NoEntry]

\* The name is read through c_str() of an entry that is gone by then.  A loop of
\* another worker that stands on the entry has lost its place.
Erase(w) ==
  /\ At(w, "erase")
  /\ clients' = Erased(th[w].fd)
  /\ \E name \in {th[w].out.nick, Garbage} :
       th' = [v \in Workers |->
                IF v = w THEN [th[w] EXCEPT !.pc = "bcast", !.out.nick = name]
                ELSE IF th[v].cur = th[w].fd THEN [th[v] EXCEPT !.cur = NoFd]
                ELSE th[v]]
  /\ UNCHANGED <<netVars, events, status, mux>>

-----------------------------------------------------------------------------
(* get_msg_and_forward_to_clients: what the text is.                       *)

Dispatch(w) ==
  /\ At(w, "dispatch")
  /\ IF th[w].buf = <<>> THEN Return(w) /\ UNCHANGED clients
     ELSE /\ clients' = Touched(th[w].fd)
          /\ Goto(w, IF clients'[th[w].fd].named THEN "talk" ELSE "setnick")
  /\ UNCHANGED <<netVars, events, status, mux>>

SetNick(w) ==
  /\ At(w, "setnick")
  /\ clients' = [Touched(th[w].fd) EXCEPT ![th[w].fd].nick = th[w].buf,
                                          ![th[w].fd].named = TRUE]
  /\ Goto(w, "welcome")
  /\ UNCHANGED <<netVars, events, status, mux>>

Announce(w, l, kind, body) ==
  /\ At(w, l)
  /\ clients' = Touched(th[w].fd)
  /\ Become(w, [th[w] EXCEPT !.pc = "bcast",
                             !.out = Note(kind, clients'[th[w].fd].nick, body, {})])
  /\ UNCHANGED <<netVars, events, status, mux>>

Welcome(w) == Announce(w, "welcome", "welcome", <<>>)

\* The text is told by how it begins: by its first message.
IsPrivate(text) == Head(text).form \in {"private", "nameless", "blanks"}
Route(text) == CASE Head(text).form = "show" -> "show"
                 [] IsPrivate(text)          -> "private"
                 [] OTHER                    -> "say"

\* The text a user has for a name if the first thing it sent came in alone.
FirstWord(c) == <<[src |-> c, no |-> 1, form |-> "word", to |-> c]>>
Unbroken(text) == \A i \in 2..Len(text) : text[i].form = "word"

\* What a private message is compared with the nicknames by.  No name is there without a
\* second blank, and any name is lost when the message fills its array: the zero trim ends
\* it with falls on name_c.  With a command behind it the name is a text nobody is called.
NamesRead(text) ==
  {<<>>} \union IF ~Unbroken(text) THEN {Garbage}
                ELSE IF Head(text).form = "private" THEN {FirstWord(Head(text).to)} ELSE {}

\* Where the handler goes with its text; name and message of a private one are cut out first.
Routed(t) ==
  IF IsPrivate(t.buf)
  THEN {[t EXCEPT !.pc = "private", !.out = Note("private", name, t.buf, {})] :
          name \in NamesRead(t.buf)}
  ELSE {[t EXCEPT !.pc = Route(t.buf)]}

Talk(w) ==
  /\ At(w, "talk")
  /\ \E t \in Routed(th[w]) :
     IF \E k \in Keys : Keys = {k}
     THEN Send(w, th[w].fd, Note("caution", <<>>, <<>>, {}), t)
     ELSE Become(w, t) /\ UNCHANGED <<netVars, regVars, status, mux>>

Say(w) == Announce(w, "say", "say", th[w].buf)

-----------------------------------------------------------------------------
(* The loops over clients.  A loop that stands on an entry that was freed  *)
(* goes anywhere.                                                          *)

Ahead(w) == {k \in Keys : k > th[w].cur}
IsNext(w, k) == IF th[w].cur = NoFd THEN k \in Keys
                ELSE k \in Ahead(w) /\ \A j \in Ahead(w) : k <= j
IsOver(w) == th[w].cur = NoFd \/ Ahead(w) = {}

Moved(w, k) == [th[w] EXCEPT !.cur = k]
LoopEnds(w) == IsOver(w) /\ Return(w) /\ UNCHANGED <<netVars, regVars, status, mux>>

Pass(w, k) == Become(w, Moved(w, k)) /\ UNCHANGED <<netVars, regVars, status, mux>>

\* Mutants: the sender is a receiver too; the loop ends at the sender.
BroadcastToAll(w) ==
  /\ At(w, "bcast")
  /\ LoopEnds(w) \/ \E k \in Fds : IsNext(w, k) /\ Send(w, k, th[w].out, Moved(w, k))

BroadcastStopsShort(w) ==
  /\ At(w, "bcast")
  /\ \/ LoopEnds(w)
     \/ \E k \in Fds : IsNext(w, k) /\
          IF k = th[w].fd THEN Return(w) /\ UNCHANGED <<netVars, regVars, status, mux>>
                          ELSE Send(w, k, th[w].out, Moved(w, k))

\* broadcast, to every client but the one the message is about.
BroadcastStep(w) ==
  /\ At(w, "bcast")
  /\ \/ LoopEnds(w)
     \/ \E k \in Fds : IsNext(w, k) /\
          IF k = th[w].fd THEN Pass(w, k) ELSE Send(w, k, th[w].out, Moved(w, k))

\* trim of a name that is blanks alone: the length is computed below zero.
TrimDies(text) == Head(text).form = "blanks" /\ Unbroken(text)

\* To every client of that name.
PrivateStep(w) ==
  /\ At(w, "private")
  /\ IF TrimDies(th[w].buf) THEN Die("killed") /\ UNCHANGED <<netVars, regVars, mux>>
     ELSE \/ LoopEnds(w)
          \/ \E k \in Fds : IsNext(w, k) /\
               IF clients[k].nick = th[w].out.nick
               THEN Send(w, k, th[w].out, Moved(w, k)) ELSE Pass(w, k)

\* show_userinfo_to_client: one row per entry, then the whole list in one send.
ShowStep(w) ==
  /\ At(w, "show")
  /\ \/ /\ IsOver(w)
        /\ Send(w, th[w].fd, Note("users", <<>>, <<>>, th[w].out.rows), Finished(th[w]))
     \/ \E k \in Fds :
          /\ IsNext(w, k)
          /\ Become(w, [Moved(w, k) EXCEPT !.out.rows = @ \union {clients[k].origin}])
          /\ UNCHANGED <<netVars, regVars, status, mux>>

-----------------------------------------------------------------------------
\* Two workers at the map, one of them changing it, not both under clients_map_mux:
\* the outcomes that go on are the ones above, the other is a crash.
Locked(w)   == th[w].pc \in {"insert", "erase", "setnick"}
Changes(w)  == \/ Locked(w)
               \/ th[w].pc \in {"readname", "welcome", "say", "dispatch"} /\ th[w].fd \notin Keys
UsesMap(w)  == \/ Locked(w) \/ th[w].pc \in {"readname", "welcome", "say", "talk", "show",
                                             "private", "bcast"}
               \/ th[w].pc = "dispatch" /\ th[w].buf # <<>>

RaceCrash ==
  /\ status = "running"
  /\ \E v, w \in Workers : v # w /\ Changes(v) /\ UsesMap(v) /\ UsesMap(w) /\ ~(Locked(v) /\ Locked(w))
  /\ Die("killed")
  /\ UNCHANGED <<netVars, regVars, mux>>

\* start_server: pthread_join on every worker, and main returns.
MainJoin ==
  /\ status = "running" /\ \A w \in Workers : th[w].pc = "done"
  /\ status' = "joined"
  /\ UNCHANGED <<netVars, regVars, mux, th>>

Worker(w) ==
  \/ Lock(w) \/ EpollWait(w) \/ EpollInterrupted(w) \/ Unlock(w)
  \/ NextEvent(w) \/ CheckEvent(w) \/ ErrClose(w)
  \/ Accept(w) \/ Insert(w) \/ AddFd(w) \/ SetNonblocking(w)
  \/ Recv(w) \/ Blocked(w) \/ CloseConn(w) \/ ReadName(w) \/ Erase(w)
  \/ Dispatch(w) \/ SetNick(w) \/ Welcome(w) \/ Talk(w) \/ Say(w)
  \/ BroadcastStep(w) \/ PrivateStep(w) \/ ShowStep(w)

Outside ==
  /\ status = "running"
  /\ \E c \in Conns : Environment(c)
  /\ UNCHANGED <<status, mux, regVars, th>>

Next ==
  \/ \E w \in Workers : Worker(w)
  \/ RaceCrash
  \/ MainJoin
  \/ Outside

Spec == Init /\ [][Next]_vars

\* Every thread gets to run; the clients need do nothing.
Fairness == (\A w \in Workers : WF_vars(Worker(w))) /\ WF_vars(MainJoin)
FairSpec == Spec /\ Fairness
=============================================================================
