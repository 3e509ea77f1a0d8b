----------------------------- MODULE RoomProofs -----------------------------
(***************************************************************************)
(* The server with one worker implements the chat room.  As long as no     *)
(* connection is reset the books are in order, and each step is one of the *)
(* room's Talk or changes nothing there; the first reset is its Disturb,   *)
(* and nothing happens in it afterwards.                                   *)
(***************************************************************************)
EXTENDS SpeechProofs, ServerRoom, SequenceTheorems

\* The room as the books have it, disturbed or not.
Book == INSTANCE ChatRoom WITH
  Users    <- Conns,
  Messages <- UNION {[src: {c}, no: 1..MaxSent[c], form: Forms, to: Conns] : c \in Conns},
  present  <- Registered,
  name     <- Nicks,
  queue    <- Unheard,
  floor    <- Floor,
  gone     <- HungUp,
  heard    <- Inboxes,
  closed   <- FALSE

\* No connection has been reset.
Orderly == IInv /\ SocketsOK /\ Base /\ Tidy /\ RegInv /\ ResetConns = {}

\* The worker parts with a client that has hung up and whose messages have all been taken.
Parting(t) ==
  t.pc \in {"close", "readname", "erase"} =>
    LET k == conn[clients[t.fd].origin] IN k.peer \in {"fin", "poked"} /\ k.rx = <<>>

BookOK(t) ==
  /\ Parting(t)
  /\ t.pc = "erase" => t.out = Note("leave", clients[t.fd].nick, <<>>, {})
  /\ t.pc = "show" => t.out.rows = Owners({f \in Keys : f <= t.cur})

\* Each entry is a client's, and no client has two.
OneEntryEach ==
  /\ \A f \in Keys : clients[f].origin \in Conns
  /\ \A f, g \in Keys : clients[f].origin = clients[g].origin => f = g

Books == OneEntryEach /\ \A w \in Workers : BookOK(th[w])

-----------------------------------------------------------------------------
(* The books are in order.                                                 *)

\* The map stays and the worker goes to no place the books are about.
LEMMA SameBooks ==
  ASSUME OneWorker, Books, UNCHANGED clients, NEW w \in Workers,
         th'[w].pc \notin {"close", "readname", "erase", "show"}
  PROVE  Books'
<1>1. \A v \in Workers : v = w
  BY DEF OneWorker
<1>2. UNCHANGED Keys
  BY DEF Keys
<1>3. OneEntryEach'
  BY <1>2 DEF Books, OneEntryEach
<1> QED
  BY <1>1, <1>3 DEF Books, BookOK, Parting

\* The map stays and the worker goes where the books are about.
LEMMA BooksBy ==
  ASSUME OneWorker, Books, UNCHANGED clients, NEW w \in Workers, BookOK(th[w])'
  PROVE  Books'
<1>1. \A v \in Workers : v = w
  BY DEF OneWorker
<1>2. UNCHANGED Keys
  BY DEF Keys
<1>3. OneEntryEach'
  BY <1>2 DEF Books, OneEntryEach
<1> QED
  BY <1>1, <1>3 DEF Books

\* A new entry is for a client that has none; a name is given to an entry that is there; an
\* entry goes.
LEMMA MapBooks ==
  ASSUME OneWorker, Orderly, Books, NEW w \in Workers, Insert(w) \/ SetNick(w) \/ Erase(w)
  PROVE  Books'
<1>1. IInv /\ SocketsOK /\ Base /\ Tidy /\ RegInv /\ PlaceOK(th[w]) /\ PendingOK(th[w])
      /\ ResetConns = {} /\ \A v \in Workers : v = w
  BY RegNow DEF Orderly, Base, OneWorker
<1>2. th'[w].pc \in {"addfd", "welcome", "bcast"}
  BY <1>1, Goes, SpeakMoves DEF Insert, SetNick
<1>3. OneEntryEach' => Books'
  BY <1>1, <1>2 DEF Books, BookOK, Parting
<1>4. CASE Insert(w)
  <2>1. PICK f \in Fds : f = th[w].fd /\ IsOpen(f) /\ sock[f] \in Conns
    BY <1>1, <1>4, Opens
  <2>2. th[w].pc = "insert" /\ th[w].con = sock[f] /\ f \notin Keys
    BY <1>1, <1>4, <2>1 DEF Insert, At, PlaceOK, PendingOK
  <2>3. clients' = [clients EXCEPT ![f] = Fresh(sock[f])]
    BY <1>4, <2>1, <2>2 DEF Insert
  <2>4. \A g \in Keys : g \in Fds /\ g # f /\ clients[g].origin = sock[g] /\ sock[g] # sock[f]
    <3> TAKE g \in Keys
    <3>1. g \in Fds /\ g # f
      BY <2>2 DEF Keys
    <3>2. Exact(g)
      BY <1>1, <2>1, <2>2, <3>1, RegNow
    <3> QED
      BY <1>1, <2>1, <3>1, <3>2 DEF Exact, SocketsOK
  <2>5. /\ \A g \in Keys' : g \in Keys \/ g = f
        /\ clients'[f].origin = sock[f]
        /\ \A g \in Keys : clients'[g] = clients[g]
    BY <1>1, <2>1, <2>3, <2>4, Types DEF Keys, Fresh
  <2> QED
    BY <1>3, <2>1, <2>4, <2>5 DEF Books, OneEntryEach
<1>5. CASE SetNick(w)
  <2>1. /\ th[w].pc = "setnick"
        /\ clients' = [Touched(th[w].fd) EXCEPT ![th[w].fd].nick = th[w].buf,
                                                ![th[w].fd].named = TRUE]
    BY <1>5 DEF SetNick, At
  <2>2. PICK f \in Fds : f = th[w].fd /\ f \in Keys /\ clients[f] \in ClientInfo /\ Touched(f) = clients
    BY <1>1, <2>1, Listed DEF Serving
  <2>3. \A g \in Keys' : g \in Keys /\ clients'[g].origin = clients[g].origin
    BY <1>1, <2>1, <2>2, Types DEF Keys, ClientInfo
  <2> QED
    BY <1>3, <2>3 DEF Books, OneEntryEach
<1>6. CASE Erase(w)
  <2>1. th[w].fd \in Fds /\ clients' = [clients EXCEPT ![th[w].fd] = NoEntry]
    BY <1>1, <1>6 DEF Erase, Erased, At, IInv, ThreadsOK, ThreadOK, InBatch, PCs
  <2>2. \A g \in Keys' : g \in Keys /\ clients'[g] = clients[g]
    BY <1>1, <2>1, Types DEF Keys
  <2> QED
    BY <1>3, <2>2 DEF Books, OneEntryEach
<1> QED
  BY <1>4, <1>5, <1>6

\* The steps between two events, and those that open a connection.
LEMMA BetweenBooks ==
  ASSUME OneWorker, Orderly, Books, NEW w \in Workers,
         \/ Lock(w) \/ EpollWait(w) \/ EpollInterrupted(w) \/ Unlock(w) \/ NextEvent(w)
         \/ CheckEvent(w) \/ Accept(w) \/ AddFd(w) \/ SetNonblocking(w)
  PROVE  Books'
<1>1. IInv /\ Base /\ \A v \in Workers : v = w
  BY DEF Orderly, OneWorker
<1>2. CASE Lock(w) \/ EpollWait(w) \/ EpollInterrupted(w) \/ Unlock(w) \/ NextEvent(w) \/ CheckEvent(w)
  <2>1. UNCHANGED clients
    BY <1>1, <1>2, LoopMoves, Polls DEF netVars, regVars
  <2>2. th'[w].pc \in {"wait", "unlock", "done", "next", "lock", "check", "errclose", "accept", "recv"}
    <3>1. CASE Lock(w) \/ CheckEvent(w)
      BY <1>1, <3>1, Goes DEF Lock, CheckEvent
    <3> QED
      BY <1>1, <1>2, <3>1, LoopMoves, Polls
  <2> QED
    BY <2>1, <2>2, SameBooks
<1>3. CASE Accept(w)
  <2>1. UNCHANGED clients /\ th'[w].pc \in {"accept", "insert"}
    BY <1>1, <1>3, Accepted DEF regVars, Die
  <2> QED
    BY <2>1, SameBooks
<1>4. CASE AddFd(w) \/ SetNonblocking(w)
  <2>1. UNCHANGED clients /\ th'[w].pc \in {"nonblock", "next"}
    <3>1. CASE AddFd(w)
      BY <1>1, <3>1, Opens, Goes DEF regVars
    <3>2. CASE SetNonblocking(w)
      BY <1>1, <3>2, Opens, Returns DEF regVars
    <3> QED
      BY <1>4, <3>1, <3>2
  <2> QED
    BY <2>1, SameBooks
<1> QED
  BY <1>2, <1>3, <1>4

\* Reading, and parting.
LEMMA ReadBooks ==
  ASSUME OneWorker, Orderly, Books, NEW w \in Workers, Recv(w) \/ CloseConn(w) \/ ReadName(w)
  PROVE  Books'
<1>1. /\ IInv /\ SocketsOK /\ Base /\ Tidy /\ RegInv /\ ResetConns = {} /\ BookOK(th[w])
      /\ \A v \in Workers : v = w
  BY DEF Orderly, OneWorker, Tidy, Books
<1>2. CASE Recv(w)
  <2>1. PICK c \in Conns : c = sock[th[w].fd]
    BY <1>1, <1>2, Recvs
  <2>2. /\ th[w].pc = "recv" /\ UNCHANGED clients
        /\ (HasInput(c) /\ RecvFrom(w, c)) \/ Goto(w, "dispatch")
    BY <1>1, <1>2, <2>1, Recvs DEF At, regVars
  <2>3. CASE Goto(w, "dispatch")
    BY <1>1, <2>2, <2>3, Goes, SameBooks
  <2>4. CASE RecvFrom(w, c)
    <3>1. CASE th'[w].pc = "recv" \/ Return(w)
      BY <1>1, <2>2, <3>1, Returns, SameBooks
    <3>2. CASE /\ conn[c].rx = <<>> /\ conn[c].peer \in {"fin", "poked", "rst"} /\ UNCHANGED conn
               /\ th'[w].pc = "close" /\ Same(th[w], th'[w])
      <4>1. clients[th[w].fd].origin = c /\ conn[c].peer \in {"fin", "poked"}
        BY <1>1, <2>1, <2>2, <3>2, Listed DEF Serving, ResetConns
      <4>2. BookOK(th[w])'
        BY <2>2, <3>2, <4>1 DEF BookOK, Parting, Same
      <4> QED
        BY <2>2, <4>2, BooksBy
    <3> QED
      BY <1>1, <2>4, <3>1, <3>2, RecvMoves
  <2> QED
    BY <2>2, <2>3, <2>4
<1>3. CASE CloseConn(w)
  <2>1. /\ th[w].pc = "close" /\ Close(th[w].fd) /\ UNCHANGED clients
        /\ th'[w].pc = "readname" /\ th'[w].fd = th[w].fd
    BY <1>1, <1>3, Closing, Goes DEF regVars, Same
  <2>2. \A d \in Conns : conn'[d].peer = conn[d].peer /\ conn'[d].rx = conn[d].rx
    BY <1>1, <2>1, Types DEF Close, ConnState
  <2>3. clients[th[w].fd].origin \in Conns
    BY <1>1, <2>1, Listed DEF Books, OneEntryEach, Serving
  <2>4. BookOK(th[w])'
    BY <1>1, <2>1, <2>2, <2>3 DEF BookOK, Parting
  <2> QED
    BY <2>1, <2>4, BooksBy
<1>4. CASE ReadName(w)
  <2>1. th[w].pc = "readname" /\ clients' = Touched(th[w].fd) /\ UNCHANGED conn
    BY <1>4 DEF ReadName, At, netVars
  <2>2. UNCHANGED clients
    BY <1>1, <2>1, Listed
  <2>3. /\ th'[w].pc = "erase" /\ th'[w].fd = th[w].fd
        /\ th'[w].out = Note("leave", clients'[th[w].fd].nick, <<>>, {})
    BY <1>1, <1>4, SpeakMoves DEF Same
  <2>4. BookOK(th[w])'
    BY <1>1, <2>1, <2>2, <2>3 DEF BookOK, Parting
  <2> QED
    BY <2>2, <2>4, BooksBy
<1> QED
  BY <1>2, <1>3, <1>4

\* What is next in the map is the next one only.
LEMMA NextOnly ==
  ASSUME IInv, Tidy, NEW w \in Workers, NEW k \in Fds, IsNext(w, k)
  PROVE  /\ k \in Keys /\ k \in Ahead(w) /\ k \in Int /\ th[w].cur \in Int
         /\ \A f \in Keys : f \in Int
         /\ \A f \in Keys : f > k <=> f > th[w].cur /\ f # k
<1>1. th[w] \in Thread /\ th[w].cur # NoFd
  BY Types DEF Tidy, LocalsOK
<1>2. k \in Keys /\ k \in Ahead(w) /\ \A j \in Ahead(w) : k <= j
  BY <1>1 DEF IsNext, Ahead
<1>3. \A f \in Keys : f \in Int /\ k \in Int /\ th[w].cur \in Int
  BY <1>1, SocketAssumption DEF Keys, Fds, Thread, AllFds, ListenFd, NoFd
<1> QED
  BY <1>2, <1>3 DEF Ahead

\* What is said.
LEMMA TalkBooks ==
  ASSUME OneWorker, Orderly, Books, NEW w \in Workers,
         \/ Dispatch(w) \/ Welcome(w) \/ Say(w)
         \/ Talk(w) \/ ShowStep(w) \/ BroadcastStep(w) \/ PrivateStep(w)
  PROVE  Books'
<1>1. /\ IInv /\ SocketsOK /\ Base /\ Tidy /\ RegInv /\ BookOK(th[w]) /\ LocalsOK(th[w])
      /\ \A v \in Workers : v = w
  BY DEF Orderly, OneWorker, Tidy, Books
<1>2. CASE Dispatch(w) \/ Welcome(w) \/ Say(w)
  <2>1. th[w].pc \in {"dispatch", "welcome", "say"}
    BY <1>2 DEF Dispatch, Welcome, Say, Announce, At
  <2>2. UNCHANGED clients
    BY <1>1, <1>2, <2>1, Listed DEF Dispatch, Welcome, Say, Announce, Serving
  <2>3. th'[w].pc \in {"next", "talk", "setnick", "bcast"}
    <3>1. CASE Dispatch(w)
      BY <1>1, <3>1, Goes, Returns DEF Dispatch
    <3> QED
      BY <1>1, <1>2, <3>1, SpeakMoves
  <2> QED
    BY <2>2, <2>3, SameBooks
<1>3. CASE Talk(w) \/ ShowStep(w) \/ BroadcastStep(w) \/ PrivateStep(w)
  <2>1. SendFrame /\ (Turned(w) \/ Looped(w) \/ Through(w) \/ Killed(w))
    BY <1>1, <1>3, LoopEffects
  <2>2. th[w].pc \in {"talk", "show", "bcast", "private"} /\ UNCHANGED clients
    BY <1>3, <2>1 DEF Talk, ShowStep, BroadcastStep, PrivateStep, At, SendFrame
  <2>3. UNCHANGED Keys
    BY <2>2 DEF Keys
  <2>4. CASE Turned(w)
    <3>1. th'[w].pc \in {"show", "private", "say"} /\ th[w].pc = "talk"
          /\ (th'[w].pc = "show" => th'[w].out = th[w].out)
      BY <2>4 DEF Turned
    <3>2. th'[w].cur = 0 /\ th[w].out.rows = {}
      BY <1>1, <2>4, <3>1 DEF LocalsOK, Nothing, Note, Turned
    <3>3. \A f \in Keys : ~(f <= 0)
      BY SocketAssumption DEF Keys, Fds
    <3>4. Owners({f \in Keys : f <= th[w].cur})' = {}
      BY <2>3, <3>2, <3>3 DEF Owners
    <3>5. BookOK(th[w])'
      BY <3>1, <3>2, <3>4 DEF BookOK, Parting
    <3> QED
      BY <2>2, <3>5, BooksBy
  <2>5. CASE Through(w)
    BY <2>2, <2>5, SameBooks DEF Through
  <2>6. CASE Killed(w)
    <3>1. UNCHANGED <<th, conn>>
      BY <2>6 DEF Killed
    <3>2. Owners({f \in Keys : f <= th[w].cur})' = Owners({f \in Keys : f <= th[w].cur})
      BY <2>2, <2>3, <3>1 DEF Owners
    <3>3. BookOK(th[w])'
      BY <1>1, <2>2, <3>1, <3>2 DEF BookOK, Parting
    <3> QED
      BY <2>2, <3>3, BooksBy
  <2>7. CASE Looped(w) /\ th[w].pc # "show"
    BY <2>2, <2>7, SameBooks DEF Looped
  <2>8. CASE Looped(w) /\ th[w].pc = "show"
    <3>1. PICK k \in Fds : k = th'[w].cur /\ IsNext(w, k)
      BY <2>8 DEF Looped
    <3>2. \A f \in Keys : f <= k <=> f <= th[w].cur \/ f = k
      BY <1>1, <3>1, NextOnly
    <3>3. k \in Keys
      BY <1>1, <3>1, NextOnly
    <3>4. th'[w].out.rows = Owners({f \in Keys : f <= th[w].cur}) \union {clients[k].origin}
      BY <1>1, <2>8, <3>1 DEF Looped, BookOK
    <3>5. Owners({f \in Keys : f <= th[w].cur})' = Owners({f \in Keys : f <= th[w].cur}) \union {clients[k].origin}
      BY <2>2, <2>3, <3>1, <3>2, <3>3 DEF Owners
    <3>6. BookOK(th[w])'
      BY <2>8, <3>4, <3>5 DEF BookOK, Parting, Looped
    <3> QED
      BY <2>2, <3>6, BooksBy
  <2> QED
    BY <2>1, <2>4, <2>5, <2>6, <2>7, <2>8
<1> QED
  BY <1>2, <1>3

\* No client resets its connection in a step after which none has been reset.
LEMMA OutsideOrder ==
  ASSUME Orderly, ~Disturbed', NEW c \in Conns
  PROVE  ~ClientAbort(c) /\ ~ResetArrives(c)
<1>1. /\ conn \in [Conns -> ConnState]
      /\ conn'[c].peer \notin {"rsterr", "rst"}
  BY Types DEF Orderly, Disturbed, ResetConns
<1> QED
  BY <1>1, SMTT(30) DEF ClientAbort, ResetArrives, PeerBecomes, ConnState

\* A client that has hung up says no more.
LEMMA OutsideBooks ==
  ASSUME OneWorker, Orderly, Books, Outside, ~Disturbed'
  PROVE  Books'
<1>1. PICK c \in Conns : Environment(c)
  BY DEF Outside
<1>2. UNCHANGED <<clients, th>>
  BY DEF Outside, regVars
<1>3. \A d \in Conns : conn[d].peer \in {"fin", "poked"} => conn'[d].peer = conn[d].peer /\ conn'[d].rx = conn[d].rx
  BY <1>1, OutsideOrder, Types DEF Orderly, Environment, Connect, ClientSend, ClientClose,
                                   PeerBecomes, ConnState
<1>4. ASSUME NEW w \in Workers, th[w].pc \in {"close", "readname", "erase"}
      PROVE  clients[th[w].fd].origin \in Conns
  <2>1. th[w].fd \in Keys
    <3>1. CASE th[w].pc \in {"close", "readname"}
      BY <3>1, Listed DEF Orderly, Serving
    <3>2. CASE th[w].pc = "erase"
      BY <3>2 DEF Orderly, RegInv, PendingOK
    <3> QED
      BY <1>4, <3>1, <3>2
  <2> QED
    BY <2>1 DEF Books, OneEntryEach
<1>5. UNCHANGED Keys
  BY <1>2 DEF Keys
<1>6. ASSUME NEW w \in Workers
      PROVE  BookOK(th[w])'
  <2>1. BookOK(th[w])
    BY DEF Books
  <2>2. Parting(th[w])'
    BY <1>2, <1>3, <1>4, <2>1 DEF BookOK, Parting
  <2>3. Owners({f \in Keys : f <= th[w].cur})' = Owners({f \in Keys : f <= th[w].cur})
    BY <1>2, <1>5 DEF Owners
  <2> QED
    BY <1>2, <2>1, <2>2, <2>3 DEF BookOK
<1> QED
  BY <1>2, <1>5, <1>6 DEF Books, OneEntryEach

\* Whatever happens.
LEMMA NextBooks ==
  ASSUME OneWorker, Orderly, Books, [Next]_vars, ~Disturbed'
  PROVE  Books'
<1>1. CASE \E w \in Workers : Worker(w)
  <2>1. PICK w \in Workers : Worker(w)
    BY <1>1
  <2>2. ~ErrClose(w) /\ ~Blocked(w)
    BY DEF ErrClose, Blocked, At, Orderly, Tidy, ErrsOK, Base, PlaceOK
  <2> QED
    BY <2>1, <2>2, MapBooks, BetweenBooks, ReadBooks, TalkBooks DEF Worker
<1>2. CASE RaceCrash \/ MainJoin \/ UNCHANGED vars
  <2>1. UNCHANGED <<conn, clients, th>>
    BY <1>2 DEF RaceCrash, Die, MainJoin, vars, netVars, regVars
  <2> QED
    BY <2>1 DEF Books, OneEntryEach, BookOK, Parting, Keys, Owners
<1> QED
  BY <1>1, <1>2, OutsideBooks DEF Next

\* There is nothing in them at the start.
LEMMA InitBooks ==
  ASSUME Init
  PROVE  Books
<1>1. Keys = {} /\ \A w \in Workers : th[w].pc = "lock"
  BY DEF Init, Keys, IdleThread
<1> QED
  BY <1>1 DEF Books, OneEntryEach, BookOK, Parting

-----------------------------------------------------------------------------
(* What the room sees of the server.                                       *)

\* The places where a text of the client's is in hand, and those where something is announced.
Holding    == {"recv", "close", "readname", "erase", "dispatch", "setnick", "talk"}
Announcing == {"welcome", "say", "bcast", "private", "show"}

LEMMA TheOne ==
  ASSUME OneWorker, NEW w \in Workers
  PROVE  TheWorker = w /\ me = th[w] /\ me' = th'[w]
<1>1. TheWorker \in Workers
  BY DEF TheWorker
<1>2. TheWorker = w
  BY <1>1 DEF OneWorker
<1> QED
  BY <1>2 DEF me

\* The entry of a user is its only one.
LEMMA EntryIs ==
  ASSUME OneEntryEach, NEW f \in Keys
  PROVE  /\ clients[f].origin \in Conns /\ clients[f].origin \in Registered
         /\ EntriesOf(clients[f].origin) = {f}
         /\ Nicks[clients[f].origin] = clients[f].nick
<1>1. clients[f].origin \in Conns /\ EntriesOf(clients[f].origin) = {f}
  BY DEF OneEntryEach, EntriesOf
<1>2. clients[f].origin \in Registered
  BY <1>1 DEF Registered
<1>3. EntryOf(clients[f].origin) = f
  BY <1>1 DEF EntryOf
<1> QED
  BY <1>1, <1>2, <1>3 DEF Nicks

\* The books of the room are read off the map.
LEMMA MapSeen ==
  ASSUME UNCHANGED clients
  PROVE  UNCHANGED <<Keys, Registered, Nicks>> /\ \A c : EntriesOf(c)' = EntriesOf(c)
<1>1. UNCHANGED Keys
  BY DEF Keys
<1>2. \A c : EntriesOf(c)' = EntriesOf(c)
  BY <1>1 DEF EntriesOf
<1>3. UNCHANGED Registered
  BY <1>2 DEF Registered
<1>4. \A c : EntryOf(c)' = EntryOf(c)
  BY <1>2 DEF EntryOf
<1>5. UNCHANGED Nicks
  BY <1>3, <1>4 DEF Nicks
<1> QED
  BY <1>1, <1>2, <1>3, <1>5

\* Nobody has the floor when nothing is announced.
LEMMA FloorIdle ==
  ASSUME OneWorker, NEW w \in Workers
  PROVE  /\ th[w].pc \notin Announcing => Floor = Idle
         /\ th'[w].pc \notin Announcing => Floor' = Idle
<1>1. me = th[w] /\ me' = th'[w]
  BY TheOne
<1> QED
  BY <1>1 DEF Floor, Announcing

\* What is in hand stays so.
HandKept(w) ==
  \/ th[w].buf = <<>> /\ th'[w].buf = <<>>
  \/ th[w].pc \notin Holding /\ th'[w].pc \notin Holding
  \/ /\ th[w].pc \in Holding /\ th'[w].pc \in Holding
     /\ th'[w].fd = th[w].fd /\ th'[w].buf = th[w].buf

LEMMA HandSeen ==
  ASSUME OneWorker, NEW w \in Workers, UNCHANGED clients, HandKept(w),
         \A c \in Conns : conn'[c].rx = conn[c].rx
  PROVE  UNCHANGED Unheard
<1>1. me = th[w] /\ me' = th'[w]
  BY TheOne
<1>2. \A c : EntriesOf(c)' = EntriesOf(c)
  BY MapSeen
<1>3. \A c \in Conns : InHand(c)' = InHand(c)
  BY <1>1, <1>2 DEF InHand, HandKept, Holding
<1> QED
  BY <1>3 DEF Unheard

\* What nobody in the room can notice.
LEMMA Unnoticed ==
  ASSUME UNCHANGED <<Registered, Nicks, Unheard, Floor, HungUp, Inboxes>>
  PROVE  UNCHANGED Book!roomVars
BY DEF Book!roomVars

\* Nor a step between announcements that leaves the map, what is in hand and the clients' ends
\* as they are.
LEMMA Unseen ==
  ASSUME OneWorker, NEW w \in Workers, UNCHANGED clients, HandKept(w),
         th[w].pc \notin Announcing, th'[w].pc \notin Announcing,
         \A c \in Conns : /\ conn'[c].rx = conn[c].rx /\ conn'[c].peer = conn[c].peer
                          /\ conn'[c].inbox = conn[c].inbox
  PROVE  UNCHANGED Book!roomVars
<1>1. UNCHANGED <<Registered, Nicks, Unheard, Floor>>
  BY MapSeen, HandSeen, FloorIdle
<1>2. UNCHANGED <<HungUp, Inboxes>>
  BY DEF HungUp, Inboxes
<1> QED
  BY <1>1, <1>2, Unnoticed

\* Nor one that changes neither the worker nor the map nor a connection.
LEMMA OutsideSeen ==
  ASSUME OneWorker, Workers # {}, UNCHANGED <<clients, th>>
  PROVE  UNCHANGED <<Registered, Nicks, Floor>> /\ \A c \in Conns : InHand(c)' = InHand(c)
<1>1. PICK w \in Workers : TheWorker = w
  BY TheOne
<1>2. UNCHANGED <<Keys, Registered, Nicks>> /\ \A c : EntriesOf(c)' = EntriesOf(c)
  BY MapSeen
<1>3. UNCHANGED me
  BY DEF me
<1>4. \A c \in Conns : InHand(c)' = InHand(c)
  BY <1>2, <1>3 DEF InHand
<1>5. UNCHANGED Floor
  BY <1>2, <1>3 DEF Floor, Pending, Ahead, Owners
<1> QED
  BY <1>2, <1>4, <1>5

LEMMA QuietRoom ==
  ASSUME OneWorker, Workers # {}, UNCHANGED <<conn, clients, th>>
  PROVE  UNCHANGED Book!roomVars
<1>1. UNCHANGED <<Registered, Nicks, Floor>> /\ \A c \in Conns : InHand(c)' = InHand(c)
  BY OutsideSeen
<1> QED
  BY <1>1, Unnoticed DEF Unheard, HungUp, Inboxes

\* What a send does to its receiver, who has an open descriptor and has not reset it.
LEMMA TellsOne ==
  ASSUME Orderly, NEW w \in Workers, NEW k \in Fds, IsOpen(k), NEW msg \in Notice, NEW t,
         Send(w, k, msg, t)
  PROVE  /\ th'[w] = t /\ UNCHANGED <<clients, HungUp>>
         /\ \A c \in Conns : conn'[c].rx = conn[c].rx
         /\ Inboxes' \in Book!Told(sock[k], msg)
<1>1. IInv /\ ResetConns = {}
  BY DEF Orderly
<1>2. PICK u \in Conns : u = sock[k]
  BY <1>1, Types
<1>3. /\ conn \in [Conns -> ConnState] /\ conn[u].peer \in {"idle", "up", "fin", "poked"}
  BY <1>1, Types DEF ResetConns, ConnState
<1>4. ~Waiting(u)
  BY <1>2 DEF Orderly, SocketsOK
<1>5. conn[u].peer \in {"up", "fin", "poked"}
  BY <1>3, <1>4 DEF Waiting
<1>6. ~SendFails(k) /\ ~SendBroken(k)
  BY <1>2, <1>5 DEF SendFails, SendBroken
<1>7. Become(w, t) /\ UNCHANGED clients
      /\ \/ \E part \in Portions(k, msg) : conn' = Sent(u, part)
         \/ UNCHANGED conn /\ u \in Slow
  BY <1>2, <1>6 DEF Send, regVars, SendFull
<1>8. th'[w] = t
  BY <1>1, <1>7, Becomes
<1>9. CASE UNCHANGED conn /\ u \in Slow
  BY <1>2, <1>7, <1>8, <1>9 DEF HungUp, Inboxes, Book!Told
<1>10. ASSUME NEW part, conn' = Sent(u, part),
              part = msg \/ (part = [msg EXCEPT !.cut = TRUE] /\ u \in Slow)
       PROVE  UNCHANGED HungUp /\ Inboxes' \in Book!Told(u, msg)
              /\ \A c \in Conns : conn'[c].rx = conn[c].rx
  <2>1. /\ \A c \in Conns \ {u} : conn'[c] = conn[c]
        /\ conn'[u].rx = conn[u].rx
        /\ conn'[u].peer = IF conn[u].peer = "fin" THEN "poked" ELSE conn[u].peer
        /\ conn'[u].inbox = IF conn[u].peer = "up" THEN Append(conn[u].inbox, part) ELSE conn[u].inbox
    BY <1>3, <1>10 DEF Sent, ConnState
  <2>2. UNCHANGED HungUp
    <3>1. \A c \in Conns : conn'[c].peer \notin {"idle", "up"} <=> conn[c].peer \notin {"idle", "up"}
      BY <1>5, <2>1
    <3> QED
      BY <3>1 DEF HungUp
  <2>3. u \in HungUp <=> conn[u].peer # "up"
    BY <1>5 DEF HungUp
  <2>4. CASE conn[u].peer = "up"
    <3>1. Inboxes' = [Inboxes EXCEPT ![u] = Append(@, part)]
      BY <2>1, <2>4 DEF Inboxes
    <3>2. u \notin HungUp
      BY <2>3, <2>4
    <3>3. Inboxes' \in Book!Told(u, msg)
      BY <1>10, <3>1, <3>2 DEF Book!Told
    <3> QED
      BY <2>1, <2>2, <3>3
  <2>5. CASE conn[u].peer # "up"
    <3>1. UNCHANGED Inboxes
      BY <2>1, <2>5 DEF Inboxes
    <3> QED
      BY <2>1, <2>2, <2>3, <2>5, <3>1 DEF Book!Told
  <2> QED
    BY <2>4, <2>5
<1>11. \A part \in Portions(k, msg) : part = msg \/ (part = [msg EXCEPT !.cut = TRUE] /\ u \in Slow)
  BY <1>2 DEF Portions, SendFull
<1> QED
  BY <1>2, <1>7, <1>8, <1>9, <1>10, <1>11

-----------------------------------------------------------------------------
(* The steps nobody in the room notices.                                   *)

\* A step that changes no connection.
LEMMA UnseenQuiet ==
  ASSUME OneWorker, NEW w \in Workers, UNCHANGED <<conn, clients>>, HandKept(w),
         th[w].pc \notin Announcing, th'[w].pc \notin Announcing
  PROVE  UNCHANGED Book!roomVars
BY Unseen

\* The steps between two events, and those that open a connection.
LEMMA BetweenRoom ==
  ASSUME OneWorker, Orderly, HomeInv, NEW w \in Workers,
         \/ Lock(w) \/ EpollWait(w) \/ EpollInterrupted(w) \/ Unlock(w) \/ NextEvent(w)
         \/ CheckEvent(w) \/ Accept(w) \/ AddFd(w) \/ SetNonblocking(w)
  PROVE  UNCHANGED Book!roomVars
<1>1. IInv /\ Base
  BY DEF Orderly
<1>2. CASE Lock(w) \/ EpollWait(w) \/ EpollInterrupted(w) \/ Unlock(w) \/ NextEvent(w) \/ CheckEvent(w)
  <2>1. UNCHANGED <<conn, clients>> /\ th'[w].buf = th[w].buf
    BY <1>1, <1>2, LoopMoves, Polls DEF netVars, regVars
  <2>2. th'[w].pc \in {"wait", "unlock", "done", "next", "lock", "check", "errclose", "accept", "recv"}
    <3>1. CASE Lock(w) \/ CheckEvent(w)
      BY <1>1, <3>1, Goes DEF Lock, CheckEvent
    <3> QED
      BY <1>1, <1>2, <3>1, LoopMoves, Polls
  <2>3. th[w].pc \in {"lock", "wait", "unlock", "next", "check"}
    BY <1>2 DEF Lock, EpollWait, EpollInterrupted, Unlock, NextEvent, CheckEvent, At
  <2>4. th[w].buf = <<>>
    BY <2>3 DEF HomeInv, ThreadsHome, ThreadHome, InHandler, InBatch, PCs
  <2> QED
    BY <2>1, <2>2, <2>3, <2>4, UnseenQuiet DEF HandKept, Announcing
<1>3. CASE Accept(w)
  <2>1. /\ UNCHANGED <<conn, clients>> /\ th[w].pc = "accept"
        /\ th'[w].pc \in {"accept", "insert"}
    BY <1>1, <1>3, Accepted DEF regVars, Die
  <2> QED
    BY <2>1, UnseenQuiet DEF HandKept, Holding, Announcing
<1>4. CASE AddFd(w) \/ SetNonblocking(w)
  <2>1. /\ UNCHANGED clients /\ th[w].pc \in {"addfd", "nonblock"} /\ th'[w].pc \in {"nonblock", "next"}
        /\ sock[th[w].fd] \in Conns
        /\ \/ conn' = [conn EXCEPT ![sock[th[w].fd]].watch = th[w].fd]
           \/ conn' = [conn EXCEPT ![sock[th[w].fd]].nonblock = TRUE]
    BY <1>1, <1>4, Opens, Goes, Returns DEF AddFd, SetNonblocking, At, regVars
  <2>2. PICK k \in Conns : \/ conn' = [conn EXCEPT ![k].watch = th[w].fd]
                          \/ conn' = [conn EXCEPT ![k].nonblock = TRUE]
    BY <2>1
  <2>3. \A c \in Conns : /\ conn'[c].rx = conn[c].rx /\ conn'[c].peer = conn[c].peer
                         /\ conn'[c].inbox = conn[c].inbox
    <3>1. CASE conn' = [conn EXCEPT ![k].watch = th[w].fd]
      BY <1>1, <3>1, Types DEF ConnState
    <3>2. CASE conn' = [conn EXCEPT ![k].nonblock = TRUE]
      BY <1>1, <3>2, Types DEF ConnState
    <3> QED
      BY <2>2, <3>1, <3>2
  <2> QED
    BY <2>1, <2>3, Unseen DEF HandKept, Holding, Announcing
<1> QED
  BY <1>2, <1>3, <1>4

\* A text that is read or told apart, and a parting that is not over.
LEMMA PartingRoom ==
  ASSUME OneWorker, Orderly, NEW w \in Workers, CloseConn(w) \/ ReadName(w) \/ Dispatch(w)
  PROVE  UNCHANGED Book!roomVars
<1>1. IInv /\ Base /\ RegInv
  BY DEF Orderly
<1>2. CASE CloseConn(w)
  <2>1. /\ th[w].pc = "close" /\ Close(th[w].fd) /\ UNCHANGED clients
        /\ th'[w].pc = "readname" /\ th'[w].fd = th[w].fd /\ th'[w].buf = th[w].buf
    BY <1>1, <1>2, Closing, Goes DEF regVars, Same
  <2>2. \A c \in Conns : /\ conn'[c].rx = conn[c].rx /\ conn'[c].peer = conn[c].peer
                         /\ conn'[c].inbox = conn[c].inbox
    BY <1>1, <2>1, Types DEF Close, ConnState
  <2> QED
    BY <2>1, <2>2, Unseen DEF HandKept, Holding, Announcing
<1>3. CASE ReadName(w)
  <2>1. th[w].pc = "readname" /\ UNCHANGED conn /\ clients' = Touched(th[w].fd)
    BY <1>3 DEF ReadName, At, netVars
  <2>2. /\ th'[w].pc = "erase" /\ th'[w].fd = th[w].fd /\ th'[w].buf = th[w].buf
        /\ UNCHANGED clients
    BY <1>1, <1>3, <2>1, SpeakMoves, Listed DEF Same
  <2> QED
    BY <2>1, <2>2, UnseenQuiet DEF HandKept, Holding, Announcing
<1>4. CASE Dispatch(w)
  <2>1. th[w].pc = "dispatch" /\ UNCHANGED conn
    BY <1>4 DEF Dispatch, At, netVars
  <2>2. UNCHANGED clients
    BY <1>1, <1>4, <2>1, Listed DEF Dispatch, Serving
  <2>3. CASE th[w].buf = <<>> /\ Return(w)
    <3>1. th'[w].pc = "next" /\ th'[w].buf = <<>>
      BY <1>1, <2>3, Returns
    <3> QED
      BY <2>1, <2>2, <2>3, <3>1, UnseenQuiet DEF HandKept, Announcing
  <2>4. CASE Goto(w, "talk") \/ Goto(w, "setnick")
    <3>1. th'[w].pc \in {"talk", "setnick"} /\ th'[w].fd = th[w].fd /\ th'[w].buf = th[w].buf
      BY <1>1, <2>4, Goes DEF Same
    <3> QED
      BY <2>1, <2>2, <3>1, UnseenQuiet DEF HandKept, Holding, Announcing
  <2>5. (th[w].buf = <<>> /\ Return(w)) \/ Goto(w, "talk") \/ Goto(w, "setnick")
    BY <1>4 DEF Dispatch
  <2> QED
    BY <2>3, <2>4, <2>5
<1> QED
  BY <1>2, <1>3, <1>4

\* A message that is taken moves from the socket into the text.
LEMMA TakeConcat ==
  ASSUME NEW S, NEW s \in Seq(S), NEW r \in Seq(S), r # <<>>
  PROVE  Append(s, Head(r)) \o Tail(r) = s \o r
<1>1. /\ Head(r) \in S /\ Tail(r) \in Seq(S) /\ Len(Tail(r)) = Len(r) - 1
      /\ \A i \in 1..Len(r) - 1 : Tail(r)[i] = r[i + 1]
      /\ Len(r) \in Nat \ {0} /\ Head(r) = r[1]
  BY HeadTailProperties, EmptySeq
<1>2. Append(s, Head(r)) \in Seq(S) /\ Len(Append(s, Head(r))) = Len(s) + 1 /\ Len(s) \in Nat
  BY <1>1
<1>3. /\ Append(s, Head(r)) \o Tail(r) \in Seq(S) /\ s \o r \in Seq(S)
      /\ Len(Append(s, Head(r)) \o Tail(r)) = Len(s) + Len(r) /\ Len(s \o r) = Len(s) + Len(r)
  BY <1>1, <1>2, ConcatProperties
<1>4. ASSUME NEW i \in 1..Len(s \o r)
      PROVE  (Append(s, Head(r)) \o Tail(r))[i] = (s \o r)[i]
  BY <1>1, <1>2, <1>3, ConcatProperties
<1> QED
  BY <1>3, <1>4, SeqEqual

LEMMA RecvRoom ==
  ASSUME OneWorker, Orderly, Books, NEW w \in Workers, Recv(w)
  PROVE  UNCHANGED Book!roomVars
<1>1. IInv /\ SocketsOK /\ Base /\ RegInv /\ ResetConns = {} /\ OneEntryEach
  BY DEF Orderly, Books
<1>2. PICK c \in Conns : c = sock[th[w].fd]
  BY <1>1, Recvs
<1>3. /\ th[w].pc = "recv" /\ UNCHANGED clients
      /\ (HasInput(c) /\ RecvFrom(w, c)) \/ (UNCHANGED conn /\ Goto(w, "dispatch"))
  BY <1>1, <1>2, Recvs DEF At, regVars
<1>4. CASE UNCHANGED conn /\ Goto(w, "dispatch")
  <2>1. th'[w].pc = "dispatch" /\ th'[w].fd = th[w].fd /\ th'[w].buf = th[w].buf
    BY <1>1, <1>4, Goes DEF Same
  <2> QED
    BY <1>3, <1>4, <2>1, UnseenQuiet DEF HandKept, Holding, Announcing
<1>5. CASE UNCHANGED conn /\ th'[w].pc = "close" /\ Same(th[w], th'[w]) /\ th'[w].buf = th[w].buf
  BY <1>3, <1>5, UnseenQuiet DEF HandKept, Holding, Announcing, Same
<1>6. CASE /\ conn[c].rx # <<>> /\ conn' = [conn EXCEPT ![c].rx = Tail(@)]
           /\ th'[w].pc = "recv" /\ Same(th[w], th'[w])
           /\ th'[w].buf = Append(th[w].buf, Head(conn[c].rx))
  <2>1. me = th[w] /\ me' = th'[w]
    BY TheOne
  <2>2. UNCHANGED <<Registered, Nicks>> /\ \A d : EntriesOf(d)' = EntriesOf(d)
    BY <1>3, MapSeen
  <2>3. th[w].fd \in Keys /\ clients[th[w].fd].origin = c
    BY <1>1, <1>2, <1>3, Listed DEF Serving
  <2>4. \A d : th[w].fd \in EntriesOf(d) <=> d = c
    BY <2>3 DEF EntriesOf
  <2>5. /\ InHand(c) = th[w].buf /\ InHand(c)' = th'[w].buf
        /\ \A d \in Conns \ {c} : InHand(d) = <<>> /\ InHand(d)' = <<>>
    <3>1. th[w].pc = "recv" /\ th'[w].pc = "recv" /\ th'[w].fd = th[w].fd
      BY <1>3, <1>6 DEF Same
    <3>2. \A d : InHand(d) = IF d = c THEN th[w].buf ELSE <<>>
      BY <2>1, <2>4, <3>1 DEF InHand
    <3>3. \A d : InHand(d)' = IF d = c THEN th'[w].buf ELSE <<>>
      BY <2>1, <2>2, <2>4, <3>1 DEF InHand
    <3> QED
      BY <3>2, <3>3
  <2>6. /\ \A d \in Conns : conn'[d].peer = conn[d].peer /\ conn'[d].inbox = conn[d].inbox
        /\ \A d \in Conns \ {c} : conn'[d] = conn[d]
        /\ conn'[c].rx = Tail(conn[c].rx)
        /\ conn[c].rx \in Seq(Msg) /\ th[w].buf \in Seq(Msg)
    BY <1>1, <1>6, Types DEF ConnState, Thread
  <2>7. th'[w].buf \o conn'[c].rx = th[w].buf \o conn[c].rx
    <3>1. PICK b \in Seq(Msg), r \in Seq(Msg) : b = th[w].buf /\ r = conn[c].rx /\ r # <<>>
      BY <1>6, <2>6
    <3>2. Append(b, Head(r)) \o Tail(r) = b \o r
      BY <3>1, TakeConcat
    <3> QED
      BY <1>6, <2>6, <3>1, <3>2
  <2>8. \A d \in Conns : InHand(d)' \o conn'[d].rx = InHand(d) \o conn[d].rx
    BY <2>5, <2>6, <2>7
  <2>9. UNCHANGED Unheard
    BY <2>8 DEF Unheard
  <2>10. UNCHANGED <<Floor, HungUp, Inboxes>>
    BY <1>3, <1>6, <2>6, FloorIdle DEF HungUp, Inboxes, Announcing
  <2> QED
    BY <2>2, <2>9, <2>10, Unnoticed
<1>7. ~(conn[c].peer = "rsterr")
  BY <1>1 DEF ResetConns
<1> QED
  BY <1>1, <1>3, <1>4, <1>5, <1>6, <1>7, RecvMoves

-----------------------------------------------------------------------------
(* A user enters.                                                          *)

LEMMA EntryMade ==
  ASSUME IInv, NEW f \in Fds, f \notin Keys, NEW c \in Conns,
         clients' = [clients EXCEPT ![f] = Fresh(c)],
         \A g \in Keys : clients[g].origin # c
  PROVE  /\ Keys' = Keys \union {f} /\ EntriesOf(c) = {} /\ EntriesOf(c)' = {f}
         /\ \A d \in Conns \ {c} : EntriesOf(d)' = EntriesOf(d)
         /\ Registered' = Registered \union {c} /\ c \notin Registered
         /\ UNCHANGED Nicks
<1>1. /\ \A g \in Fds \ {f} : clients'[g] = clients[g]
      /\ clients'[f] = Fresh(c) /\ clients'[f] # NoEntry
      /\ clients'[f].origin = c /\ clients'[f].nick = <<>>
  <2>1. Fresh(c) \in ClientInfo
    BY DEF Fresh, ClientInfo
  <2> QED
    BY <2>1, Types, EntryAssumption DEF Fresh
<1>2. Keys' = Keys \union {f}
  BY <1>1 DEF Keys
<1>3. \A g \in Keys : g \in Fds /\ g # f
  BY DEF Keys
<1>4. EntriesOf(c) = {} /\ EntriesOf(c)' = {f}
  BY <1>1, <1>2, <1>3 DEF EntriesOf
<1>5. \A d \in Conns \ {c} : EntriesOf(d)' = EntriesOf(d)
  BY <1>1, <1>2, <1>3 DEF EntriesOf
<1>6. Registered' = Registered \union {c} /\ c \notin Registered
  BY <1>4, <1>5 DEF Registered
<1>7. \A d \in Conns \ {c} : EntryOf(d)' = EntryOf(d)
  BY <1>5 DEF EntryOf
<1>8. EntryOf(c)' = f
  BY <1>4 DEF EntryOf
<1>9. \A d \in Registered : d \in Conns /\ EntryOf(d) \in Keys
  BY DEF Registered, EntryOf, EntriesOf
<1>10. UNCHANGED Nicks
  <2>1. Nicks'[c] = <<>> /\ Nicks[c] = <<>>
    BY <1>1, <1>6, <1>8 DEF Nicks
  <2>2. ASSUME NEW d \in Conns \ {c}
        PROVE  Nicks'[d] = Nicks[d]
    <3>1. d \in Registered' <=> d \in Registered
      BY <1>6, <2>2
    <3>2. d \in Registered => clients'[EntryOf(d)] = clients[EntryOf(d)]
      BY <1>1, <1>3, <1>9
    <3> QED
      BY <1>7, <2>2, <3>1, <3>2 DEF Nicks
  <2>3. \A d \in Conns : Nicks'[d] = Nicks[d]
    BY <2>1, <2>2
  <2> QED
    BY <2>3 DEF Nicks
<1> QED
  BY <1>2, <1>4, <1>5, <1>6, <1>10

\* The entry of a new connection is its user's entrance.
LEMMA InsertRoom ==
  ASSUME OneWorker, Orderly, Books, NEW w \in Workers, Insert(w)
  PROVE  \E u \in Conns : Book!Enter(u)
<1>1. IInv /\ SocketsOK /\ Base /\ RegInv /\ PlaceOK(th[w]) /\ PendingOK(th[w]) /\ ResetConns = {}
  BY RegNow DEF Orderly, Base
<1>2. PICK f \in Fds : f = th[w].fd /\ IsOpen(f) /\ sock[f] \in Conns
  BY <1>1, Opens
<1>3. PICK c \in Conns : c = sock[f]
  BY <1>2
<1>4. /\ th[w].pc = "insert" /\ th[w].con = c /\ f \notin Keys
      /\ th'[w].pc = "addfd" /\ UNCHANGED conn
  BY <1>1, <1>2, <1>3, Goes DEF Insert, At, PlaceOK, PendingOK, netVars
<1>5. clients' = [clients EXCEPT ![f] = Fresh(c)]
  BY <1>2, <1>4 DEF Insert
<1>6. \A g \in Keys : clients[g].origin # c
  <2> TAKE g \in Keys
  <2>1. g \in Fds /\ g # f
    BY <1>4 DEF Keys
  <2>2. Exact(g)
    BY <1>1, <1>2, <1>4, <2>1, RegNow
  <2> QED
    BY <1>1, <1>2, <1>3, <2>1, <2>2 DEF Exact, SocketsOK
<1>7. /\ Registered' = Registered \union {c} /\ c \notin Registered
      /\ UNCHANGED Nicks
  BY <1>1, <1>4, <1>5, <1>6, EntryMade
<1>8. UNCHANGED Unheard
  <2>1. me = th[w] /\ me' = th'[w]
    BY TheOne
  <2>2. \A d \in Conns : InHand(d) = <<>> /\ InHand(d)' = <<>>
    BY <1>4, <2>1 DEF InHand
  <2> QED
    BY <1>4, <2>2 DEF Unheard
<1>9. Floor = Idle /\ Floor' = Idle
  BY <1>4, FloorIdle DEF Announcing
<1>10. UNCHANGED <<HungUp, Inboxes>>
  BY <1>4 DEF HungUp, Inboxes
<1> QED
  BY <1>7, <1>8, <1>9, <1>10 DEF Book!Enter

-----------------------------------------------------------------------------
(* A user chooses its name.                                                *)

LEMMA NickGiven ==
  ASSUME IInv, OneEntryEach, NEW f \in Keys, NEW text \in Seq(Msg),
         clients' = [clients EXCEPT ![f].nick = text, ![f].named = TRUE]
  PROVE  /\ UNCHANGED <<Keys, Registered>> /\ \A d : EntriesOf(d)' = EntriesOf(d)
         /\ \A g \in Keys : clients'[g].origin = clients[g].origin
         /\ clients'[f].nick = text
         /\ Nicks' = [Nicks EXCEPT ![clients[f].origin] = text]
<1>1. f \in Fds /\ clients[f] \in ClientInfo
  BY Types DEF Keys
<1>2. /\ \A g \in Fds \ {f} : clients'[g] = clients[g]
      /\ clients'[f].origin = clients[f].origin /\ clients'[f].nick = text
      /\ clients'[f] \in ClientInfo
  BY <1>1, Types DEF ClientInfo
<1>3. UNCHANGED Keys
  BY <1>1, <1>2, EntryAssumption DEF Keys
<1>4. \A g \in Keys : g \in Fds /\ clients'[g].origin = clients[g].origin
  BY <1>2 DEF Keys
<1>5. \A d : EntriesOf(d)' = EntriesOf(d)
  BY <1>3, <1>4 DEF EntriesOf
<1>6. UNCHANGED Registered /\ \A d : EntryOf(d)' = EntryOf(d)
  BY <1>5 DEF Registered, EntryOf
<1>7. PICK c \in Conns : c = clients[f].origin /\ c \in Registered /\ EntriesOf(c) = {f}
  BY EntryIs
<1>8. EntryOf(c) = f
  BY <1>7 DEF EntryOf
<1>9. Nicks'[c] = text
  BY <1>2, <1>6, <1>7, <1>8 DEF Nicks
<1>10. ASSUME NEW d \in Conns \ {c}
       PROVE  Nicks'[d] = Nicks[d]
  <2>1. ASSUME d \in Registered
        PROVE  EntryOf(d) \in Keys /\ EntryOf(d) # f
    BY <1>7, <2>1 DEF Registered, EntryOf, EntriesOf
  <2>2. d \in Registered => clients'[EntryOf(d)] = clients[EntryOf(d)]
    BY <1>2, <1>4, <2>1
  <2>3. EntryOf(d)' = EntryOf(d) /\ (d \in Registered' <=> d \in Registered)
    BY <1>6
  <2>4. /\ Nicks[d] = IF d \in Registered THEN clients[EntryOf(d)].nick ELSE <<>>
        /\ Nicks'[d] = IF d \in Registered' THEN clients'[EntryOf(d)'].nick ELSE <<>>
    BY DEF Nicks
  <2> QED
    BY <2>2, <2>3, <2>4
<1>11. Nicks' = [Nicks EXCEPT ![c] = text]
  BY <1>9, <1>10 DEF Nicks
<1> QED
  BY <1>2, <1>3, <1>4, <1>5, <1>6, <1>7, <1>11

\* A text that the worker puts to use is what its client sent first, all it had in hand.
LEMMA TextSplit ==
  ASSUME NEW s \in Seq(Msg), NEW r \in Seq(Msg), s # <<>>
  PROVE  /\ Len(s) \in 1..Len(s \o r)
         /\ SubSeq(s \o r, 1, Len(s)) = s
         /\ SubSeq(s \o r, Len(s) + 1, Len(s \o r)) = r
<1>1. Len(s) \in Nat \ {0} /\ Len(r) \in Nat /\ Len(s \o r) = Len(s) + Len(r)
  BY EmptySeq, ConcatProperties
<1>2. SubSeq(s \o r, 1, Len(s)) = s
  BY <1>1, SubSeqOfConcat1, SubSeqFull
<1>3. SubSeq(s \o r, Len(s) + 1, Len(s \o r)) = r
  <2>1. CASE r = <<>>
    <3>1. Len(s \o r) < Len(s) + 1
      BY <1>1, <2>1, EmptySeq
    <3> QED
      BY <1>1, <2>1, <3>1, SubSeqEmpty
  <2>2. CASE r # <<>>
    <3>1. Len(r) \in Nat \ {0}
      BY <2>2, EmptySeq
    <3>2. SubSeq(s \o r, Len(s) + 1, Len(s) + Len(r)) = SubSeq(r, 1, Len(r))
      BY <1>1, <3>1, SubSeqOfConcat2
    <3> QED
      BY <1>1, <3>2, SubSeqFull
  <2> QED
    BY <2>1, <2>2
<1> QED
  BY <1>1, <1>2, <1>3

LEMMA TextUsed ==
  ASSUME OneWorker, IInv, NEW w \in Workers, th[w].pc \in {"setnick", "talk"}, th[w].fd \in Keys,
         NEW u \in Conns, clients[th[w].fd].origin = u, th[w].buf # <<>>, th'[w].pc \notin Holding,
         \A d \in Conns : conn'[d].rx = conn[d].rx
  PROVE  /\ Len(th[w].buf) \in 1..Len(Unheard[u])
         /\ Book!Taken(u, Len(th[w].buf)) = th[w].buf
         /\ Unheard' = [Unheard EXCEPT ![u] = SubSeq(@, Len(th[w].buf) + 1, Len(@))]
<1>1. me = th[w] /\ me' = th'[w]
  BY TheOne
<1>2. \A d : th[w].fd \in EntriesOf(d) <=> d = u
  BY DEF EntriesOf
<1>3. /\ InHand(u) = th[w].buf
      /\ \A d \in Conns \ {u} : InHand(d) = <<>>
      /\ \A d \in Conns : InHand(d)' = <<>>
  BY <1>1, <1>2 DEF InHand, Holding
<1>4. PICK s \in Seq(Msg), r \in Seq(Msg) : s = th[w].buf /\ r = conn[u].rx /\ s # <<>>
  BY Types DEF Thread, ConnState
<1>5. Unheard[u] = s \o r
  BY <1>3, <1>4 DEF Unheard
<1>6. /\ Len(s) \in 1..Len(s \o r)
      /\ SubSeq(s \o r, 1, Len(s)) = s
      /\ SubSeq(s \o r, Len(s) + 1, Len(s \o r)) = r
  BY <1>4, TextSplit
<1>7. Unheard'[u] = r
  <2>1. <<>> \o r = r
    BY <1>4, ConcatEmptySeq
  <2> QED
    BY <1>3, <1>4, <2>1 DEF Unheard
<1>8. \A d \in Conns \ {u} : Unheard'[d] = Unheard[d]
  BY <1>3 DEF Unheard
<1>9. Unheard' = [Unheard EXCEPT ![u] = SubSeq(@, Len(s) + 1, Len(@))]
  BY <1>5, <1>6, <1>7, <1>8, ZenonT(30) DEF Unheard
<1> QED
  BY <1>4, <1>5, <1>6, <1>9 DEF Book!Taken

\* The users are the owners of the entries, each of its own.
LEMMA OwnersAre ==
  ASSUME OneEntryEach
  PROVE  /\ Owners(Keys) = Registered
         /\ \A fds \in SUBSET Keys : Owners(fds) \subseteq Registered
         /\ \A fds \in SUBSET Keys : \A k \in Keys : Owners(fds \ {k}) = Owners(fds) \ {clients[k].origin}
<1>1. \A f \in Keys : clients[f].origin \in Registered
  BY EntryIs
<1>2. \A c \in Registered : \E f \in Keys : clients[f].origin = c
  BY DEF Registered, EntriesOf
<1>3. Owners(Keys) = Registered
  BY <1>1, <1>2 DEF Owners
<1>4. \A fds \in SUBSET Keys : Owners(fds) \subseteq Registered
  BY <1>1 DEF Owners
<1>5. \A fds \in SUBSET Keys : \A k \in Keys : Owners(fds \ {k}) = Owners(fds) \ {clients[k].origin}
  BY DEF Owners, OneEntryEach
<1> QED
  BY <1>3, <1>4, <1>5

\* Without resets an open descriptor's entry tells what its own client has said.
LEMMA SeatNow ==
  ASSUME Orderly, SpeechInv, NEW w \in Workers, NEW f \in Fds, IsOpen(f)
  PROVE  EntryOK(clients[f], sock[f], Taken(conn[sock[f]]), Held(th[w], f))
<1>1. SeatOK(f, th[w]) /\ Gone = {}
  BY DEF SpeechInv, SpeechOK, Orderly, Gone
<1> QED
  BY <1>1 DEF SeatOK, Inherited

\* The text that names a client is its user's choice of a name.
LEMMA SetNickRoom ==
  ASSUME OneWorker, Orderly, SpeechInv, Books, NEW w \in Workers, SetNick(w)
  PROVE  \E u \in Conns : \E k \in 1..Len(Unheard[u]) : Book!ChooseName(u, k)
<1>1. IInv /\ Base /\ RegInv /\ OneEntryEach /\ PartOK(th[w]) /\ ResetConns = {}
  BY DEF Orderly, Books, SpeechInv, SpeechOK
<1>2. th[w].pc = "setnick" /\ UNCHANGED conn
  BY DEF SetNick, At, netVars
<1>3. PICK f \in Keys : f = th[w].fd /\ Touched(f) = clients /\ clients[f].origin = sock[f] /\ IsOpen(f)
  BY <1>1, <1>2, Listed DEF Serving, Base, PlaceOK
<1>4. PICK u \in Conns : u = clients[f].origin
  BY <1>1 DEF OneEntryEach
<1>5. /\ u \in Registered /\ Nicks[u] = clients[f].nick
  BY <1>1, <1>4, EntryIs
<1>6. th[w].buf # <<>> /\ th[w].buf \in Seq(Msg) /\ ~clients[f].named
  BY <1>1, <1>2, <1>3, Types DEF PartOK, Thread
<1>7. clients[f].nick = <<>>
  <2>1. EntryOK(clients[f], sock[f], Taken(conn[sock[f]]), Held(th[w], f))
    BY <1>3, SeatNow DEF Orderly, Keys
  <2>2. clients[f] # NoEntry
    BY DEF Keys
  <2> QED
    BY <1>6, <2>1, <2>2 DEF EntryOK
<1>8. clients' = [clients EXCEPT ![f].nick = th[w].buf, ![f].named = TRUE]
  BY <1>3 DEF SetNick
<1>9. th'[w].pc = "welcome" /\ th'[w].fd = f
  BY <1>1, <1>3, Goes DEF SetNick, Same
<1>10. /\ UNCHANGED <<Keys, Registered>> /\ clients'[f].nick = th[w].buf
       /\ \A g \in Keys : clients'[g].origin = clients[g].origin
       /\ Nicks' = [Nicks EXCEPT ![u] = th[w].buf]
  BY <1>1, <1>4, <1>6, <1>8, NickGiven
<1>11. /\ Len(th[w].buf) \in 1..Len(Unheard[u])
       /\ Book!Taken(u, Len(th[w].buf)) = th[w].buf
       /\ Unheard' = [Unheard EXCEPT ![u] = SubSeq(@, Len(th[w].buf) + 1, Len(@))]
  BY <1>1, <1>2, <1>3, <1>4, <1>6, <1>9, TextUsed DEF Holding
<1>12. Floor = Idle
  BY <1>2, FloorIdle DEF Announcing
<1>13. Owners(Keys \ {me.fd})' = Registered \ {u}
  <2>1. me'.fd = f
    BY <1>9, TheOne
  <2>2. Owners(Keys \ {me.fd})' = Owners(Keys \ {f})
    BY <1>10, <2>1 DEF Owners
  <2> QED
    BY <1>1, <1>4, <2>2, OwnersAre
<1>14. Floor' = [notice |-> Note("welcome", th[w].buf, <<>>, {}), left |-> Registered \ {u}]
  <2>1. me' = th'[w]
    BY TheOne
  <2> QED
    BY <1>9, <1>10, <1>13, <2>1 DEF Floor
<1>15. UNCHANGED <<HungUp, Inboxes>>
  BY <1>2 DEF HungUp, Inboxes
<1>16. Book!ChooseName(u, Len(th[w].buf))
  BY <1>5, <1>7, <1>10, <1>11, <1>12, <1>14, <1>15
     DEF Book!ChooseName, Book!Take, Book!Announcement, Book!Notice, Note
<1> QED
  BY <1>11, <1>16

-----------------------------------------------------------------------------
(* A user speaks.                                                          *)

\* The server and the room agree on the name a private message asks for.
LEMMA SameNames ==
  ASSUME NEW text
  PROVE  NamesRead(text) = Book!AskedFor(text)
<1>1. Unbroken(text) <=> ~\E i \in 2..Len(text) : text[i].form # "word"
  BY DEF Unbroken
<1>2. \A c : FirstWord(c) = Book!FirstWord(c)
  BY DEF FirstWord, Book!FirstWord
<1> QED
  BY <1>1, <1>2, Zenon DEF NamesRead, Book!AskedFor

LEMMA NamedOwners ==
  ASSUME OneEntryEach, NEW nick
  PROVE  Owners({f \in Keys : clients[f].nick = nick}) = {v \in Registered : Nicks[v] = nick}
<1>1. \A f \in Keys : /\ clients[f].origin \in Registered
                      /\ Nicks[clients[f].origin] = clients[f].nick
  BY EntryIs
<1>2. \A v \in Registered : \E f \in Keys : clients[f].origin = v
  BY DEF Registered, EntriesOf
<1>3. \A v \in Registered : (\E f \in Keys : clients[f].origin = v /\ clients[f].nick = nick)
                              <=> Nicks[v] = nick
  BY <1>1, <1>2 DEF OneEntryEach
<1> QED
  BY <1>1, <1>3 DEF Owners

\* What a text that is no name is taken for.
LEMMA TextRouted ==
  ASSUME OneWorker, IInv, Tidy, OneEntryEach, NEW w \in Workers, UNCHANGED clients,
         NEW f \in Keys, f = th[w].fd, NEW u, u = clients[f].origin,
         th[w].pc = "talk", th'[w] \in Routed(th[w])
  PROVE  th'[w].pc \notin Holding /\ Floor' \in Book!Uttered(u, th[w].buf)
<1>1. /\ th[w] \in Thread /\ th[w].cur = 0
  BY Types DEF Tidy, LocalsOK
<1>2. PICK text : text = th[w].buf
  OBVIOUS
<1>3. /\ th'[w].fd = f /\ th'[w].buf = text /\ th'[w].cur = 0
      /\ \/ /\ IsPrivate(text) /\ th'[w].pc = "private"
            /\ \E nick \in NamesRead(text) : th'[w].out = Note("private", nick, text, {})
         \/ ~IsPrivate(text) /\ th'[w].pc = Route(text)
  <2>1. CASE IsPrivate(text)
    <3>1. PICK nick \in NamesRead(text) :
            th'[w] = [th[w] EXCEPT !.pc = "private", !.out = Note("private", nick, text, {})]
      BY <1>2, <2>1 DEF Routed
    <3> QED
      BY <1>1, <1>2, <2>1, <3>1 DEF Thread
  <2>2. CASE ~IsPrivate(text)
    <3>1. th'[w] = [th[w] EXCEPT !.pc = Route(text)]
      BY <1>2, <2>2 DEF Routed
    <3> QED
      BY <1>1, <1>2, <2>2, <3>1 DEF Thread
  <2> QED
    BY <2>1, <2>2
<1>4. TheWorker = w /\ me' = th'[w]
  BY TheOne
<1>5. UNCHANGED <<Keys, Registered, Nicks>>
  BY MapSeen
<1>6. Nicks[u] = clients[f].nick /\ u \in Registered
  BY EntryIs
<1>7. CASE Head(text).form = "show"
  <2>1. th'[w].pc = "show"
    BY <1>3, <1>7 DEF Route, IsPrivate
  <2>2. Owners({me.fd})' = {u}
    BY <1>3, <1>4 DEF Owners
  <2>3. Floor' = [notice |-> Note("users", <<>>, <<>>, Registered), left |-> {u}]
    BY <1>4, <1>5, <2>1, <2>2 DEF Floor
  <2> QED
    BY <1>2, <1>7, <2>1, <2>3 DEF Book!Uttered, Book!Announcement, Book!Notice, Note, Holding
<1>8. CASE IsPrivate(text)
  <2>1. PICK nick \in NamesRead(text) : th'[w].out = Note("private", nick, text, {})
    BY <1>3, <1>8
  <2>2. th'[w].pc = "private" /\ th'[w].out.nick = nick
    BY <1>3, <1>8, <2>1 DEF Note
  <2>3. Pending' = Keys
    <3>1. \A k \in Keys : k > 0
      BY SocketAssumption DEF Keys, Fds
    <3> QED
      BY <1>3, <1>4, <1>5, <3>1 DEF Pending, Ahead
  <2>4. Owners({k \in Pending : clients[k].nick = me.out.nick})' = {v \in Registered : Nicks[v] = nick}
    <3>1. Owners({k \in Pending : clients[k].nick = me.out.nick})' = Owners({k \in Keys : clients[k].nick = nick})
      BY <1>4, <2>2, <2>3 DEF Owners
    <3> QED
      BY <3>1, NamedOwners
  <2>5. Floor' = [notice |-> Note("private", nick, text, {}), left |-> {v \in Registered : Nicks[v] = nick}]
    BY <1>4, <2>1, <2>2, <2>4 DEF Floor
  <2>6. nick \in Book!AskedFor(text)
    BY <2>1, SameNames
  <2>7. Head(text).form # "show" /\ Head(text).form \in {"private", "nameless", "blanks"}
    BY <1>8 DEF IsPrivate
  <2>8. Floor' = Book!Announcement(Book!Notice("private", nick, text, {}), {v \in Registered : Nicks[v] = nick})
    BY <2>5 DEF Book!Announcement, Book!Notice, Note
  <2>9. Floor' \in Book!Uttered(u, text)
    BY <2>6, <2>7, <2>8 DEF Book!Uttered
  <2> QED
    BY <1>2, <2>2, <2>9 DEF Holding
<1>9. CASE Head(text).form # "show" /\ ~IsPrivate(text)
  <2>1. th'[w].pc = "say"
    BY <1>3, <1>9 DEF Route
  <2>2. Owners(Keys \ {me.fd})' = Registered \ {u}
    <3>1. Owners(Keys \ {me.fd})' = Owners(Keys \ {f})
      BY <1>3, <1>4, <1>5 DEF Owners
    <3> QED
      BY <3>1, OwnersAre
  <2>3. Floor' = [notice |-> Note("say", Nicks[u], text, {}), left |-> Registered \ {u}]
    BY <1>3, <1>4, <1>5, <1>6, <2>1, <2>2 DEF Floor
  <2> QED
    BY <1>2, <1>9, <2>1, <2>3 DEF Book!Uttered, Book!Announcement, Book!Notice, Note, Holding, IsPrivate
<1> QED
  BY <1>7, <1>8, <1>9

\* A text that is no name is what its user says.
LEMMA TalkRoom ==
  ASSUME OneWorker, Orderly, SpeechInv, Books, NEW w \in Workers, Talk(w)
  PROVE  \E u \in Conns : \E k \in 1..Len(Unheard[u]) : Book!Speak(u, k)
<1>1. IInv /\ Base /\ Tidy /\ RegInv /\ OneEntryEach /\ PartOK(th[w]) /\ ResetConns = {}
  BY DEF Orderly, Books, SpeechInv, SpeechOK
<1>2. th[w].pc = "talk"
  BY DEF Talk, At
<1>3. PICK f \in Keys : f = th[w].fd /\ f \in Fds /\ clients[f].origin = sock[f] /\ IsOpen(f)
  BY <1>1, <1>2, Listed DEF Serving, Base, PlaceOK
<1>4. PICK u \in Conns : u = clients[f].origin
  BY <1>1 DEF OneEntryEach
<1>5. u \in Registered /\ Nicks[u] = clients[f].nick
  BY <1>1, <1>4, EntryIs
<1>6. th[w].buf # <<>> /\ clients[f].named
  BY <1>1, <1>2, <1>3 DEF PartOK, Talking
<1>7. clients[f].nick # <<>>
  <2>1. EntryOK(clients[f], sock[f], Taken(conn[sock[f]]), Held(th[w], f))
    BY <1>3, SeatNow
  <2>2. clients[f] # NoEntry
    BY DEF Keys
  <2> QED
    BY <1>6, <2>1, <2>2 DEF EntryOK
<1> DEFINE caution == Note("caution", <<>>, <<>>, {})
<1>8. (\E k \in Keys : Keys = {k}) <=> Registered = {u}
  <2>1. ASSUME NEW k \in Keys, Keys = {k}
        PROVE  Registered = {u}
    <3>1. Registered = Owners({f})
      BY <1>1, <2>1, OwnersAre
    <3> QED
      BY <1>4, <3>1 DEF Owners
  <2>2. ASSUME Registered = {u}
        PROVE  Keys = {f}
    <3>1. \A g \in Keys : clients[g].origin = u
      BY <1>1, <2>2, EntryIs
    <3> QED
      BY <1>1, <1>4, <3>1 DEF OneEntryEach
  <2> QED
    BY <2>1, <2>2
<1>9. /\ th'[w] \in Routed(th[w]) /\ UNCHANGED <<clients, HungUp>>
      /\ \A c \in Conns : conn'[c].rx = conn[c].rx
      /\ Inboxes' \in IF Registered = {u} THEN Book!Told(u, caution) ELSE {Inboxes}
  <2>1. caution \in Notice
    BY <1>1, MadeNotices
  <2>2. CASE Registered = {u}
    <3>1. PICK t \in Routed(th[w]) : Send(w, f, caution, t)
      BY <1>3, <1>8, <2>2 DEF Talk
    <3> HIDE DEF caution
    <3> QED
      BY <1>3, <1>4, <2>1, <2>2, <3>1, TellsOne
  <2>3. CASE Registered # {u}
    <3>1. PICK t \in Routed(th[w]) : Become(w, t) /\ UNCHANGED <<conn, clients>>
      BY <1>8, <2>3 DEF Talk, netVars, regVars
    <3>2. th'[w] = t
      BY <1>1, <3>1, Becomes
    <3> QED
      BY <2>3, <3>1, <3>2 DEF HungUp, Inboxes
  <2> QED
    BY <2>2, <2>3
<1>10. th'[w].pc \notin Holding /\ Floor' \in Book!Uttered(u, th[w].buf)
  BY <1>1, <1>2, <1>3, <1>4, <1>9, TextRouted
<1>11. /\ Len(th[w].buf) \in 1..Len(Unheard[u])
       /\ Book!Taken(u, Len(th[w].buf)) = th[w].buf
       /\ Unheard' = [Unheard EXCEPT ![u] = SubSeq(@, Len(th[w].buf) + 1, Len(@))]
  <2>1. th'[w].pc \notin Holding /\ \A c \in Conns : conn'[c].rx = conn[c].rx
    BY <1>9, <1>10
  <2>2. /\ th[w].pc \in {"setnick", "talk"} /\ th[w].fd \in Keys
        /\ clients[th[w].fd].origin = u
    BY <1>2, <1>3, <1>4
  <2> QED
    BY <1>1, <1>6, <2>1, <2>2, TextUsed
<1>12. Floor = Idle
  BY <1>2, FloorIdle DEF Announcing
<1>13. UNCHANGED <<Registered, Nicks>>
  BY <1>9, MapSeen
<1>14. Book!Speak(u, Len(th[w].buf))
  <2>1. Book!Take(u, Len(th[w].buf))
    BY <1>5, <1>11, <1>12 DEF Book!Take
  <2>2. caution = Book!Notice("caution", <<>>, <<>>, {})
    BY DEF Note, Book!Notice
  <2> HIDE DEF caution
  <2> QED
    BY <1>5, <1>7, <1>9, <1>10, <1>11, <1>13, <2>1, <2>2 DEF Book!Speak
<1> QED
  BY <1>11, <1>14

-----------------------------------------------------------------------------
(* A user leaves.                                                          *)

LEMMA EntryGone ==
  ASSUME IInv, OneEntryEach, NEW f \in Keys, clients' = [clients EXCEPT ![f] = NoEntry]
  PROVE  /\ Keys' = Keys \ {f} /\ \A g \in Keys \ {f} : clients'[g] = clients[g]
         /\ Registered' = Registered \ {clients[f].origin}
         /\ Nicks' = [Nicks EXCEPT ![clients[f].origin] = <<>>]
<1>1. f \in Fds /\ \A g \in Fds \ {f} : clients'[g] = clients[g]
  BY Types DEF Keys
<1>2. Keys' = Keys \ {f} /\ \A g \in Keys : g \in Fds
  BY <1>1, Types DEF Keys
<1>3. PICK c \in Conns : c = clients[f].origin /\ c \in Registered /\ EntriesOf(c) = {f}
  BY EntryIs
<1>4. EntriesOf(c)' = {}
  BY <1>1, <1>2, <1>3 DEF EntriesOf
<1>5. \A d \in Conns \ {c} : EntriesOf(d)' = EntriesOf(d)
  BY <1>1, <1>2, <1>3 DEF EntriesOf
<1>6. Registered' = Registered \ {c}
  BY <1>4, <1>5 DEF Registered
<1>7. Nicks'[c] = <<>>
  BY <1>6 DEF Nicks
<1>8. ASSUME NEW d \in Conns \ {c}
      PROVE  Nicks'[d] = Nicks[d]
  <2>1. EntryOf(d)' = EntryOf(d) /\ (d \in Registered' <=> d \in Registered)
    BY <1>5, <1>6 DEF EntryOf
  <2>2. ASSUME d \in Registered
        PROVE  clients'[EntryOf(d)] = clients[EntryOf(d)]
    <3>1. EntryOf(d) \in EntriesOf(d)
      BY <2>2 DEF Registered, EntryOf
    <3>2. EntryOf(d) \in Keys /\ EntryOf(d) # f
      BY <1>3, <3>1 DEF EntriesOf
    <3> QED
      BY <1>1, <1>2, <3>2
  <2>3. /\ Nicks[d] = IF d \in Registered THEN clients[EntryOf(d)].nick ELSE <<>>
        /\ Nicks'[d] = IF d \in Registered' THEN clients'[EntryOf(d)'].nick ELSE <<>>
    BY DEF Nicks
  <2> QED
    BY <2>1, <2>2, <2>3
<1>9. Nicks' = [Nicks EXCEPT ![c] = <<>>]
  BY <1>7, <1>8 DEF Nicks
<1> QED
  BY <1>1, <1>2, <1>3, <1>6, <1>9

LEMMA Renamed ==
  ASSUME NEW kind, NEW old, NEW new, NEW body, NEW rows
  PROVE  [Note(kind, old, body, rows) EXCEPT !.nick = new] = Note(kind, new, body, rows)
<1>1. ASSUME NEW c
      PROVE  [[kind |-> kind, nick |-> old, body |-> body, rows |-> rows, cut |-> c] EXCEPT !.nick = new]
               = [kind |-> kind, nick |-> new, body |-> body, rows |-> rows, cut |-> c]
  OBVIOUS
<1> QED
  BY <1>1 DEF Note

\* The end of an entry is its user's leave.
LEMMA EraseRoom ==
  ASSUME OneWorker, Orderly, Books, NEW w \in Workers, Erase(w)
  PROVE  \E u \in Conns : Book!Leave(u)
<1>1. /\ IInv /\ OneEntryEach /\ BookOK(th[w]) /\ LocalsOK(th[w]) /\ PendingOK(th[w])
      /\ th[w] \in Thread
  BY RegNow, Types DEF Orderly, Tidy, Books
<1>2. th[w].pc = "erase" /\ UNCHANGED conn
  BY DEF Erase, At, netVars
<1>3. PICK f \in Keys : f = th[w].fd
  BY <1>1, <1>2 DEF PendingOK
<1>4. PICK u \in Conns : u = clients[f].origin /\ u \in Registered /\ Nicks[u] = clients[f].nick
  BY <1>1, EntryIs
<1>5. conn[u].peer \in {"fin", "poked"} /\ conn[u].rx = <<>>
  BY <1>1, <1>2, <1>3, <1>4 DEF BookOK, Parting
<1>6. PICK name \in {th[w].out.nick, Garbage} :
        th'[w] = [th[w] EXCEPT !.pc = "bcast", !.out.nick = name]
  BY DEF Erase
<1>7. /\ th'[w].pc = "bcast" /\ th'[w].fd = f /\ th'[w].cur = 0
      /\ th'[w].out = Note("leave", name, <<>>, {}) /\ name \in {Nicks[u], Garbage}
  <2>1. th[w].out = Note("leave", clients[f].nick, <<>>, {}) /\ th[w].cur = 0
    BY <1>1, <1>2, <1>3 DEF BookOK, LocalsOK
  <2>2. th'[w].out = [th[w].out EXCEPT !.nick = name]
    BY <1>1, <1>6 DEF Thread
  <2>3. th'[w].out = Note("leave", name, <<>>, {}) /\ th[w].out.nick = Nicks[u]
    <3>1. th[w].out = Note("leave", Nicks[u], <<>>, {})
      BY <1>4, <2>1
    <3>2. [Note("leave", Nicks[u], <<>>, {}) EXCEPT !.nick = name] = Note("leave", name, <<>>, {})
      BY Renamed
    <3>3. Note("leave", Nicks[u], <<>>, {}).nick = Nicks[u]
      BY DEF Note
    <3> QED
      BY <2>2, <3>1, <3>2, <3>3
  <2> QED
    BY <1>1, <1>3, <1>6, <2>1, <2>3 DEF Thread
<1>8. clients' = [clients EXCEPT ![f] = NoEntry]
  BY <1>3 DEF Erase, Erased
<1>9. /\ Keys' = Keys \ {f} /\ \A g \in Keys \ {f} : clients'[g] = clients[g]
      /\ Registered' = Registered \ {u}
      /\ Nicks' = [Nicks EXCEPT ![u] = <<>>]
  BY <1>1, <1>4, <1>8, EntryGone
<1>10. TheWorker = w /\ me = th[w] /\ me' = th'[w]
  BY TheOne
<1>11. Unheard' = [Unheard EXCEPT ![u] = <<>>]
  <2>1. \A d \in Conns \ {u} : f \notin EntriesOf(d)
    BY <1>4 DEF EntriesOf
  <2>2. \A d \in Conns \ {u} : InHand(d) = <<>>
    BY <1>2, <1>3, <1>10, <2>1 DEF InHand
  <2>3. \A d \in Conns : InHand(d)' = <<>>
    BY <1>7, <1>10 DEF InHand
  <2>4. <<>> \o <<>> = <<>>
    BY ConcatEmptySeq, EmptySeq
  <2> QED
    BY <1>2, <1>5, <2>2, <2>3, <2>4 DEF Unheard
<1>12. Floor = Idle
  BY <1>2, FloorIdle DEF Announcing
<1>13. Floor' = [notice |-> Note("leave", name, <<>>, {}), left |-> Registered']
  <2>1. \A g \in Keys : g > 0
    BY SocketAssumption DEF Keys, Fds
  <2>2. (Pending \ {me.fd})' = Keys \ {f}
    BY <1>7, <1>9, <1>10, <2>1 DEF Pending, Ahead
  <2>3. Owners(Pending \ {me.fd})' = Owners(Keys \ {f})
    BY <1>9, <2>2 DEF Owners
  <2>4. Owners(Keys \ {f}) = Registered'
    BY <1>1, <1>4, <1>9, OwnersAre
  <2> QED
    BY <1>7, <1>10, <2>3, <2>4 DEF Floor
<1>14. UNCHANGED <<HungUp, Inboxes>> /\ u \in HungUp
  BY <1>2, <1>5 DEF HungUp, Inboxes
<1>15. Book!Leave(u)
  BY <1>4, <1>7, <1>9, <1>11, <1>12, <1>13, <1>14
     DEF Book!Leave, Book!Announcement, Book!Notice, Note
<1> QED
  BY <1>15

-----------------------------------------------------------------------------
(* An announcement is made.                                                *)

\* One more user is told, and the floor kept, or given up with the last one.
LEMMA Telling ==
  ASSUME NEW n \in Notice, NEW left \in SUBSET Conns, NEW u \in left,
         Floor = [notice |-> n, left |-> left],
         \/ Floor' = [notice |-> n, left |-> left \ {u}]
         \/ Floor' = Idle /\ left = {u},
         Inboxes' \in Book!Told(u, n), UNCHANGED <<Registered, Nicks, Unheard, HungUp>>
  PROVE  Book!Tell(u)
<1>1. Floor # Idle
  BY IdleAssumption
<1>2. Floor.notice = n /\ Floor.left = left
  OBVIOUS
<1>3. [Floor EXCEPT !.left = @ \ {u}] = [notice |-> n, left |-> left \ {u}]
  OBVIOUS
<1> QED
  BY <1>1, <1>2, <1>3 DEF Book!Tell

\* Nobody is left to be told.
LEMMA Yielding ==
  ASSUME NEW n \in Notice, Floor = [notice |-> n, left |-> {}], Floor' = Idle,
         UNCHANGED <<Registered, Nicks, Unheard, HungUp, Inboxes>>
  PROVE  Book!Yield
<1>1. Floor # Idle
  BY IdleAssumption
<1>2. Floor.left = {}
  OBVIOUS
<1> QED
  BY <1>1, <1>2 DEF Book!Yield

\* The loop moves on to the next entry.
LEMMA MovesOn ==
  ASSUME OneWorker, IInv, Tidy, NEW w \in Workers, NEW k \in Fds, IsNext(w, k),
         UNCHANGED clients, th'[w].cur = k
  PROVE  Pending' = Pending \ {k} /\ k \in Pending /\ Pending \in SUBSET Keys /\ k \in Keys
<1>1. /\ k \in Keys /\ k \in Ahead(w)
      /\ \A f \in Keys : f > k <=> f > th[w].cur /\ f # k
  BY NextOnly
<1>2. UNCHANGED Keys /\ TheWorker = w
  BY MapSeen, TheOne
<1> QED
  BY <1>1, <1>2 DEF Pending, Ahead

\* An entry the loops find is an open descriptor's.
LEMMA OpenEntry ==
  ASSUME OneWorker, Orderly, NEW w \in Workers, th[w].pc \notin Unlisted, NEW k \in Keys
  PROVE  IsOpen(k) /\ clients[k].origin = sock[k] /\ k \in Fds
<1>1. k \in Fds
  BY DEF Keys
<1>2. Exact(k)
  BY <1>1, RegNow DEF Orderly
<1> QED
  BY <1>1, <1>2 DEF Exact, Orderly

\* The worker that announces is at the announcement.
LEMMA FloorBroadcast ==
  ASSUME OneWorker, NEW w \in Workers
  PROVE  /\ th[w].pc = "bcast" =>
              Floor = [notice |-> th[w].out, left |-> Owners(Pending \ {th[w].fd})]
         /\ th'[w].pc = "bcast" =>
              Floor' = [notice |-> th'[w].out, left |-> Owners(Pending \ {th[w].fd})']
<1>1. me = th[w] /\ me' = th'[w]
  BY TheOne
<1> QED
  BY <1>1 DEF Floor

\* Each receiver of a broadcast is told in turn.
LEMMA BroadcastRoom ==
  ASSUME OneWorker, Orderly, Books, NEW w \in Workers, BroadcastStep(w)
  PROVE  UNCHANGED Book!roomVars \/ Book!Yield \/ \E u \in Conns : Book!Tell(u)
<1>1. /\ IInv /\ Tidy /\ OneEntryEach /\ LocalsOK(th[w]) /\ th[w].pc = "bcast" /\ th[w] \in Thread
      /\ th[w].out \in Notice
  BY Types, MadeNotices DEF Orderly, Tidy, Books, BroadcastStep, At
<1>2. Floor = [notice |-> th[w].out, left |-> Owners(Pending \ {th[w].fd})]
  BY <1>1, FloorBroadcast
<1>3. CASE LoopEnds(w)
  <2>1. Pending = {} /\ th'[w].pc = "next" /\ UNCHANGED <<conn, clients>>
    BY <1>1, <1>3, TheOne, Returns DEF LoopEnds, IsOver, LocalsOK, Pending, netVars, regVars
  <2>2. UNCHANGED <<Registered, Nicks, Unheard, HungUp, Inboxes>>
    BY <1>1, <2>1, MapSeen, HandSeen DEF HandKept, Holding, HungUp, Inboxes
  <2>3. Floor = [notice |-> th[w].out, left |-> {}] /\ Floor' = Idle
    BY <1>2, <2>1, FloorIdle DEF Owners, Announcing
  <2> QED
    BY <1>1, <2>2, <2>3, Yielding
<1>4. ASSUME NEW k \in Fds, IsNext(w, k),
             IF k = th[w].fd THEN Pass(w, k) ELSE Send(w, k, th[w].out, Moved(w, k))
      PROVE  UNCHANGED Book!roomVars \/ \E u \in Conns : Book!Tell(u)
  <2>1. k \in Keys
    BY <1>1, <1>4, NextOnly
  <2>2. PICK u \in Conns : u = clients[k].origin /\ u = sock[k] /\ IsOpen(k)
    BY <1>1, <2>1, OpenEntry DEF OneEntryEach, Unlisted
  <2>3. /\ th'[w] = Moved(w, k) /\ UNCHANGED clients
        /\ \/ k = th[w].fd /\ UNCHANGED conn
           \/ /\ k # th[w].fd /\ UNCHANGED HungUp /\ Inboxes' \in Book!Told(u, th[w].out)
              /\ \A c \in Conns : conn'[c].rx = conn[c].rx
    <3>1. CASE k = th[w].fd
      BY <1>1, <1>4, <3>1, Becomes DEF Pass, netVars, regVars
    <3>2. CASE k # th[w].fd
      BY <1>1, <1>4, <2>2, <3>2, TellsOne
    <3> QED
      BY <3>1, <3>2
  <2>4. /\ th'[w].pc = "bcast" /\ th'[w].cur = k /\ th'[w].fd = th[w].fd
        /\ th'[w].out = th[w].out
    BY <1>1, <2>3, MovedTurn DEF Same
  <2>5. Pending' = Pending \ {k} /\ k \in Pending /\ Pending \in SUBSET Keys
    BY <1>1, <1>4, <2>3, <2>4, MovesOn
  <2>6. Floor' = [notice |-> th[w].out, left |-> Owners((Pending \ {k}) \ {th[w].fd})]
    <3>1. Owners(Pending \ {th[w].fd})' = Owners((Pending \ {k}) \ {th[w].fd})
      BY <2>3, <2>4, <2>5 DEF Owners
    <3> QED
      BY <2>4, <3>1, FloorBroadcast
  <2>7. UNCHANGED <<Registered, Nicks, Unheard>>
    BY <1>1, <2>3, <2>4, MapSeen, HandSeen DEF HandKept, Holding
  <2>8. CASE k = th[w].fd
    <3>1. (Pending \ {k}) \ {th[w].fd} = Pending \ {th[w].fd}
      BY <2>8
    <3>2. UNCHANGED <<Floor, HungUp, Inboxes>>
      BY <1>2, <2>3, <2>6, <2>8, <3>1 DEF HungUp, Inboxes
    <3> QED
      BY <2>7, <3>2, Unnoticed
  <2>9. CASE k # th[w].fd
    <3> DEFINE left == Owners(Pending \ {th[w].fd})
    <3>1. Owners((Pending \ {k}) \ {th[w].fd}) = left \ {u}
      <4>1. (Pending \ {k}) \ {th[w].fd} = (Pending \ {th[w].fd}) \ {k}
        OBVIOUS
      <4>2. Pending \ {th[w].fd} \in SUBSET Keys
        BY <2>5
      <4> QED
        BY <1>1, <2>1, <2>2, <4>1, <4>2, OwnersAre
    <3>2. u \in left /\ left \in SUBSET Conns
      BY <1>1, <2>2, <2>5, <2>9 DEF Owners, OneEntryEach
    <3>3. /\ Floor = [notice |-> th[w].out, left |-> left]
          /\ Floor' = [notice |-> th[w].out, left |-> left \ {u}]
      BY <1>2, <2>6, <3>1
    <3> HIDE DEF left
    <3>4. Book!Tell(u)
      BY <1>1, <2>3, <2>7, <2>9, <3>2, <3>3, Telling
    <3> QED
      BY <3>4
  <2> QED
    BY <2>8, <2>9
<1> QED
  BY <1>3, <1>4 DEF BroadcastStep

\* Those of some entries a private message is for.
Meant(t, fds) == {f \in fds : clients[f].nick = t.out.nick}

LEMMA FloorPrivate ==
  ASSUME OneWorker, NEW w \in Workers
  PROVE  /\ th[w].pc = "private" =>
              Floor = [notice |-> th[w].out,
                       left |-> Owners(Meant(th[w], Pending))]
         /\ th'[w].pc = "private" =>
              Floor' = [notice |-> th'[w].out,
                        left |-> Owners(Meant(th[w], Pending))']
<1>1. me = th[w] /\ me' = th'[w]
  BY TheOne
<1> QED
  BY <1>1 DEF Floor, Meant

\* Everyone of the name a private message asks for is told, unless its handler dies.
LEMMA PrivateRoom ==
  ASSUME OneWorker, Orderly, Books, NEW w \in Workers, PrivateStep(w)
  PROVE  UNCHANGED Book!roomVars \/ Book!Yield \/ \E u \in Conns : Book!Tell(u)
<1>1. /\ IInv /\ Tidy /\ OneEntryEach /\ LocalsOK(th[w]) /\ th[w].pc = "private" /\ th[w] \in Thread
      /\ th[w].out \in Notice
  BY Types, MadeNotices DEF Orderly, Tidy, Books, PrivateStep, At
<1>2. Floor = [notice |-> th[w].out, left |-> Owners(Meant(th[w], Pending))]
  BY <1>1, FloorPrivate
<1>3. CASE LoopEnds(w)
  <2>1. Pending = {} /\ th'[w].pc = "next" /\ UNCHANGED <<conn, clients>>
    BY <1>1, <1>3, TheOne, Returns DEF LoopEnds, IsOver, LocalsOK, Pending, netVars, regVars
  <2>2. UNCHANGED <<Registered, Nicks, Unheard, HungUp, Inboxes>>
    BY <1>1, <2>1, MapSeen, HandSeen DEF HandKept, Holding, HungUp, Inboxes
  <2>3. Floor = [notice |-> th[w].out, left |-> {}] /\ Floor' = Idle
    BY <1>2, <2>1, FloorIdle DEF Owners, Announcing, Meant
  <2> QED
    BY <1>1, <2>2, <2>3, Yielding
<1>4. ASSUME NEW k \in Fds, IsNext(w, k),
             IF clients[k].nick = th[w].out.nick THEN Send(w, k, th[w].out, Moved(w, k)) ELSE Pass(w, k)
      PROVE  UNCHANGED Book!roomVars \/ \E u \in Conns : Book!Tell(u)
  <2>1. k \in Keys
    BY <1>1, <1>4, NextOnly
  <2>2. PICK u \in Conns : u = clients[k].origin /\ u = sock[k] /\ IsOpen(k)
    BY <1>1, <2>1, OpenEntry DEF OneEntryEach, Unlisted
  <2>3. /\ th'[w] = Moved(w, k) /\ UNCHANGED clients
        /\ \/ clients[k].nick # th[w].out.nick /\ UNCHANGED conn
           \/ /\ clients[k].nick = th[w].out.nick /\ UNCHANGED HungUp /\ Inboxes' \in Book!Told(u, th[w].out)
              /\ \A c \in Conns : conn'[c].rx = conn[c].rx
    <3>1. CASE clients[k].nick # th[w].out.nick
      BY <1>1, <1>4, <3>1, Becomes DEF Pass, netVars, regVars
    <3>2. CASE clients[k].nick = th[w].out.nick
      BY <1>1, <1>4, <2>2, <3>2, TellsOne
    <3> QED
      BY <3>1, <3>2
  <2>4. /\ th'[w].pc = "private" /\ th'[w].cur = k /\ th'[w].fd = th[w].fd
        /\ th'[w].out = th[w].out
    BY <1>1, <2>3, MovedTurn DEF Same
  <2>5. Pending' = Pending \ {k} /\ k \in Pending /\ Pending \in SUBSET Keys
    BY <1>1, <1>4, <2>3, <2>4, MovesOn
  <2>6. Floor' = [notice |-> th[w].out, left |-> Owners(Meant(th[w], Pending \ {k}))]
    <3>1. Owners(Meant(th[w], Pending))' = Owners(Meant(th[w], Pending \ {k}))
      BY <2>3, <2>4, <2>5 DEF Owners, Meant
    <3> QED
      BY <2>4, <3>1, FloorPrivate
  <2>7. UNCHANGED <<Registered, Nicks, Unheard>>
    BY <1>1, <2>3, <2>4, MapSeen, HandSeen DEF HandKept, Holding
  <2>8. CASE clients[k].nick # th[w].out.nick
    <3>1. Meant(th[w], Pending \ {k}) = Meant(th[w], Pending)
      BY <2>8 DEF Meant
    <3>2. UNCHANGED <<Floor, HungUp, Inboxes>>
      BY <1>2, <2>3, <2>6, <2>8, <3>1 DEF HungUp, Inboxes
    <3> QED
      BY <2>7, <3>2, Unnoticed
  <2>9. CASE clients[k].nick = th[w].out.nick
    <3> DEFINE left == Owners(Meant(th[w], Pending))
    <3>1. Meant(th[w], Pending \ {k}) = Meant(th[w], Pending) \ {k}
          /\ Meant(th[w], Pending) \in SUBSET Keys /\ k \in Meant(th[w], Pending)
      BY <2>5, <2>9 DEF Meant
    <3>2. Owners(Meant(th[w], Pending \ {k})) = left \ {u}
      BY <1>1, <2>1, <2>2, <3>1, OwnersAre
    <3>3. u \in left /\ left \in SUBSET Conns
      BY <1>1, <2>2, <3>1 DEF Owners, OneEntryEach
    <3>4. /\ Floor = [notice |-> th[w].out, left |-> left]
          /\ Floor' = [notice |-> th[w].out, left |-> left \ {u}]
      BY <1>2, <2>6, <3>2
    <3> HIDE DEF left
    <3>5. Book!Tell(u)
      BY <1>1, <2>3, <2>7, <2>9, <3>3, <3>4, Telling
    <3> QED
      BY <3>5
  <2> QED
    BY <2>8, <2>9
<1>5. CASE TrimDies(th[w].buf)
  <2>1. UNCHANGED <<th, conn, clients>>
    BY <1>5 DEF PrivateStep, Die, netVars, regVars
  <2> QED
    BY <2>1, QuietRoom
<1> QED
  BY <1>3, <1>4, <1>5 DEF PrivateStep

\* The user that has asked for the list is sent it.
LEMMA ShowRoom ==
  ASSUME OneWorker, Orderly, Books, NEW w \in Workers, ShowStep(w)
  PROVE  UNCHANGED Book!roomVars \/ \E u \in Conns : Book!Tell(u)
<1> DEFINE notice == Note("users", <<>>, <<>>, th[w].out.rows)
<1>1. /\ IInv /\ Base /\ RegInv /\ Tidy /\ OneEntryEach /\ LocalsOK(th[w]) /\ BookOK(th[w])
      /\ th[w].pc = "show" /\ th[w] \in Thread /\ notice \in Notice
  BY Types, MadeNotices DEF Orderly, Tidy, Books, ShowStep, At
<1>2. me = th[w] /\ me' = th'[w] /\ TheWorker = w
  BY TheOne
<1>3. PICK f \in Keys : f = th[w].fd
  BY <1>1, Listed DEF Serving
<1>4. PICK u \in Conns : u = clients[f].origin /\ u = sock[f] /\ IsOpen(f) /\ f \in Fds
  BY <1>1, OpenEntry DEF OneEntryEach, Unlisted
<1>5. Floor = [notice |-> Note("users", <<>>, <<>>, Registered), left |-> {u}]
  <2>1. Owners({me.fd}) = {u}
    BY <1>2, <1>3, <1>4 DEF Owners
  <2> QED
    BY <1>1, <1>2, <2>1 DEF Floor
<1>6. CASE IsOver(w) /\ Send(w, th[w].fd, notice, Finished(th[w]))
  <2>1. th[w].out.rows = Registered
    <3>1. \A g \in Keys : g \in Int /\ th[w].cur \in Int
      BY <1>1, SocketAssumption DEF Keys, Fds, Thread, AllFds, ListenFd, NoFd
    <3>2. \A g \in Keys : g <= th[w].cur
      BY <1>1, <1>6, <3>1 DEF IsOver, Ahead, LocalsOK
    <3>3. {g \in Keys : g <= th[w].cur} = Keys
      BY <3>2
    <3> QED
      BY <1>1, <3>3, OwnersAre DEF BookOK
  <2>2. Floor = [notice |-> notice, left |-> {u}]
    BY <1>5, <2>1
  <2> HIDE DEF notice
  <2>3. /\ th'[w] = Finished(th[w]) /\ UNCHANGED <<clients, HungUp>>
        /\ \A c \in Conns : conn'[c].rx = conn[c].rx
        /\ Inboxes' \in Book!Told(u, notice)
    BY <1>1, <1>3, <1>4, <1>6, TellsOne
  <2>4. th'[w].pc = "next"
    BY <1>1, <2>3, FinishedTurn
  <2>5. UNCHANGED <<Registered, Nicks, Unheard>>
    BY <1>1, <2>3, <2>4, MapSeen, HandSeen DEF HandKept, Holding
  <2>6. Floor' = Idle
    BY <2>4, FloorIdle DEF Announcing
  <2>7. Book!Tell(u)
    <3>1. u \in {u} /\ {u} \in SUBSET Conns
      OBVIOUS
    <3> QED
      BY <1>1, <2>2, <2>3, <2>5, <2>6, <3>1, Telling
  <2> QED
    BY <2>7
<1>7. ASSUME NEW k \in Fds,
             Become(w, [Moved(w, k) EXCEPT !.out.rows = @ \union {clients[k].origin}]),
             UNCHANGED <<netVars, regVars, status, mux>>
      PROVE  UNCHANGED Book!roomVars
  <2>1. th'[w].pc = "show" /\ th'[w].fd = f
    <3>1. th'[w] = [Moved(w, k) EXCEPT !.out.rows = @ \union {clients[k].origin}]
      BY <1>1, <1>7, Becomes
    <3> QED
      BY <1>1, <1>3, <3>1 DEF Moved, Thread
  <2>2. UNCHANGED <<conn, clients>>
    BY <1>7 DEF netVars, regVars
  <2>3. UNCHANGED <<Registered, Nicks, Unheard, HungUp, Inboxes>>
    BY <1>1, <2>1, <2>2, MapSeen, HandSeen DEF HandKept, Holding, HungUp, Inboxes
  <2>4. Floor' = [notice |-> Note("users", <<>>, <<>>, Registered), left |-> {u}]
    <3>1. Owners({me.fd})' = {u}
      BY <1>2, <1>4, <2>1, <2>2 DEF Owners
    <3> QED
      BY <1>2, <2>1, <2>3, <3>1 DEF Floor
  <2> QED
    BY <1>5, <2>3, <2>4, Unnoticed
<1> QED
  BY <1>6, <1>7 DEF ShowStep

\* An announcement gets from its handler into the loop.
LEMMA AnnounceRoom ==
  ASSUME OneWorker, Orderly, NEW w \in Workers, Welcome(w) \/ Say(w)
  PROVE  UNCHANGED Book!roomVars
<1>1. IInv /\ Base /\ RegInv /\ Tidy
  BY DEF Orderly
<1>2. th[w].pc \in {"welcome", "say"} /\ UNCHANGED conn
  BY DEF Welcome, Say, Announce, At, netVars
<1>3. /\ UNCHANGED clients /\ clients' = Touched(th[w].fd)
      /\ th[w].cur = 0
  BY <1>1, <1>2, Listed DEF Welcome, Say, Announce, Serving, Tidy, LocalsOK
<1>4. /\ th'[w].pc = "bcast" /\ th'[w].fd = th[w].fd /\ th'[w].cur = 0
      /\ th'[w].out = IF th[w].pc = "welcome" THEN Note("welcome", clients[th[w].fd].nick, <<>>, {})
                      ELSE Note("say", clients[th[w].fd].nick, th[w].buf, {})
  BY <1>1, <1>2, <1>3, SpeakMoves DEF Same, Welcome, Say, Announce, At
<1>5. TheWorker = w /\ me = th[w] /\ me' = th'[w]
  BY TheOne
<1>6. UNCHANGED <<Keys, Registered, Nicks, Unheard, HungUp, Inboxes>>
  BY <1>2, <1>3, <1>4, MapSeen, HandSeen DEF HandKept, Holding, HungUp, Inboxes
<1>7. Pending' = Keys
  <2>1. \A k \in Keys : k > 0
    BY SocketAssumption DEF Keys, Fds
  <2> QED
    BY <1>4, <1>5, <1>6, <2>1 DEF Pending, Ahead
<1>8. Owners(Pending \ {th[w].fd})' = Owners(Keys \ {th[w].fd})
  BY <1>3, <1>4, <1>7 DEF Owners
<1>9. Floor' = [notice |-> th'[w].out, left |-> Owners(Keys \ {th[w].fd})]
  BY <1>4, <1>8, FloorBroadcast
<1>10. Floor = [notice |-> th'[w].out, left |-> Owners(Keys \ {th[w].fd})]
  BY <1>2, <1>4, <1>5 DEF Floor
<1> QED
  BY <1>6, <1>9, <1>10, Unnoticed

-----------------------------------------------------------------------------
(* What the clients do.                                                    *)

LEMMA AppendLater ==
  ASSUME NEW s \in Seq(Msg), NEW r \in Seq(Msg), NEW m \in Msg
  PROVE  s \o Append(r, m) = Append(s \o r, m)
<1>1. <<m>> \in Seq(Msg) /\ s \o r \in Seq(Msg)
  BY ConcatProperties
<1>2. Append(r, m) = r \o <<m>> /\ Append(s \o r, m) = (s \o r) \o <<m>>
  BY <1>1, AppendIsConcat
<1> QED
  BY <1>1, <1>2, ConcatAssociative

\* A client writes, hangs up, or has not come in yet.
LEMMA OutsideRoom ==
  ASSUME OneWorker, Workers # {}, Orderly, Outside, ~Disturbed'
  PROVE  UNCHANGED Book!roomVars \/ \E u \in Conns : Book!Write(u) \/ Book!HangUp(u)
<1>1. PICK c \in Conns : Environment(c)
  BY DEF Outside
<1>2. IInv /\ UNCHANGED <<clients, th>>
  BY DEF Orderly, Outside, regVars
<1>3. UNCHANGED <<Registered, Nicks, Floor>> /\ \A d \in Conns : InHand(d)' = InHand(d)
  BY <1>2, OutsideSeen
<1>4. CASE Connect(c)
  <2>1. conn[c].peer = "idle" /\ conn' = [conn EXCEPT ![c].peer = "up"]
    BY <1>4 DEF Connect
  <2>2. \A d \in Conns : /\ conn'[d].rx = conn[d].rx /\ conn'[d].inbox = conn[d].inbox
                         /\ conn'[d].peer \in {"idle", "up"} <=> conn[d].peer \in {"idle", "up"}
    BY <1>2, <2>1, Types DEF ConnState
  <2> QED
    BY <1>3, <2>2, Unnoticed DEF Unheard, HungUp, Inboxes
<1>5. CASE ClientClose(c)
  <2>1. conn[c].peer = "up" /\ conn' = [conn EXCEPT ![c].peer = "fin"]
    BY <1>5 DEF ClientClose, PeerBecomes
  <2>2. /\ \A d \in Conns : conn'[d].rx = conn[d].rx /\ conn'[d].inbox = conn[d].inbox
        /\ \A d \in Conns \ {c} : conn'[d].peer = conn[d].peer
        /\ conn'[c].peer = "fin"
    BY <1>2, <2>1, Types DEF ConnState
  <2>3. HungUp' = HungUp \union {c} /\ c \notin HungUp
    BY <2>1, <2>2 DEF HungUp
  <2>4. UNCHANGED <<Unheard, Inboxes>>
    BY <1>3, <2>2 DEF Unheard, Inboxes
  <2> QED
    BY <1>3, <2>3, <2>4 DEF Book!HangUp
<1>6. CASE ClientSend(c)
  <2>1. PICK form \in Forms, to \in Conns :
          conn' = [conn EXCEPT ![c].sent = @ + 1,
                               ![c].rx = Append(@, [src |-> c, no |-> conn[c].sent + 1,
                                                    form |-> form, to |-> to])]
    BY <1>6, SocketAssumption DEF ClientSend
  <2> DEFINE m == [src |-> c, no |-> conn[c].sent + 1, form |-> form, to |-> to]
  <2>2. conn[c].peer = "up" /\ conn[c].sent \in Nat /\ conn[c].sent < MaxSent[c] /\ MaxSent[c] \in Nat
    BY <1>2, <1>6, Types, SocketAssumption DEF ClientSend, ConnState
  <2>3. m \in [src: {c}, no: 1..MaxSent[c], form: Forms, to: Conns]
    BY <2>2
  <2>4. m \in UNION {[src: {d}, no: 1..MaxSent[d], form: Forms, to: Conns] : d \in Conns} /\ m.src = c
    BY <2>3
  <2>5. m \in Msg
    BY <2>2 DEF Msg
  <2> HIDE DEF m
  <2>6. /\ \A d \in Conns : conn'[d].peer = conn[d].peer /\ conn'[d].inbox = conn[d].inbox
        /\ \A d \in Conns \ {c} : conn'[d] = conn[d]
        /\ conn'[c].rx = Append(conn[c].rx, m)
    BY <1>2, <2>1, Types DEF ConnState, m
  <2>7. InHand(c) \in Seq(Msg) /\ conn[c].rx \in Seq(Msg)
    <3>1. TheWorker \in Workers
      BY DEF TheWorker
    <3>2. me \in Thread /\ <<>> \in Seq(Msg)
      BY <1>2, <3>1, Types DEF me
    <3> QED
      BY <1>2, <3>2, Types DEF InHand, Thread, ConnState
  <2>8. InHand(c) \o Append(conn[c].rx, m) = Append(InHand(c) \o conn[c].rx, m)
    <3>1. PICK s \in Seq(Msg), r \in Seq(Msg) : s = InHand(c) /\ r = conn[c].rx
      BY <2>7
    <3>2. s \o Append(r, m) = Append(s \o r, m)
      BY <2>5, AppendLater
    <3> QED
      BY <3>1, <3>2
  <2>9. Unheard' = [Unheard EXCEPT ![c] = Append(@, m)]
    BY <1>3, <2>6, <2>8 DEF Unheard
  <2>10. UNCHANGED <<HungUp, Inboxes>> /\ c \notin HungUp
    BY <2>2, <2>6 DEF HungUp, Inboxes
  <2>11. Book!Write(c)
    BY <1>3, <2>4, <2>9, <2>10 DEF Book!Write
  <2> QED
    BY <2>11
<1> QED
  BY <1>1, <1>4, <1>5, <1>6, OutsideOrder DEF Environment

-----------------------------------------------------------------------------
(* The theorem.                                                            *)

\* Every step of the undisturbed server is talk of the room, or nothing to it.
LEMMA NextTalk ==
  ASSUME OneWorker, Workers # {}, Orderly, HomeInv, SpeechInv, Books, [Next]_vars, ~Disturbed'
  PROVE  Book!Talk \/ UNCHANGED Book!roomVars
<1>1. CASE \E w \in Workers : Worker(w)
  <2>1. PICK w \in Workers : Worker(w)
    BY <1>1
  <2>2. ~ErrClose(w) /\ ~Blocked(w)
    BY DEF ErrClose, Blocked, At, Orderly, Tidy, ErrsOK, Base, PlaceOK
  <2>3. CASE \/ Lock(w) \/ EpollWait(w) \/ EpollInterrupted(w) \/ Unlock(w) \/ NextEvent(w)
             \/ CheckEvent(w) \/ Accept(w) \/ AddFd(w) \/ SetNonblocking(w)
    BY <2>3, BetweenRoom
  <2>4. CASE CloseConn(w) \/ ReadName(w) \/ Dispatch(w) \/ Recv(w) \/ Welcome(w) \/ Say(w)
    BY <2>4, PartingRoom, RecvRoom, AnnounceRoom
  <2>5. CASE Insert(w)
    BY <2>5, InsertRoom DEF Book!Talk
  <2>6. CASE Erase(w)
    BY <2>6, EraseRoom DEF Book!Talk
  <2>7. CASE SetNick(w)
    BY <2>7, SetNickRoom DEF Book!Talk
  <2>8. CASE Talk(w)
    BY <2>8, TalkRoom DEF Book!Talk
  <2>9. CASE BroadcastStep(w) \/ PrivateStep(w)
    BY <2>9, BroadcastRoom, PrivateRoom DEF Book!Talk
  <2>10. CASE ShowStep(w)
    BY <2>10, ShowRoom DEF Book!Talk
  <2> QED
    BY <2>1, <2>2, <2>3, <2>4, <2>5, <2>6, <2>7, <2>8, <2>9, <2>10 DEF Worker
<1>2. CASE RaceCrash \/ MainJoin \/ UNCHANGED vars
  <2>1. UNCHANGED <<conn, clients, th>>
    BY <1>2 DEF RaceCrash, Die, MainJoin, vars, netVars, regVars
  <2> QED
    BY <2>1, QuietRoom
<1>3. CASE Outside
  BY <1>3, OutsideRoom DEF Book!Talk
<1> QED
  BY <1>1, <1>2, <1>3 DEF Next

\* Undisturbed, the room is as the books have it.
LEMMA AsBooked ==
  ASSUME ~Disturbed, ~Disturbed'
  PROVE  /\ Book!Talk => Room!Talk /\ ~Disturbed /\ UNCHANGED Disturbed
         /\ UNCHANGED Book!roomVars => UNCHANGED Room!roomVars
<1>1. UNCHANGED Disturbed
  BY DEF Disturbed
<1>2. Book!Talk => Room!Talk
  <2>1. \A n, l : Book!Announcement(n, l) = Room!Announcement(n, l)
    BY DEF Book!Announcement, Room!Announcement
  <2>2. \A k, n, b, r : Book!Notice(k, n, b, r) = Room!Notice(k, n, b, r)
    BY DEF Book!Notice, Room!Notice
  <2>3. \A u, n : Book!Told(u, n) = Room!Told(u, n)
    BY DEF Book!Told, Room!Told
  <2>4. \A u, t : Book!Uttered(u, t) = Room!Uttered(u, t)
    <3>1. \A t : Book!AskedFor(t) = Room!AskedFor(t)
      <4>1. \A u : Book!FirstWord(u) = Room!FirstWord(u)
        BY DEF Book!FirstWord, Room!FirstWord
      <4> QED
        BY <4>1, Zenon DEF Book!AskedFor, Room!AskedFor
    <3> QED
      BY <2>1, <2>2, <3>1, Zenon DEF Book!Uttered, Room!Uttered
  <2>5. \A u, k : Book!Taken(u, k) = Room!Taken(u, k)
    BY DEF Book!Taken, Room!Taken
  <2>6. \A u : /\ Book!Write(u) => Room!Write(u)
               /\ Book!HangUp(u) => Room!HangUp(u)
               /\ Book!Enter(u) => Room!Enter(u)
    BY DEF Book!Write, Room!Write, Book!HangUp, Room!HangUp, Book!Enter, Room!Enter
  <2>7. \A u, k : Book!Take(u, k) => Room!Take(u, k)
    BY DEF Book!Take, Room!Take
  <2>8. \A u, k : Book!ChooseName(u, k) => Room!ChooseName(u, k)
    BY <2>1, <2>2, <2>5, <2>7 DEF Book!ChooseName, Room!ChooseName
  <2>9. \A u, k : Book!Speak(u, k) => Room!Speak(u, k)
    BY <2>2, <2>3, <2>4, <2>5, <2>7 DEF Book!Speak, Room!Speak
  <2>10. \A u : Book!Leave(u) => Room!Leave(u)
    BY <2>1, <2>2 DEF Book!Leave, Room!Leave
  <2>11. \A u : Book!Tell(u) => Room!Tell(u)
    BY <2>3 DEF Book!Tell, Room!Tell
  <2>12. Book!Yield => Room!Yield
    BY DEF Book!Yield, Room!Yield
  <2> QED
    BY <2>6, <2>8, <2>9, <2>10, <2>11, <2>12 DEF Book!Talk, Room!Talk
<1>3. UNCHANGED Book!roomVars => UNCHANGED Room!roomVars
  BY <1>1 DEF Book!roomVars, Room!roomVars
<1> QED
  BY <1>1, <1>2, <1>3

\* Every step of the server is one of the room's, or nothing to it.
LEMMA NextRoom ==
  ASSUME OneWorker, Workers # {}, ServerInv, HomeInv, SpeechInv, Disturbed \/ Books, [Next]_vars
  PROVE  (Disturbed \/ Books)' /\ [Room!Next]_Room!roomVars
<1>1. IInv /\ ResetConns \subseteq ResetConns'
  BY ResetsGrow DEF ServerInv
<1>2. CASE Disturbed
  <2>1. Disturbed'
    BY <1>1, <1>2 DEF Disturbed
  <2>2. UNCHANGED Room!roomVars
    BY <1>2, <2>1 DEF Room!roomVars, Nobody
  <2> QED
    BY <2>1, <2>2
<1>3. CASE ~Disturbed /\ Disturbed'
  <2>1. Room!Disturb
    BY <1>3 DEF Room!Disturb, Room!Empty, Nobody
  <2> QED
    BY <1>3, <2>1 DEF Room!Next
<1>4. CASE ~Disturbed /\ ~Disturbed'
  <2>1. Orderly
    BY <1>4 DEF Orderly, ServerInv, Disturbed
  <2>2. Books'
    BY <1>4, <2>1, NextBooks
  <2>3. Book!Talk \/ UNCHANGED Book!roomVars
    BY <1>4, <2>1, NextTalk
  <2>4. (Room!Talk /\ ~Disturbed /\ UNCHANGED Disturbed) \/ UNCHANGED Room!roomVars
    BY <1>4, <2>3, AsBooked
  <2> QED
    BY <2>2, <2>4 DEF Room!Next
<1> QED
  BY <1>2, <1>3, <1>4

\* The room is open and empty at the start.
LEMMA InitRoom ==
  ASSUME Workers # {}, Init
  PROVE  Room!Init
<1>1. Keys = {} /\ me.pc = "lock"
  <2>1. TheWorker \in Workers
    BY DEF TheWorker
  <2> QED
    BY <2>1 DEF Init, Keys, IdleThread, me
<1>2. \A c : EntriesOf(c) = {}
  BY <1>1 DEF EntriesOf
<1>3. Registered = {} /\ Nicks = [u \in Conns |-> <<>>] /\ Floor = Idle
  BY <1>1, <1>2 DEF Registered, Nicks, Floor
<1>4. \A c \in Conns : conn[c].rx = <<>> /\ conn[c].inbox = <<>> /\ conn[c].peer = "idle"
  BY DEF Init, SocketInit
<1>5. HungUp = {} /\ Inboxes = [u \in Conns |-> <<>>] /\ ~Disturbed
  BY <1>4 DEF HungUp, Inboxes, Disturbed, ResetConns
<1>6. Unheard = [u \in Conns |-> <<>>]
  <2>1. <<>> \o <<>> = <<>>
    BY ConcatEmptySeq, EmptySeq
  <2>2. \A c \in Conns : InHand(c) = <<>>
    BY <1>1 DEF InHand
  <2> QED
    BY <1>4, <2>1, <2>2 DEF Unheard
<1> QED
  BY <1>3, <1>5, <1>6 DEF Room!Init, Room!Empty

\* The server with one worker is the chat room until a connection is reset: names, lines,
\* private messages, lists and leaves reach those they are meant for, one announcement after
\* the other, whatever the descriptors, the events and the order of the calls.
THEOREM RoomImplemented ==
  ASSUME OneWorker, Workers # {}
  PROVE  Spec => ImplementsRoom
<1>1. Spec => [](ServerInv /\ HomeInv /\ SpeechInv)
  BY SpeechInvariance
<1>2. Init => (Disturbed \/ Books) /\ Room!Init
  BY InitBooks, InitRoom
<1>3. ServerInv /\ HomeInv /\ SpeechInv /\ (Disturbed \/ Books) /\ [Next]_vars
        => (Disturbed \/ Books)' /\ [Room!Next]_Room!roomVars
  BY NextRoom
<1> QED
  BY <1>1, <1>2, <1>3, PTL DEF Spec, ImplementsRoom, Room!Spec
=============================================================================
