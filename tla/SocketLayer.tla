---------------------------- MODULE SocketLayer ----------------------------
(***************************************************************************)
(* The sockets and the epoll instance under qiaqia_server, as far as       *)
(* server/server.hpp and common.h use them, and the clients at their other *)
(* end.  The kernel is not in the repository: this module says what its    *)
(* calls do to the server, on Linux.                                       *)
(*                                                                         *)
(* A connection is a member of Conns, used once.  The clients' messages    *)
(* keep their boundaries here: every one of them is sent as MAXLINE bytes  *)
(* and recv asks for MAXLINE bytes, so one recv takes one message.         *)
(*                                                                         *)
(* A message has one of five forms.  "word" is a text without a blank (a   *)
(* nickname or a chat line), "show" is "$ show users", "private" is        *)
(* "> NAME WORD", NAME being the word its addressee sends first,           *)
(* "nameless" is "> WORD", and "blanks" is ">  WORD", with two blanks.     *)
(***************************************************************************)
EXTENDS Integers, Sequences, Functions

CONSTANTS
  Conns,      \* the connections clients may open
  MaxFd,      \* the highest descriptor the process may have
  Listenq,    \* LISTENQ, the length of the accept queue
  MaxSent,    \* bound: how many messages each client sends
  Speaks,     \* the forms of message each client sends
  Slow,       \* connections whose send buffer may be full
  None,       \* no connection, no thread
  Listener,   \* the listening socket
  Garbage     \* bytes read from a string that was freed

Forms == {"word", "show", "private", "nameless", "blanks"}

ASSUME SocketAssumption ==
  /\ MaxFd \in Nat /\ Listenq \in Nat
  /\ MaxSent \in [Conns -> Nat]
  /\ Speaks \in [Conns -> SUBSET Forms]
  /\ Slow \subseteq Conns
  /\ None \notin Conns /\ Listener \notin Conns /\ None # Listener

VARIABLES
  conn,       \* per connection: its two ends and its socket's flags
  sock,       \* the descriptor table of the process
  backlog,    \* connections that wait for accept
  ready       \* descriptors on epoll's ready list

netVars == <<conn, sock, backlog, ready>>

ListenFd == 0
NoFd     == -1
Fds      == 1..MaxFd
AllFds   == {ListenFd} \union Fds

\* A message as it is sent; a notice as it arrives, cut when only a part of it was taken.
Msg == [src: Conns, no: Nat \ {0}, form: Forms, to: Conns]

ASSUME GarbageAssumption == Garbage \notin Seq(Msg)

Nick == Seq(Msg) \union {Garbage}

Notice == [kind: {"none", "welcome", "leave", "say", "private", "users", "caution"},
           nick: Nick, body: Seq(Msg), rows: SUBSET (Conns \union {None}), cut: BOOLEAN]

(***************************************************************************)
(* peer: "up"; "fin" once the client has closed; "poked" when the server   *)
(* has sent to a closed client and its RST is under way; "rsterr" after a  *)
(* reset whose ECONNRESET no call has reported; "rst" when only EPIPE is   *)
(* left.  watch is the data.fd epoll was given for the socket, inbox what  *)
(* the client has been sent.                                               *)
(***************************************************************************)
ConnState == [peer: {"idle", "up", "fin", "poked", "rsterr", "rst"},
              rx: Seq(Msg), sent: Nat, nonblock: BOOLEAN,
              watch: Fds \union {NoFd}, inbox: Seq(Notice)]

SocketTypeOK ==
  /\ conn \in [Conns -> ConnState]
  /\ sock \in [AllFds -> Conns \union {None, Listener}]
  /\ backlog \in Seq(Conns)
  /\ ready \subseteq AllFds

SocketInit ==
  /\ conn = [c \in Conns |-> [peer |-> "idle", rx |-> <<>>, sent |-> 0, nonblock |-> FALSE,
                              watch |-> NoFd, inbox |-> <<>>]]
  /\ sock = [f \in AllFds |-> IF f = ListenFd THEN Listener ELSE None]
  /\ backlog = <<>>
  /\ ready = {}

-----------------------------------------------------------------------------
(* The calls the server makes.                                             *)

\* An edge on a watched socket puts it on the ready list.
Edge(c) == ready \union ({conn[c].watch} \ {NoFd})

HasInput(c) == conn[c].rx # <<>> \/ conn[c].peer # "up"

\* What epoll_wait reports: EPOLLIN, and EPOLLERR or EPOLLHUP after a reset.
Readable(f) == IF f = ListenFd THEN backlog # <<>> ELSE HasInput(sock[f])
Failed(f)   == f # ListenFd /\ conn[sock[f]].peer \in {"rsterr", "rst"}

IsOpen(f) == sock[f] # None
IsLowestFree(f) == ~IsOpen(f) /\ \A g \in Fds : ~IsOpen(g) => f <= g

\* close takes the socket off the epoll instance as well.
Close(f) ==
  /\ sock' = [sock EXCEPT ![f] = None]
  /\ ready' = ready \ {f}
  /\ conn' = [c \in Conns |-> IF c = sock[f] THEN [conn[c] EXCEPT !.watch = NoFd] ELSE conn[c]]

\* send: taken by the kernel, or in part, or EAGAIN; EBADF or ECONNRESET; EPIPE and SIGPIPE.
SendTaken(f)  == IsOpen(f) /\ conn[sock[f]].peer \in {"up", "fin", "poked"}
SendFull(f)   == SendTaken(f) /\ sock[f] \in Slow /\ conn[sock[f]].nonblock
SendFails(f)  == IF IsOpen(f) THEN conn[sock[f]].peer = "rsterr" ELSE TRUE
SendBroken(f) == IsOpen(f) /\ conn[sock[f]].peer = "rst"

Reported(c)  == [conn EXCEPT ![c].peer = "rst"]

\* What of msg the kernel takes: a nonblocking socket may have room for a part of it.
Portions(f, msg) == {msg} \union (IF SendFull(f) THEN {[msg EXCEPT !.cut = TRUE]} ELSE {})
Sent(c, msg) ==
  [conn EXCEPT ![c].inbox = IF conn[c].peer = "up" THEN Append(@, msg) ELSE @,
               ![c].peer  = IF @ = "fin" THEN "poked" ELSE @]

-----------------------------------------------------------------------------
(* The clients and the network.                                            *)

Connect(c) ==
  /\ conn[c].peer = "idle"
  /\ sock[ListenFd] = Listener /\ Len(backlog) < Listenq
  /\ conn' = [conn EXCEPT ![c].peer = "up"]
  /\ backlog' = Append(backlog, c)
  /\ ready' = ready \union {ListenFd}
  /\ UNCHANGED sock

Attached(c) == c \in Range(backlog) \union Range(sock)

\* The addressee matters in a private message only.
ClientSend(c) ==
  /\ conn[c].peer = "up" /\ Attached(c) /\ conn[c].sent < MaxSent[c]
  /\ \E form \in Speaks[c], to \in Conns :
       /\ form # "private" => to = c
       /\ conn' = [conn EXCEPT ![c].sent = @ + 1,
                               ![c].rx = Append(@, [src |-> c, no |-> conn[c].sent + 1,
                                                    form |-> form, to |-> to])]
  /\ ready' = Edge(c)
  /\ UNCHANGED <<sock, backlog>>

PeerBecomes(c, from, to) ==
  /\ conn[c].peer = from /\ Attached(c)
  /\ conn' = [conn EXCEPT ![c].peer = to]
  /\ ready' = Edge(c)
  /\ UNCHANGED <<sock, backlog>>

\* A client that closes before it has read all it was sent resets the connection; one that
\* has closed answers what it is sent with a reset.
ClientClose(c)  == PeerBecomes(c, "up", "fin")
ClientAbort(c)  == PeerBecomes(c, "up", "rsterr")
ResetArrives(c) == PeerBecomes(c, "poked", "rst")

Environment(c) ==
  \/ Connect(c)
  \/ ClientSend(c)
  \/ ClientClose(c)
  \/ ClientAbort(c)
  \/ ResetArrives(c)
=============================================================================
