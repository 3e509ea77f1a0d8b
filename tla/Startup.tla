------------------------------ MODULE Startup ------------------------------
(***************************************************************************)
(* Both programs from main to the point where Server.tla and Client.tla    *)
(* begin: the command line, the walk over the addresses getaddrinfo finds  *)
(* (get_listen_fd, client_connect), the descriptors, and the threads or    *)
(* the child.  Every call may fail; errExit and errExitEN end the process. *)
(*                                                                         *)
(* A step is one system call.                                              *)
(* Operators marked "Mutant" are no part of the model.                     *)
(***************************************************************************)
EXTENDS CmdLine

CONSTANTS
  MaxAddrs   \* bound: how many addresses getaddrinfo finds

ASSUME StartupAssumption == MaxAddrs \in Nat

VARIABLES
  addrs,     \* how many addresses there are
  at,        \* p: the one being tried
  open,      \* the addresses with an open socket
  listening, \* whether listen has been called
  watched,   \* the descriptors in the epoll set
  nonblock,  \* the descriptors that do not block
  others     \* the threads started, or the child

startVars == <<addrs, at, open, listening, watched, nonblock, others>>
vars == <<parseVars, startVars, stage, code>>

Stages == {"parse", "resolve", "socket", "attach", "close", "listen", "pipe", "epoll", "watch",
           "nonblock", "create", "up", "ended"}

StartupTypeOK ==
  /\ stage \in Stages
  /\ code \in {"none", "ok", "failure", "core"}
  /\ stage = "ended" <=> code # "none"
  /\ addrs \in 0..MaxAddrs /\ at \in 0..addrs + 1 /\ open \subseteq 1..addrs
  /\ listening \in BOOLEAN
  /\ watched \subseteq {"sock", "pipe"} /\ nonblock \subseteq {"sock", "pipe"}
  /\ others \in Nat

Init ==
  /\ ParseInit
  /\ stage = "parse" /\ code = "none"
  /\ addrs = 0 /\ at = 0 /\ open = {} /\ listening = FALSE
  /\ watched = {} /\ nonblock = {} /\ others = 0

\* errExit: terminate aborts if EF_DUMPCORE is set in the environment.
Fail == stage' = "ended" /\ code' \in {"failure", "core"}
Goto(s) == stage' = s /\ UNCHANGED code

\* What is watched: the listening socket, or the client's socket and its end of the pipe.
Wanted == IF program = "server" THEN {"sock"} ELSE {"sock", "pipe"}
Pick(done) == IF "sock" \notin done THEN "sock" ELSE "pipe"

-----------------------------------------------------------------------------
(* The walk over the addresses.                                            *)

Resolve ==
  /\ stage = "resolve"
  /\ \/ Fail /\ UNCHANGED <<addrs, at>>
     \/ addrs' \in 1..MaxAddrs /\ at' = 1 /\ Goto("socket")
  /\ UNCHANGED <<parseVars, open, listening, watched, nonblock, others>>

\* Mutant: the end of the list is missed by one.
SocketPastEnd ==
  /\ stage = "socket"
  /\ IF at > addrs + 1 THEN Fail /\ UNCHANGED <<at, open>>
     ELSE \/ open' = open \union {at} /\ Goto("attach") /\ UNCHANGED at
          \/ at' = at + 1 /\ Goto("socket") /\ UNCHANGED open
  /\ UNCHANGED <<parseVars, addrs, listening, watched, nonblock, others>>

\* No address left: -1 and errExit.
Socket ==
  /\ stage = "socket"
  /\ IF at > addrs THEN Fail /\ UNCHANGED <<at, open>>
     ELSE \/ open' = open \union {at} /\ Goto("attach") /\ UNCHANGED at
          \/ at' = at + 1 /\ Goto("socket") /\ UNCHANGED open
  /\ UNCHANGED <<parseVars, addrs, listening, watched, nonblock, others>>

\* Mutant: the next address is tried without a close.
AttachLeaks ==
  /\ stage = "attach"
  /\ \/ Goto(IF program = "server" THEN "listen" ELSE "pipe") /\ UNCHANGED at
     \/ at' = at + 1 /\ Goto("socket")
  /\ UNCHANGED <<parseVars, addrs, open, listening, watched, nonblock, others>>

\* bind, or connect.
Attach ==
  /\ stage = "attach"
  /\ Goto(IF program = "server" THEN "listen" ELSE "pipe") \/ Goto("close")
  /\ UNCHANGED <<parseVars, startVars>>

\* Mutant: continue without p = p->ai_next.
CloseAgain ==
  /\ stage = "close"
  /\ open' = open \ {at} /\ Goto("socket")
  /\ UNCHANGED <<parseVars, addrs, at, listening, watched, nonblock, others>>

CloseSocket ==
  /\ stage = "close"
  /\ \/ open' = open \ {at} /\ at' = at + 1 /\ Goto("socket")
     \/ Fail /\ UNCHANGED <<at, open>>
  /\ UNCHANGED <<parseVars, addrs, listening, watched, nonblock, others>>

Listen ==
  /\ stage = "listen"
  /\ \/ listening' = TRUE /\ Goto("epoll") /\ UNCHANGED open
     \/ open' = open \ {at} /\ Fail /\ UNCHANGED listening
  /\ UNCHANGED <<parseVars, addrs, at, watched, nonblock, others>>

-----------------------------------------------------------------------------
(* The descriptors.                                                        *)

\* pipe, which the client calls, and epoll_create.
MakePipe ==
  /\ stage = "pipe"
  /\ Goto("epoll") \/ Fail
  /\ UNCHANGED <<parseVars, startVars>>

MakeEpoll ==
  /\ stage = "epoll"
  /\ Goto("watch") \/ Fail
  /\ UNCHANGED <<parseVars, startVars>>

\* addfd
Watch ==
  /\ stage = "watch"
  /\ \/ /\ watched' = watched \union {Pick(watched)}
        /\ Goto(IF watched' = Wanted THEN "nonblock" ELSE "watch")
     \/ Fail /\ UNCHANGED watched
  /\ UNCHANGED <<parseVars, addrs, at, open, listening, nonblock, others>>

\* Mutant: the socket alone.
NonblockOne ==
  /\ stage = "nonblock"
  /\ nonblock' = {"sock"} /\ Goto("create")
  /\ UNCHANGED <<parseVars, addrs, at, open, listening, watched, others>>

\* set_nonblocking
SetNonblock ==
  /\ stage = "nonblock"
  /\ \/ /\ nonblock' = nonblock \union {Pick(nonblock)}
        /\ Goto(IF nonblock' = Wanted THEN "create" ELSE "nonblock")
     \/ Fail /\ UNCHANGED nonblock
  /\ UNCHANGED <<parseVars, addrs, at, open, listening, watched, others>>

-----------------------------------------------------------------------------
(* The threads, and the child.                                             *)

\* How many are to be started.  A number below zero, of which the size of an array is made, is
\* not enumerated.
Crew == IF program = "client" THEN 1 ELSE IntOf[actual["workerNum"]]

\* pthread_create, or fork.
Create ==
  /\ stage = "create" /\ others < Crew
  /\ \/ others' = others + 1 /\ Goto("create")
     \/ Fail /\ UNCHANGED others
  /\ UNCHANGED <<parseVars, addrs, at, open, listening, watched, nonblock>>

\* With nobody to join main returns: ~Server closes the listening socket.
Up ==
  /\ stage = "create" /\ others >= Crew
  /\ IF others = 0 THEN stage' = "ended" /\ code' = "ok" /\ open' = {}
                   ELSE Goto("up") /\ UNCHANGED open
  /\ UNCHANGED <<parseVars, addrs, at, listening, watched, nonblock, others>>

-----------------------------------------------------------------------------
Parse == (ParseArgument \/ Check) /\ UNCHANGED startVars

Start ==
  \/ Parse
  \/ Resolve \/ Socket \/ Attach \/ CloseSocket \/ Listen
  \/ MakePipe \/ MakeEpoll \/ Watch \/ SetNonblock
  \/ Create \/ Up

Next == Start

\* A process goes on.
Spec == Init /\ [][Next]_vars /\ WF_vars(Start)

-----------------------------------------------------------------------------
(* What a start promises.                                                  *)

\* The walk leaves one socket open, that of the address that worked, and none on its way: a
\* descriptor of an address that did not work would outlive the process's start.
OneSocket ==
  /\ stage \in {"socket", "resolve"} => open = {}
  /\ stage \in {"attach", "listen", "pipe", "epoll", "watch", "nonblock", "create", "up"} => open = {at}

\* When the first thread, or the child, begins, all it will wait on is watched and does not
\* block, and the server's socket listens.
ReadyBeforeUse ==
  others > 0 => watched = Wanted /\ nonblock = Wanted /\ (program = "server" => listening)

\* The start comes to an end whatever fails.
StartsOrEnds == <>(stage \in {"up", "ended"})
=============================================================================
