# A TLA+ model of qiaqia

qiaqia is a chat room: `qiaqia_server` accepts TCP connections and passes every line a client
sends on to the others, `qiaqia_client` is the terminal program at the other end. This directory
holds TLA+ modules translated from the source, TLC configurations that check them on small
instances, and proofs that TLAPS checks for every instance.

## The system

| part | where | state it keeps | operations | hard behaviour | modules |
|---|---|---|---|---|---|
| worker threads, event loop | `server/server.hpp` 201-282, 426-471 | `io_event_mux`, the **static** array `events`, `i`, `ready_count`, `readyFd` | lock, `epoll_wait`, unlock, then one event after the other | the array is shared and refilled while another worker reads it; edge-triggered events; one `accept` per edge; EINTR | `Server` |
| message handler | 103-131, 284-409 | `byte_stream`, the message being formatted, the place in a loop over `clients` | `recv` until EAGAIN, nickname, `$ show users`, `> name text`, broadcast, leave | messages glued together, failed sends, data and FIN in one edge, dangling names and iterators | `Server`, `ChatRoom`, `ServerRoom` |
| registry | 76-93, 183-199 | `std::map<int, ClientInfo> clients`, `clients_map_mux` | `insert`, `erase`, `operator[]`, iteration | most accesses are not locked; keys are descriptors, which the kernel reuses | `Server`, `ServerRoom` |
| descriptor helpers | `common.h` 37-58 | flags of a descriptor | `addfd`, `set_nonblocking` | watched before it is non-blocking | `Server`, `Startup` |
| listening socket setup | `server.hpp` 133-180 | the list of addresses, the socket being tried | `get_listen_fd` | every call may fail, and what has been opened must be closed | `Startup` |
| logger | `server/logger.hpp` | `p`, `ssp`, `write_mutex`, the text in the stream | `LOG_INFO` from the workers | `p` and `ssp` are made by the first call, before the lock | `Logger` |
| client | `client/client.hpp` | `isClientwork`, `is_nickname_set`, `blocked_user`, pipe and socket | child: read the terminal, write the pipe; parent: read pipe and socket, print, block users | two processes, one read per pipe event, end of one process without the other | `Client` |
| wire framing | both | partly read blocks | MAXLINE blocks one way, MAXLINE blocks and `strlen` bytes the other | blocks shift, bytes behind a NUL are lost | `Client` |
| command parsing | `server.hpp` 371-402, `common.h` 61-77, `client.hpp` 72-85, 165-175, 277-288 | - | `substr`, `find`, `trim`, `strtok` | positions taken for lengths, counts below zero | `Commands` |
| option parser | `utils/cmdline.h` | options, `errors`, `others` | `parse`, `parse_check` | an argument that is another's value | `CmdLine` |
| the two `main`s | `servermain.cpp`, `clientmain.cpp` | - | options, construction, start | the order of the calls | `Startup` |

The workers share the sockets, the array and the registry; a worker that has an event for the
listener accepts a connection, enters it in the registry and has epoll watch it; a worker that has
an event for a client reads all there is, changes the registry and sends to every descriptor it
finds there, and all workers log through one logger. A client is two processes after `fork`: the
child reads the keyboard and writes lines into a pipe, the parent waits for pipe and socket. A
client's messages come in through the socket's receive queue, the server's go to the client's, and
closing is told by FIN or RST.

What makes the parts correct:

* event loop: no input that epoll has reported is forgotten, no array element is read that was not
  written, the mutex is held by one worker, a connection is accepted, and it is known what can end
  the process;
* registry: between two events it holds the open connections, each under its own descriptor,
  address and name, as far as nobody was reset;
* handler: a line goes out under its sender's name, to everyone but the sender, in order and once;
  a private message goes to the user it names; all in all, the server is the room `ChatRoom` until
  somebody is reset;
* logger: a line of the file is one call's, complete, once;
* client: lines go out and texts are shown in order and once, it is known where an edge may be lost,
  and when one of server, parent and child has gone the others go too;
* parsing: the first thing typed decides where a line goes, a chat line arrives as it was typed,
  block commands and the filter agree with the help text;
* start: options have the values given, nothing unknown is accepted, one socket is left open, and
  all is ready before the first thread or the child begins.

## Modules

**Server.** `SocketLayer` is what is not in the repository: descriptors (the lowest free one is taken),
accept queue, receive queues, the edge-triggered ready list, FIN, RST, EAGAIN, a send of which a part is
taken, EPIPE, and the clients that connect, send, close and abort. A client may reset its connection at
any time, and one that has closed answers what it is sent with an RST (`ResetArrives`), so that resets
are a part of every run of the server. All of it is external in the map. `Server` extends it with the
workers. `status` is the process, `mux` is `io_event_mux`, `events` the static array, `clients` the map
(a total function in which `NoEntry` stands for an absent key), `th[w]` the place and the locals of a
worker: `idx` and `cnt` are `i` and `ready_count`, `fd` is `readyFd` (or the new descriptor), `buf` is
`byte_stream`, `out` the message being formatted, `cur` the key the loop over `clients` stands on.
`ServerProperties` states what the server promises; `MCServer` gives the constants values;
`ServerProofs`, `OneWorkerProofs`, `SpeechProofs` and `RoomProofs` hold the theorems, each building on
the one before it.

A step of a worker goes from one system call, lock operation or access to a shared variable to
the next. Reading `events[i].data.fd` (232), testing `events[i].events` (235) and closing
`events[i].data.fd` (238) are three steps, because another worker can refill the array between them.

| code | actions |
|---|---|
| 216-225 | `Lock`, `EpollWait`, `EpollInterrupted` (EINTR), `Unlock` |
| 230-243 | `NextEvent`, `CheckEvent`, `ErrClose` |
| 244-267 | `Accept` (one, none: `break` leaves the batch, failure: `errExit`), `Insert`, `AddFd`, `SetNonblocking` |
| 292-340 | `Recv`, `Blocked` (the socket still blocks), `CloseConn`, `ReadName`, `Erase` |
| 342-359 | `Dispatch`, `SetNick`, `Welcome` |
| 362-408 | `Talk` (the caution, the kind of text, name and message of a private one), `Say`, `PrivateStep` (or the crash of `trim`), `ShowStep` |
| 103-131 | `BroadcastStep`, one entry a step; `ShowStep` |
| 465-468 | `MainJoin` |

Where the code's behaviour is undefined the model leaves the outcome open. The name of a leave
notice is formatted from a freed string, so it is the name or `Garbage`. A private message that fills
its array may lose its name to the zero `trim` writes behind it, so the name is read as it is or as
empty (`NamesRead`). A loop that stands on an entry another worker erases goes on at any entry or
ends. Two workers in the map of which one changes it, not both under `clients_map_mux`, may crash the
process (`RaceCrash`). And `trim` of a name that is blanks alone counts below zero and copies without
end: the process is killed (`TrimDies`).

Abstractions. A text is a sequence of messages, which is what `byte_stream += ...` makes of them; a
message is its sender, its number and its form: a word, `$ show users`, `> name word`, `> word` (no
second blank, so the name is empty and the users without a nickname are sent it) or `>  word` (two
blanks, so the name is a blank). A text with a command glued behind a private message has a name
nobody bears. Every message is one block of MAXLINE bytes and comes in whole. A send may take all of
it, a part (`cut`) or nothing. Two users never choose the same name. Host lookup, formatting and the
log are left out: `getnameinfo` only makes the strings of the entry, and the address stands for them
(`origin`).

**ChatRoom and ServerRoom.** `ChatRoom` is what the users see: who is present under what name, what
they have written, who has the floor, what each has heard. It knows no descriptors, events, maps or
loops. `ServerRoom` maps the server with one worker onto it (`Room == INSTANCE ChatRoom WITH ...`)
and states `ImplementsRoom == Room!Spec`. The mapping goes through the address an entry was made
for, never through the descriptor table, so an entry that outlives its connection, or a descriptor
that changes hands between `close` and `erase`, is a step the room does not allow. The room
is one of users who leave by hanging up: a connection that is reset (`ResetConns`) is the room's
`Disturb`, which closes it for good. What the server does then is the subject of the other properties.
`ChatRoom` is a
specification of the server and translates no lines of its own, so it is not in the map.

**Logger.** One thread per worker; a step is one access to `p`, `ssp`, `write_mutex` or the stream.
`p` and `ssp` hold the thread whose object they point to, `text[t]` what is in the stream `t` made,
`file` the lines of `qiaqia.log`. A line is a sequence of pieces (time, severity, then the arguments), so
that a line with pieces of two calls, or without its front, can be told. A step outside the lock
that replaces a shared pointer another thread is just using may crash (`RaceCrash`); where it does
not, the new object is used by all later steps, as `*ssp` is looked up by each.

| `logger.hpp` | actions |
|---|---|
| 149-154 | `TestPolicy`, `SetPolicy`, `CheckType` |
| 156-158 | `TestStream`, `SetStream` |
| 160-196 | `Lock`, `PrintPart` (time, severity, then one argument a step), `Write`, `Clear`, `Unlock` |

**Client.** `held` says which process holds which descriptors, so that the end of the pipe and of
the connection come when the last holder has closed them. `child` and `parent` are the places and
locals of the two processes, `pipe`, `rx`, `wire`, `peer` and `ready` the kernel's side, `tx` and
`shown` record what was sent and shown.

| `client.hpp` | actions |
|---|---|
| 212-231, 165-175 | `ChildClose`, `ChildRead`, `ChildEOF` (Ctrl-D: the length wraps and `write` fails), `ChildWrite` |
| 234-244, 326 | `ParentClose`, `ParentWait`, `ParentNext`, `ParentLoop` |
| 247-288 | `ParentRecv`: `RecvText`, `RecvEnd` (the loop goes on with a closed descriptor), `RecvBreak` |
| 291-319 | `ParentPipe` (one read, then the kind of line), `ParentSend`: `SendTaken`, `SendLost`, `SendKills` |
| the server | `ServerSend`, `Arrive`, `ServerCloses`, `ServerResets` |

A line is its number, its kind and the user it may name. A text of the server comes as a block of
MAXLINE bytes, which the model halves into text and zeros, or as its characters alone (a private
message, the list of users, the caution); TCP delivers half by half and a `read` takes two. So blocks
may be cut, and shift by half a block behind such a text. Lines in the pipe are glued as `read` glues
them; how many go into MAXLINE bytes depends on their lengths, so a read takes any number in `Holds`
of them, and may leave the rest. A socket whose buffer is full may take the front of a block (`Fronts`).

**Commands.** One line, character by character, from the keyboard to the screen of a receiver:
`ChildTrim`, `ChildRoute` (client, child), `ParentRoute` (client, parent), `ServerRoute` (server),
`ShowChat` and `ShowPrivate` (the receiver's parent, which looks for the name between brackets). A
symbol is a character or a word the code compares as a whole. `trim`, `substr`, `find_first_of`,
`find_last_of` and `strtok` are operators that do what those functions do, a position in place of a
length included. `Granule` is what the compiler rounds the arrays `name_c` and `msg_c` to: when the
message fills its array, the zero `trim` writes behind it may be the first byte of the name
(`NameRead`). A name of blanks alone makes `trim` count below zero, and the process ends (`"killed"`).

**CmdLine and Startup.** `CmdLine` is `cmdline::parser` with the options of either `main`: a step is
one turn of the loop over `argv` (`LongWithValue`, `Long`, `Short`, `Other`), then `Check`. `Startup`
goes on with the walk over the addresses (`Resolve`, `Socket`, `Attach` for `bind` or `connect`,
`CloseSocket`, `Listen`), then `MakePipe`, `MakeEpoll`, `Watch`, `SetNonblock`, `Create` (the threads,
or the child) and `Up`. Both programs take the same steps as far as they do the same, and every call
may fail. It ends where `Server` and `Client` begin.

Operators marked "Mutant" in a module are plausible mistakes (a dropped guard, a missing reset).
They are no part of the model: each is put in the place of the definition behind it to see that a
property notices.

## Runs

| run | setting | what it checks |
|---|---|---|
| `one_worker` | one worker, two clients, one of which sends every form of message, batches of one event | `RegistryExact`, `SpokenByOwner`, `OnlineOnly`, `KnownEnds`, `PrivateOnlyToNamed`, `ImplementsRoom` |
| `conversation` | one worker, three clients, batches of two | `TypeOK`, `BroadcastReachesAll` |
| `resets` | one worker, a client that sends three messages, a receiver whose buffer may be full, `FairSpec` | `NoLostWakeup`, `HeardInOrder`, `Served`, `DescriptorFreed`, `HeadAccepted` |
| `two_workers` | two workers, signals, two clients of which one speaks, batches of two | `MuxHeld`, `EventsFilled`, `NoEcho` |
| `client` | every kind of line, chat lines and texts of `strlen` bytes, reads of one line or two, full send buffer, RST, `FairSpec` | `ClientTypeOK`, `NoLostEdge`, `InOrderOnce`, `ShownInOrder`, `NoZombie`, `ServerGoneEndsParent`, `OrphanEnds`, `QuietExitDisconnects` |
| `logger` | three threads, two of which may log twice, `FairSpec` | `LoggerTypeOK`, `LinesUnmixed`, `OneLineEach`, `FewBroken`, `CallsReturn` |
| `commands` | all lines of up to four symbols and longer commands | `RouteByFirst`, `ChatVerbatim`, `BlockAsTold`, `PrivateWord`, `FilterExact` |
| `startup` | both programs, up to three arguments, up to two addresses, every failure | `StartupTypeOK`, `ParsedAsMeant`, `NothingUnknown`, `OneSocket`, `ReadyBeforeUse`, `StartsOrEnds` |

In the runs of the server a connection may be reset at any time, and a client that has closed resets
when it is sent something; only `two_workers` bounds this (see Bounds). What the runs show of a server
with one worker:

* the registry has every open connection, and an entry with a wrong address is that of a connection
  that was reset. The branch for errors (235-240) closes the descriptor and leaves the entry, `insert`
  does not replace it, and the next client on that descriptor speaks under the old name and is sent
  the old user's private messages. Nobody else speaks under a wrong name, and nobody with a name of
  its own is sent a private message for another. A message whose name is read as empty goes to users
  of whom nothing has been read;
* a broadcast reaches everyone online whose buffer has room, unless it ends at an entry it cannot
  send to: one that was reset or that a reset has left behind;
* clients can end the process in two ways and no other, as long as there are descriptors for all of
  them: by a send to a connection that was reset (SIGPIPE; the first call may still report ECONNRESET
  instead), for which ordinary leaving is enough, and by `>  x`, whose name is blanks alone;
* until the first reset the users see `ChatRoom`;
* the delivery of input, the return of descriptors and the order of what is heard hold throughout.

With several first calls at once the log loses fronts of lines, fewer than there are threads, and
nothing else. In the client only the read of the pipe leaves input behind without an edge.

Four runs show where the code does not do what its comments or help text say:

| run | shows |
|---|---|
| `lost_event` | two workers: w2's `epoll_wait` overwrites `events[0]` before w1 has read it; both handle the new event, nobody the old one, and edge-triggered epoll does not report it again |
| `client_exit` | a line and then `exit`, quickly: the parent reads the line, the end of file behind it had the same edge, and the connection stays until the server sends or closes ("exit: disconnect to the server and leave", `README.md` 29) |
| `logger_once` | two first calls make `p` and `ssp` twice ("init p and ssp only once", `logger.hpp` 148) |
| `private_blocked` | a private message is shown to a user who has blocked its sender ("send 'how are you?' only to Bob if bob not block you", `README.md` 34): it has no brackets, and by these the filter knows a sender |

Further departures the modules show when a setting is changed:

| property | changed setting | what happens |
|---|---|---|
| `RegistryExact`, `ImplementsRoom` | `one_worker` with two workers | `close` comes before `erase`: another worker may accept a client on the same descriptor between them |
| `NoLostWakeup` | `resets` with two workers | the shared array is refilled, as in `lost_event` |
| `KnownEnds` | `one_worker` with two workers | the map is changed under another worker's loop, or a worker sleeps in `recv` on a socket that does not yet fail with EAGAIN |
| `PrivateWord` | without its second case | the name is read as empty, and the message goes to those who have not chosen a name |
| `PrivateWord` | for messages of several words | `substr(pos1 + 1, pos2 - 1)` takes a position for a length: for `> Bob how are you?`, the example of the help text, the name is "Bob how are" and the message "you?", and it reaches nobody |

Some behaviours are right by the modules' properties and still worth knowing: a first line such as
`# Bob` is handled as a command and makes the client say "logged in", but the server gets no name;
of glued block commands only the last one's last name is whole; a nickname keeps the blanks at its
end, so `> Bob ...` does not find it; a private message that itself begins with the name of a blocked
user in brackets is withheld; a text that comes in parts is shown in parts.

Bounds. Server: as many descriptors as clients, so that a descriptor is reused as soon as a client
leaves, and a batch of at most two events (`EPOLL_SIZE`). `MaxSent` bounds what each client sends: two
messages are a name and a line, or a name glued from both; three are a name and two lines, which order
needs. `Speaks` says of which forms: in `one_worker` one client sends all five, the other a word, which
is the name a private message may ask for. A third client is there where a receiver behind another
matters, or the heir of a descriptor next to two others. `two_workers` goes no further from a state in
which the connection of the silent client is reset (`OnlySpeakerReset`), which would double the states:
the silent client comes, leaves, has its descriptor reused and may have an RST under way, and the one
that speaks may be reset at any time. The theorems about these properties have no such bound. Client: two lines and two texts, the least that
can be glued, reordered or shifted; `Holds = {1, 2}`, so that a read leaves a line behind or takes both
(`client_exit` needs no more than reads that take all). Logger: three threads, so that a stream can be
replaced under one thread by a second while a third waits for the lock; one argument, so that a line has
a front, a middle and an end. Commands: four symbols hold a command, a blank on either side and a name;
the private messages and block commands are longer. Startup: three arguments hold an option, its value
and one behind it; two addresses a failure and a success; `-w` 0, 2 and 3. More of each repeats these
cases.

`CHECK_DEADLOCK FALSE` everywhere: a server nobody talks to waits in `epoll_wait`, a process that has
ended is done, and with a bounded number of messages every run comes to rest.

Fairness. `Server`: each worker takes steps as long as it can; the threads are ordinary pthreads and
all calls but `epoll_wait`, `lock` and a blocking `recv` return. Nothing is assumed of the clients or
the network, and nothing of who gets the mutex (`std::mutex` is not fair), so the liveness runs that
pass have one worker. `Logger`: a thread goes on with a call it has begun; that it gets the lock
follows because the calls are bounded. `Client`: both processes are scheduled; nothing makes the user
type or the server send, and `ChildRead` and `ChildEOF` are outside the fairness. `Startup`: the one
thread there is goes on.

## Proofs

Each for every value of the constants, under the modules' named assumptions and the hypotheses named
below: `EntryAssumption`, `GarbageAssumption` and `IdleAssumption` only say that the values that
stand for "no entry", "a freed string" and "nobody has the floor" are no entry, no text and no
announcement; `CmdLineAssumption` that an argument such as `-pw` has letters behind its dash;
`CommandsAssumption` that lines and names are sequences of symbols and that the granule is positive.

| module | theorems | hypotheses |
|---|---|---|
| `ServerProofs` | `TypeCorrect`, `MutexHeld`, `OneWaits`, `BatchFilled`, `OneDescriptor`, `NoEchoHolds` | none |
| `OneWorkerProofs` | `WakeupsKept`, `BatchIsFresh`, `MapIsExact`, `ListsOnline`, `EndsKnown` | one worker; `EndsKnown`: descriptors enough |
| `SpeechProofs` | `LinesAreOwned`, `PrivateToNamed`, `EveryoneReached`, `HeardAsSent` | one worker |
| `RoomProofs` | `RoomImplemented` | one worker, and not none |
| `LoggerProofs` | `LoggerTypes`, `LinesNeverMix`, `LogMutualExclusion`, `EachCallOnce`, `FewLinesBroken` | the last two: finitely many threads |
| `ClientProofs` | `ClientTypes`, `NoChildLeft`, `EdgesKept`, `LinesInOrder`, `TextsInOrder` | none |
| `StartupProofs` | `StartupTypes`, `WalkLeavesOneSocket`, `NobodyBeginsEarly`, `LastValueCounts`, `UnknownStops` | none |
| `CommandsProofs` | `FirstSymbolDecides`, `ChatComesThrough`, `HidesTheBlocked`, `PrivateReachesNamed`, `LastMentionDecides` | none |

One worker (`OneWorker`) is a restriction. The server starts as many workers as the machine has
processors unless `-w` says otherwise (`servermain.cpp` 38-39, `get_nprocs()`; `def |-> Cores` in
`CmdLine`), so one worker means `-w 1` or a machine with one processor. On every other machine the
default is several workers: `lost_event`, the registry between `close` and `erase`, and `RaceCrash`
apply there, and of the server's properties only `TypeOK`, `MuxHeld`, `EventsFilled`, `NoEcho` and
`SocketsOK` (`OneDescriptor`) are proved or checked. Resets are no restriction any more than in the
code: every theorem allows them at any time. A client for whom there is no descriptor ends the server
(251), which `EndsKnown` excludes by `EnoughFds`.

**Server, any number of workers.** `TypeOK` alone is not inductive. A handler needs a real descriptor
(`ClientInfo` is looked up at `fd`), and it has one because `NextEvent` reads it from an element that
was filled, and because the index is inside the batch. So the inductive invariant is
`IInv == SharedOK /\ ThreadsOK /\ EventsFilled /\ MuxHeld`, where `ThreadOK` says of each place in
the code what the locals are good for. `EventsFilled` holds through the races: `epoll_wait` overwrites
elements, never unfills one. `BatchStep`, `ReturnStep`, `GotoStep`, `LeaveStep`, `DieStep` and
`SendStep` say once what the common kinds of step preserve; each action is then reduced to one.

`SocketsOK` adds a connection's life: it waits in the accept queue once, then it has one descriptor,
and no other before or after. `NoEcho` follows with `HomeInv`: with `Homes` the pairs of a connection
and the descriptor it has or had, everything that is anywhere in the server (the text a handler
holds, the message being formatted, a name in the map) is at its sender's home. Homes only grow,
so the races over descriptors that are closed and given again cannot bring a line back to
its sender.

**Server, one worker.** `Base` says that the batch is fresh: what the worker has still to look at are
descriptors that are open, each another one, watched and nonblocking. This is what two workers break
(`lost_event`). `WakeInv` (`NoLostWakeup`) then says of each connection whose input waits that epoll
has it ready, or it is in the rest of the batch, or the worker is at its handler and has not met
EAGAIN. It holds with resets at any time.

`Tidy` says where resets come in: an event the worker takes for an error is one of a connection that
was reset (`ErrsOK`), and the branch for errors closes no other. `RegInv` says that the map is as
`RegistryExact` has it everywhere but at `Unlisted`, the places between `accept` and `insert`, and
between `close` and `erase`, where it is off by the one descriptor the worker has in hand. `ServerInv`
is the conjunction; connections that were reset stay so (`ResetsGrow`), so what a reset explains it
explains for good. `EndsKnown` needs also that `accept` finds a descriptor (`EnoughFds`: finitely many
clients, no more than `MaxFd`); the pigeonhole is counted with the library's theorems about
`Cardinality`.

`SpeechInv` counts messages: `Taken`, how many of a connection's messages the server has taken, of
which the handler has `Held` in hand. `SeatOK` says what a descriptor has for an entry: its connection's
own (`EntryOK`: an empty name until the first messages are handled, and from then on a name that is a
prefix of what its connection sent); one left behind by a connection that was reset after it was
accepted (`Inherited`, `Gone`); or one without a name whose connection was reset before it got one. A
text in hand is the messages that come next (`TextOK`). From that follows under whose name a line goes
out, and whom a private message finds by the name it asks for. `ReachInv` follows the loop of
`broadcast`: all open descriptors below the place it stands on have been sent the message.

`HeardAsSent` needs no more than `Base` and `HomeInv`. `HearInv` says that the
lines in an inbox are in order and were taken (their numbers are at most `Taken`), that the text a
handler reads is behind all that anyone has heard, and that the line a broadcast sends is behind all
that the users above its place have heard. What `recv` takes next has the number `Taken + 1`, so it
is behind everything; and when the loop passes a user, only the inbox it leaves behind grows.

**The room.** `RoomImplemented` is `Spec => ImplementsRoom`: `Init` is the room's `Init`, and each step
of the server is one of the room's or changes nothing there. It needs that there is a worker, since
the mapping looks at its locals. The proof looks first at the books alone (`Book`, the mapping without
the closing), as long as no connection was reset (`Orderly`, which has `RegInv` with nothing to except).
To this, `HomeInv` and `SpeechInv` it adds `Books`: no client has two entries; whom the worker parts
with (`Parting`, between the end of the stream and `erase`) has hung up and has no message left; a
leave notice has the name of the entry; and the rows of a list are the owners of the entries it has
passed. `Insert` is the room's `Enter`, `SetNick` its `ChooseName`, `Talk` its `Speak` and `Erase` its
`Leave`; a step of one of the loops is `Tell` when it sends, `Yield` when it ends, and nothing when it
passes an entry the announcement is not for; `ClientSend` is `Write` and `ClientClose` is `HangUp`.
Every other step is one the room does not see (`Unnoticed`): above all `Recv`, which moves a message
from the socket to the text in hand, two parts of what the room calls the queue. That the map goes by
address and the server by descriptor is where the work is: a loop step at a descriptor tells the user
whose entry it is only because that entry is exact at that moment, which is `RegInv`. `NextTalk` sums
this up, and `AsBooked` says that the mapping is the books as long as nobody was reset. The step that
makes the first reset is `Disturb`, and from then on the room is closed and its image does not change.

**Logger.** `LinesUnmixed` speaks of the file only and is not inductive; `LogInv` adds who holds the
mutex, that a stream is there from the lock on, that it is empty while nobody is between lock and
clear (`StreamClean`), and that the thread inside finds in the current stream its own line from some
part on (`LineSoFar`): from part 0, or from where it was when another thread replaced the stream. For
`EachCallOnce` the number of lines is the sum over the threads of the calls that have come past
`Write`. The sum is a fold, which is no recursion the provers follow, so `SumChange` (one summand
changes by one) is proved from the fold's equations by the least counterexample. `FewLinesBroken` has
`BrokenInv`: every line without its front, and one that is being put together now, has used up a
thread that had found no stream; one of those threads made the first stream and cost nothing.

**Client.** The parent ends by a flag set earlier, when a read of the pipe gave nothing. That this means
the end of the child needs `PipeSeen` (an event of the pipe in hand means lines, or that nobody holds
the writing end), `OnePipe` (a batch has the pipe once, so that nobody has read it since) and
`ChildHolds` (a child that lives holds the writing end). `EdgesKept` goes step by step: no step makes a
descriptor with input `Missed` but the read of the pipe that takes lines and leaves others, or the end
of file, behind (`KeepsEdges`); so the socket never is. A read of the pipe takes MAXLINE bytes once per
edge (291), and nothing in the code sees to the rest. The orders: `LinesInv` and `TextsInv` say that the
places a line (a text) passes, laid end to end, are one queue whose numbers climb, with what has not
been typed (sent) yet beyond its end. For texts the places are what is shown, what was read, what waits
in the socket and what is under way, and a part of a text counts as the text. `FlattenSeq`, `Upto` and
`AsString` are unfolded by the least element of a set of numbers, which `MinIn` takes from the
well-foundedness of `<`.

**Start.** Both starts share their steps, so `StartInv` says per stage and program what is done by
when: `WalkOK` (the socket of the address the walk is at), `ListenOK`, `OrderOK` (watched, then
nonblocking, then threads).

For the arguments, `ParseInv` says that the loop stands at the place of an option, never at a value
that belongs to the argument before it, and that all behind it is read as it was meant (`ReadTo`),
unless there is an error already or a call for help, with which the program will not go on. Whether
an argument is a value (`IsValue`) is defined from the front of the line on, as the loop goes: in a
run of arguments that could each be an option that takes the next, it is every second one. `ParseInit`
bounds the number of arguments only so that TLC can enumerate them, and `MaxArgs` is any number.

**Commands.** `TextOK` says what the line is at each place: `Meant`, the line without the blanks before
it, with its end behind it after the child's trim, alone from the pipe on, and behind the sender's name
in brackets from the server on; and which first symbols it no longer has there. The rest is what `trim`,
`substr` and the searches do to such a text, for sequences of any length (`TrimMeant`, `CutSay`,
`PrivateParts`). That a private message ends the server just when its blanks are as `NoName` says comes
from the same positions. `PrivateWord` depends on where the two blanks are: the count before the last
one is the end of the name only because the name begins two places into the line. For `BlockAsTold`,
`Words` and `BlockFold` are folds over the places of a line. `FoldExists` takes a fold apart by the
least number of places for which no function has the fold's equations; `WordsAre` says that the fold of
`strtok` makes words without blanks, and `LastMention` follows the set of names from the last mention of
one to the end of the line.

Only model-checked: everything temporal under fairness (`StartsOrEnds`, `CallsReturn`, and the liveness
properties of the server and the client), which is out of the prover's reach; and that the runs with
`expect` "violation" are violated. Every other property of the passing runs is a theorem.

## Plan

1. Done, models: `SocketLayer`, `Server`, `ServerProperties`; `ChatRoom`, `ServerRoom`; `Logger`;
   `Client`, `ClientProperties`; `Commands`; `CmdLine`, `Startup`.
2. Done, proofs: types and mutual exclusion of every component; `NoEcho` for any number of workers;
   wakeups, registry, the ends of the process, names, private messages, broadcast and the order of
   what is heard for one worker; that the server with one worker implements `ChatRoom`; all invariants
   of the logger, the client, the start, the option parser and the way of a line.

## Not modelled

* `TerminalPolicy` and `RemotePolicy` of the logger, which nothing instantiates; the time in a line.
* Of `cmdline.h`: `parse(std::string)`, `oneof`, `range`, required options, `footer`, `usage` and
  descriptions. The programs use none of them, or only print them. A negative `-w` makes the size of
  an array negative, for which the compiler promises nothing; it is not enumerated.
* Lines longer than MAXLINE - 1, and a last line without its newline, which `trim` and `write` cut by
  a byte. `sprintf` into MAXLINE bytes of glued texts longer than that. The server's side of a block
  that arrives in parts (`recv` of less than MAXLINE), and what a block taken in part shifts at the
  other end: the server's reads behind the client's partial send, the client's behind the server's.
* `errExit`'s messages, `ename.c.inc`, the banner, `system("clear")`, the build.
* The destructor of `Server` after `main` has joined the workers, beyond the end of the process.
