------------------------------ MODULE ChatRoom ------------------------------
(***************************************************************************)
(* The chat room as its users see it: who is in it, under what name, and   *)
(* what everyone hears.  There are no descriptors, events or loops here;   *)
(* one announcement is made at a time, to everyone it is meant for.        *)
(* ServerRoom shows that a server with one worker implements it.           *)
(*                                                                         *)
(* The room is one of users who leave by hanging up.  Once a user's line   *)
(* has broken down (Disturb) it is closed and promises nothing.            *)
(***************************************************************************)
EXTENDS Integers, Sequences

CONSTANTS
  Users,      \* who may come
  Messages,   \* what they may send: src, no, form and to, as in SocketLayer
  Slow,       \* users who may miss an announcement, or a part of it, their connection being full
  Garbage,    \* no name: what a leave tells, or a private message asks for, may be unreadable
  Idle        \* nobody has the floor

VARIABLES
  present,    \* the users in the room
  name,       \* per user: the text it is known by, empty before it has chosen one
  queue,      \* per user: the messages it has sent and the room has not taken up
  floor,      \* the announcement being made and the users still to be told
  gone,       \* users who have hung up
  heard,      \* per user: the announcements it has been told
  closed      \* TRUE once a line has broken down

roomVars == <<present, name, queue, floor, gone, heard, closed>>

Notice(kind, nick, body, rows) ==
  [kind |-> kind, nick |-> nick, body |-> body, rows |-> rows, cut |-> FALSE]
Announcement(notice, left) == [notice |-> notice, left |-> left]

Empty ==
  /\ present = {} /\ gone = {} /\ floor = Idle
  /\ name = [u \in Users |-> <<>>]
  /\ queue = [u \in Users |-> <<>>]
  /\ heard = [u \in Users |-> <<>>]

Init == Empty /\ ~closed

\* What heard may become when u is told something.
Told(u, notice) ==
  (IF u \in gone THEN {} ELSE {[heard EXCEPT ![u] = Append(@, notice)]})
    \union (IF u \in Slow \ gone THEN {[heard EXCEPT ![u] = Append(@, [notice EXCEPT !.cut = TRUE])]}
                                  ELSE {})
    \union (IF u \in gone \union Slow THEN {heard} ELSE {})

Write(u) ==
  /\ u \notin gone
  /\ \E m \in Messages : m.src = u /\ queue' = [queue EXCEPT ![u] = Append(@, m)]
  /\ UNCHANGED <<present, name, floor, gone, heard>>

HangUp(u) ==
  /\ u \notin gone
  /\ gone' = gone \union {u}
  /\ UNCHANGED <<present, name, queue, floor, heard>>

Enter(u) ==
  /\ floor = Idle /\ u \notin present
  /\ present' = present \union {u}
  /\ UNCHANGED <<name, queue, floor, gone, heard>>

\* The room takes up the first k messages of u, which have come in together.
Taken(u, k) == SubSeq(queue[u], 1, k)
Take(u, k) ==
  /\ floor = Idle /\ u \in present
  /\ queue' = [queue EXCEPT ![u] = SubSeq(@, k + 1, Len(@))]

\* What u sends first is its name.
ChooseName(u, k) ==
  /\ name[u] = <<>>
  /\ Take(u, k)
  /\ name' = [name EXCEPT ![u] = Taken(u, k)]
  /\ floor' = Announcement(Notice("welcome", Taken(u, k), <<>>, {}), present \ {u})
  /\ UNCHANGED <<present, gone, heard>>

\* Whom a private text asks for.  "> NAME WORD", with more words behind it, asks for the user
\* who has called itself NAME.  The name may get lost, and the text then asks for users without
\* one; a text with no name in it does so anyway, and one with another command in it may ask
\* for nobody.
FirstWord(u) == <<[src |-> u, no |-> 1, form |-> "word", to |-> u]>>
AskedFor(text) ==
  {<<>>} \union IF \E i \in 2..Len(text) : text[i].form # "word" THEN {Garbage}
                ELSE IF Head(text).form = "private" THEN {FirstWord(Head(text).to)} ELSE {}

\* What the room may announce when u has uttered a text.
Uttered(u, text) ==
  CASE Head(text).form = "show" ->
         {Announcement(Notice("users", <<>>, <<>>, present), {u})}
    [] Head(text).form \in {"private", "nameless", "blanks"} ->
         {Announcement(Notice("private", asked, text, {}), {v \in present : name[v] = asked}) :
            asked \in AskedFor(text)}
    [] OTHER ->
         {Announcement(Notice("say", name[u], text, {}), present \ {u})}

\* A user that is alone is told so first.
Speak(u, k) ==
  /\ name[u] # <<>>
  /\ Take(u, k)
  /\ floor' \in Uttered(u, Taken(u, k))
  /\ heard' \in IF present = {u} THEN Told(u, Notice("caution", <<>>, <<>>, {})) ELSE {heard}
  /\ UNCHANGED <<present, name, gone>>

\* A user that has hung up leaves; what it sent last is dropped.
Leave(u) ==
  /\ floor = Idle /\ u \in present \intersect gone
  /\ present' = present \ {u}
  /\ name' = [name EXCEPT ![u] = <<>>]
  /\ queue' = [queue EXCEPT ![u] = <<>>]
  /\ \E nick \in {name[u], Garbage} :
       floor' = Announcement(Notice("leave", nick, <<>>, {}), present')
  /\ UNCHANGED <<gone, heard>>

\* One more user is told; the floor may be given up with the last one.
Tell(u) ==
  /\ floor # Idle /\ u \in floor.left
  /\ heard' \in Told(u, floor.notice)
  /\ floor' \in {[floor EXCEPT !.left = @ \ {u}]} \union (IF floor.left = {u} THEN {Idle} ELSE {})
  /\ UNCHANGED <<present, name, queue, gone>>

Yield ==
  /\ floor # Idle /\ floor.left = {}
  /\ floor' = Idle
  /\ UNCHANGED <<present, name, queue, gone, heard>>

\* The room as long as nothing disturbs it.
Talk ==
  \/ \E u \in Users :
       \/ Write(u) \/ HangUp(u) \/ Enter(u) \/ Leave(u) \/ Tell(u)
       \/ \E k \in 1..Len(queue[u]) : ChooseName(u, k) \/ Speak(u, k)
  \/ Yield

\* A line breaks down: the room is cleared for good.
Disturb ==
  /\ closed' = TRUE
  /\ Empty'

Next ==
  \/ ~closed /\ Talk /\ UNCHANGED closed
  \/ ~closed /\ Disturb

Spec == Init /\ [][Next]_roomVars
=============================================================================
