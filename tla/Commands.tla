------------------------------ MODULE Commands ------------------------------
(***************************************************************************)
(* The way of one typed line, character by character: the child of the     *)
(* sender trims and cuts it, the parent keeps commands to itself, the      *)
(* server looks for its own commands and passes the rest on, the client of *)
(* a receiver looks who it is from (common.h, client.hpp, server.hpp).     *)
(*                                                                         *)
(* A text is a sequence of symbols: a symbol is a character, or a word the *)
(* code compares as a whole ("exit", "$ show users").  Both users have     *)
(* chosen their nicknames, and the line comes through as one message.      *)
(* Operators marked "Mutant" are no part of the model.                     *)
(***************************************************************************)
EXTENDS Integers, Sequences, FiniteSets, FiniteSetsExt, SequencesExt

CONSTANTS
  Lines,    \* what the sender may type
  Nicks,    \* the nicknames the sender may have
  Online,   \* the nicknames in the map of clients, <<>> of one who has not chosen yet
  Granule   \* to how many bytes the compiler rounds an array of variable length

ASSUME CommandsAssumption ==
  /\ Lines \subseteq Seq(STRING) /\ Nicks \subseteq Seq(STRING) /\ Online \subseteq Seq(STRING)
  /\ Granule \in Nat \ {0}

VARIABLES
  typed,    \* the line
  nick,     \* of the sender
  theirs,   \* blocked_user of the receiver
  stage,    \* how far the line has come, and where it has ended
  text,     \* the line as it is there
  blocked,  \* blocked_user of the sender
  to        \* the nicknames a private message is sent to

vars == <<typed, nick, theirs, stage, text, blocked, to>>

Ends == {"nothing", "left", "cleared", "blocked", "listed", "users", "killed", "unsent",
         "shown", "withheld", "printed", "hidden"}

Blank == " "
NewLine == "\n"

-----------------------------------------------------------------------------
(* Characters.                                                             *)

\* trim.  Of an empty text it makes an empty text, for the byte before it is no blank.
Trim(s) ==
  IF s = <<>> THEN s
  ELSE SubSeq(s, SelectInSeq(s, LAMBDA c : c # Blank), SelectLastInSeq(s, LAMBDA c : c # Blank))

\* Blanks alone: the length is computed below zero, and strncpy runs out of memory.
TrimDies(s) == s # <<>> /\ Range(s) = {Blank}

\* std::string::substr, positions counted from 0.
Substr(s, pos, n) == SubSeq(s, pos + 1, Min({pos + n, Len(s)}))

\* strtok with " ": the words between the blanks.  A word goes from a place that is no blank,
\* at the start or behind a blank, to the next blank.
Token(s, k) == SubSeq(s, k, Max({e \in k..Len(s) : \A j \in k..e : s[j] # Blank}))
Words(s) ==
  FoldLeft(LAMBDA ws, k : IF s[k] # Blank /\ (k = 1 \/ s[k - 1] = Blank)
                          THEN Append(ws, Token(s, k)) ELSE ws,
           <<>>, [k \in DOMAIN s |-> k])

-----------------------------------------------------------------------------
(* The sender's client.                                                    *)

Init ==
  /\ typed \in Lines /\ nick \in Nicks
  /\ theirs \in {{}} \union {{n} : n \in Nicks}
  /\ stage = "typed"
  /\ text = typed
  /\ blocked \in {{}} \union {{n} : n \in Online \ {<<>>}}
  /\ to = {}

Goto(s) == stage' = s /\ UNCHANGED <<typed, nick, theirs>>

\* Mutant: no trim.
ChildKeepsBlanks ==
  /\ stage = "typed"
  /\ text' = Append(text, NewLine)
  /\ Goto("trimmed") /\ UNCHANGED <<blocked, to>>

\* Mutant: the line is trimmed without its end.
ChildTrimsBoth ==
  /\ stage = "typed"
  /\ text' = Append(IF TrimDies(text) THEN <<>> ELSE Trim(text), NewLine)
  /\ Goto("trimmed") /\ UNCHANGED <<blocked, to>>

\* fgets keeps the end of the line, so trim finds it behind the blanks at the end.
ChildTrim ==
  /\ stage = "typed"
  /\ text' = Trim(Append(text, NewLine))
  /\ Goto("trimmed") /\ UNCHANGED <<blocked, to>>

\* What write is given: strlen(message) - 1 bytes, all but the end of the line.
Written(s) == Front(s)

ChildRoute ==
  /\ stage = "trimmed"
  /\ text' = Written(text)
  /\ Goto(CASE Head(text) = "exit"    -> "left"
            [] Head(text) = "clear"   -> "cleared"
            [] text = <<NewLine>>     -> "nothing"
            [] OTHER                  -> "pipe")
  /\ UNCHANGED <<blocked, to>>

\* Mutant: unblocking is left out.
BlockOnly(s, old) ==
  FoldLeft(LAMBDA b, w : IF Head(w) = "!" THEN b ELSE b \union {w}, old, Tail(Words(s)))

\* handle_block_cmd: the first token is dropped, the others are names, or "!" and a name.
BlockFold(s, old) ==
  FoldLeft(LAMBDA b, w : IF Head(w) = "!" THEN b \ {Tail(w)} ELSE b \union {w}, old, Tail(Words(s)))

ParentRoute ==
  /\ stage = "pipe"
  /\ CASE Head(text) = "#" -> Goto("blocked") /\ blocked' = BlockFold(text, blocked)
       [] Head(text) = "$ show blocked" -> Goto("listed") /\ UNCHANGED blocked
       [] OTHER -> Goto("server") /\ UNCHANGED blocked
  /\ UNCHANGED <<text, to>>

-----------------------------------------------------------------------------
(* The server.                                                             *)

FirstBlank(s) == SelectInSeq(s, LAMBDA c : c = Blank) - 1
LastBlank(s) == SelectLastInSeq(s, LAMBDA c : c = Blank) - 1

\* Mutant: the name is taken a byte short.
NameShort(s) == IF Blank \in Range(s) THEN Substr(s, FirstBlank(s) + 1, LastBlank(s) - 3) ELSE s

\* The name: from behind the first blank, as many bytes as there are before the last one but
\* one.  Without a blank both positions are npos, and name and message are the whole line.
NameOf(s) == IF Blank \in Range(s) THEN Substr(s, FirstBlank(s) + 1, LastBlank(s) - 1) ELSE s
MessageOf(s) == IF Blank \in Range(s) THEN Substr(s, LastBlank(s) + 1, Len(s)) ELSE s

\* trim ends msg_c with a zero behind its last byte, where name_c may begin.
NameRead(name, msg) == IF Len(msg) % Granule = 0 THEN {name, <<>>} ELSE {name}

Private ==
  LET name == NameOf(text)
      msg == MessageOf(text) IN
  IF TrimDies(name) THEN Goto("killed") /\ UNCHANGED <<text, to>>
  ELSE /\ text' = Trim(msg)
       /\ \E read \in NameRead(Trim(name), msg) : to' = {n \in Online : n = read}
       /\ Goto(IF to' = {} \/ text' = <<>> THEN "unsent" ELSE "private")

Say(n, s) == <<"[">> \o n \o <<"]", "say">> \o s

ServerRoute ==
  /\ stage = "server"
  /\ CASE Head(text) = "$ show users" -> Goto("users") /\ UNCHANGED <<text, to>>
       [] Head(text) = ">" -> Private
       [] OTHER -> Goto("chat") /\ text' = Say(nick, text) /\ UNCHANGED to
  /\ UNCHANGED blocked

-----------------------------------------------------------------------------
(* The receiver's client.                                                  *)

Place(c, stream) == SelectInSeq(stream, LAMBDA d : d = c)

\* Mutant: the name is taken with its bracket.
CutWithBracket(stream) == Substr(stream, Place("[", stream), Place("]", stream) - 1)

\* substr(start + 1, end - 1); with end = 0 the second argument is the largest size_t.
CutName(stream) ==
  Substr(stream, Place("[", stream),
         IF Place("]", stream) = 1 THEN Len(stream) ELSE Place("]", stream) - 2)

\* A bracket at the start is taken for that of a chat line, one at position 15 for that of a
\* greeting, which has it there but for its colours (common.h:20).
Unwanted(stream) ==
  Place("[", stream) \in {1, 16} /\ "]" \in Range(stream) /\ CutName(stream) \in theirs

ShowChat ==
  /\ stage = "chat"
  /\ Goto(IF Unwanted(text) THEN "hidden" ELSE "printed")
  /\ UNCHANGED <<text, blocked, to>>

\* A private message comes as it is: nothing in it says who it is from.
ShowPrivate ==
  /\ stage = "private"
  /\ Goto(IF Unwanted(text) THEN "withheld" ELSE "shown")
  /\ UNCHANGED <<text, blocked, to>>

Next == ChildTrim \/ ChildRoute \/ ParentRoute \/ ServerRoute \/ ShowChat \/ ShowPrivate

Spec == Init /\ [][Next]_vars

-----------------------------------------------------------------------------
(* What becomes of a line.                                                 *)

\* The line without the blanks before it.
Meant == LET chars == {i \in DOMAIN typed : typed[i] # Blank} IN
         IF chars = {} THEN <<>> ELSE SubSeq(typed, Min(chars), Len(typed))

\* The blanks of a line are more than one, all in one place, behind its first symbol or at its
\* end: as a private message it names nobody.
NoName(s) ==
  \E a, b \in DOMAIN s : /\ a < b /\ (a = 2 \/ b = Len(s))
                         /\ \A i \in DOMAIN s : s[i] = Blank <=> i \in a..b

\* The first thing typed that is no blank decides where a line ends: commands of the client
\* never leave it, and a private message is never broadcast.  Such a message ends the server
\* if its name is blanks alone, and only then.
RouteByFirst ==
  stage \in Ends =>
    IF Meant = <<>> THEN stage = "nothing"
    ELSE CASE Head(Meant) = "exit"             -> stage = "left"
           [] Head(Meant) = "clear"            -> stage = "cleared"
           [] Head(Meant) = "#"                -> stage = "blocked"
           [] Head(Meant) = "$ show blocked"   -> stage = "listed"
           [] Head(Meant) = "$ show users"     -> stage = "users"
           [] Head(Meant) = ">"                -> IF NoName(Meant) THEN stage = "killed"
                                                  ELSE stage \in {"unsent", "shown", "withheld"}
           [] OTHER                            -> stage \in {"printed", "hidden"}

\* A chat line comes to the others as it was typed, with the blanks at its end.
ChatVerbatim == stage \in {"printed", "hidden"} => text = Say(nick, Meant)

\* "# a !b ..." as the help says: a name that is mentioned is blocked afterwards if and only
\* if its last mention is without "!".
Mentions(n) == {i \in DOMAIN Words(Meant) : i > 1 /\ Words(Meant)[i] \in {n, <<"!">> \o n}}
BlockAsTold ==
  stage = "blocked" => \A n \in Online \ {<<>>} : Mentions(n) # {} /\ Head(n) # "!" =>
    (n \in blocked <=> Words(Meant)[Max(Mentions(n))] = n)

\* A private message of one word goes to the user it names, as it was typed, and to no other.
\* The one exception is a word that fills its array: the name may be read as empty, and the
\* word goes to those who have not chosen a nickname.
PrivateWord ==
  LET ws == Words(Meant) IN
  /\ stage \in Ends /\ Len(ws) = 3 /\ ws[1] = <<">">> /\ ws[2] \in Online
  /\ Meant = ws[1] \o <<Blank>> \o ws[2] \o <<Blank>> \o ws[3]
  => /\ text = ws[3] /\ stage \in {"unsent", "shown", "withheld"}
     /\ to = {ws[2]} \/ (Len(ws[3]) % Granule = 0 /\ to = Online \intersect {<<>>})

\* A receiver is shown the chat lines of those it has not blocked, as long as no nickname
\* has a "]" in it.
FilterExact ==
  stage \in {"printed", "hidden"} /\ "]" \notin Range(nick) =>
    (stage = "hidden" <=> nick \in theirs)

\* "> Bob how are you? : send 'how are you?' only to Bob if bob not block you" (README.md:34,
\* client.hpp:102): who has blocked the sender is not shown its private messages.
BlockHolds == stage = "shown" => nick \notin theirs
=============================================================================
