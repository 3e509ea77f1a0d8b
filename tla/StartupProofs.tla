--------------------------- MODULE StartupProofs ---------------------------
(***************************************************************************)
(* Proofs about Startup, for every command line, every set of options'     *)
(* values and every number of addresses.  The server's and the client's    *)
(* starts share their steps, so what is done by when depends on both the   *)
(* stage and the program.  What the arguments mean depends on which of     *)
(* them are values: the parser's loop stands at a place that is none.      *)
(***************************************************************************)
EXTENDS Startup, TLAPS, WellFoundedInduction, SequenceTheorems

\* The stages after the walk over the addresses.
Settled == {"listen", "pipe", "epoll", "watch", "nonblock", "create", "up"}

\* The walk has at most the socket of the address it is at.
WalkOK ==
  /\ stage \in {"parse", "resolve", "socket"} => open = {}
  /\ stage = "socket" => at >= 1
  /\ stage \in Settled \union {"attach", "close"} => at \in 1..addrs /\ open = {at}

\* Only a server listens, and it does before anything is watched.
ListenOK ==
  /\ program \in {"server", "client"}
  /\ stage = "pipe" => program = "client"
  /\ stage \in {"epoll", "watch", "nonblock", "create", "up"} /\ program = "server" => listening

\* All that is wanted is watched first and made nonblocking then; threads come last.
OrderOK ==
  /\ stage \notin {"create", "up", "ended"} => others = 0
  /\ stage \in {"create", "up"} => watched = Wanted /\ nonblock = Wanted
  /\ stage = "nonblock" => watched = Wanted /\ nonblock \subseteq Wanted /\ nonblock # Wanted
  /\ stage \notin {"nonblock", "create", "up", "ended"} =>
       /\ nonblock = {}
       /\ watched \subseteq Wanted /\ watched # Wanted

StartInv == StartupTypeOK /\ WalkOK /\ ListenOK /\ OrderOK /\ ReadyBeforeUse

-----------------------------------------------------------------------------
(* Lemmas.                                                                 *)

\* A turn of the parser's loop leaves the program and its stage alone.
LEMMA ParseKeeps ==
  ASSUME ParseArgument
  PROVE  UNCHANGED <<program, stage, code>>
BY DEF ParseArgument, LongWithValue, Long, Short, Other, Step

\* Parsing begins at the first stage.
LEMMA ParsingStage ==
  ASSUME ParseArgument
  PROVE  stage = "parse"
BY DEF ParseArgument, LongWithValue, Long, Short, Other, Parsing

\* What is picked next is wanted and has not been done.
LEMMA PickWanted ==
  ASSUME ListenOK, NEW done, done \subseteq Wanted, done # Wanted
  PROVE  Pick(done) \in Wanted \ done
BY DEF Pick, Wanted, ListenOK

\* What is wanted is among the two descriptors there are.
LEMMA WantedIn == Wanted \subseteq {"sock", "pipe"} /\ Wanted # {}
BY DEF Wanted

-----------------------------------------------------------------------------
\* Nothing is open, watched or started when main begins.
LEMMA StartInvInit ==
  ASSUME Init
  PROVE  StartInv
<1>1. StartupTypeOK
  <2>1. addrs \in 0..MaxAddrs /\ at \in 0..addrs + 1 /\ others \in Nat
    BY StartupAssumption DEF Init
  <2>2. stage \in Stages /\ code = "none" /\ stage # "ended"
    BY DEF Init, Stages
  <2> QED
    BY <2>1, <2>2 DEF Init, StartupTypeOK
<1>2. WalkOK
  BY DEF Init, WalkOK, Settled
<1>3. ListenOK
  BY DEF Init, ParseInit, ListenOK
<1>4. OrderOK
  BY WantedIn DEF Init, OrderOK
<1>5. ReadyBeforeUse
  BY DEF Init, ReadyBeforeUse
<1> QED
  BY <1>1, <1>2, <1>3, <1>4, <1>5 DEF StartInv

\* Every system call, and every argument parsed, keeps the invariant.
LEMMA StartInvStep ==
  ASSUME StartInv, [Next]_vars
  PROVE  StartInv'
<1> USE DEF StartInv, StartupTypeOK, Stages, WalkOK, Settled, ListenOK, OrderOK, ReadyBeforeUse,
            Wanted, Fail, Goto, startVars, parseVars
<1>1. CASE Parse
  <2>1. CASE ParseArgument
    BY <1>1, <2>1, ParseKeeps DEF Parse
  <2>2. CASE Check
    BY <1>1, <2>2 DEF Parse, Check
  <2> QED
    BY <1>1, <2>1, <2>2 DEF Parse
<1>2. CASE Resolve
  BY <1>2, StartupAssumption DEF Resolve
<1>3. CASE Socket
  <2> USE <1>3 DEF Socket
  <2>1. CASE at > addrs
    BY <2>1
  <2>2. CASE at <= addrs /\ open' = open \union {at} /\ Goto("attach") /\ UNCHANGED at
    <3>1. at \in 1..addrs
      BY <2>2
    <3>2. StartupTypeOK'
      BY <2>2, <3>1
    <3>3. WalkOK'
      BY <2>2, <3>1
    <3> QED
      BY <2>2, <3>2, <3>3
  <2>3. CASE at <= addrs /\ at' = at + 1 /\ Goto("socket") /\ UNCHANGED open
    <3>1. at + 1 \in 1..addrs + 1
      BY <2>3
    <3> QED
      BY <2>3, <3>1
  <2> QED
    BY <2>1, <2>2, <2>3
<1>4. CASE Attach
  BY <1>4 DEF Attach
<1>5. CASE CloseSocket
  BY <1>5 DEF CloseSocket
<1>6. CASE Listen
  BY <1>6 DEF Listen
<1>7. CASE MakePipe
  BY <1>7 DEF MakePipe
<1>8. CASE MakeEpoll
  BY <1>8 DEF MakeEpoll
<1>9. CASE Watch
  BY <1>9, PickWanted DEF Watch
<1>10. CASE SetNonblock
  BY <1>10, PickWanted DEF SetNonblock
<1>11. CASE Create
  BY <1>11 DEF Create
<1>12. CASE Up
  BY <1>12 DEF Up
<1>13. CASE UNCHANGED vars
  BY <1>13 DEF vars
<1> QED
  BY <1>1, <1>2, <1>3, <1>4, <1>5, <1>6, <1>7, <1>8, <1>9, <1>10, <1>11, <1>12, <1>13
     DEF Next, Start

-----------------------------------------------------------------------------
(* The arguments.                                                          *)

\* A set of numbers has a least one.
LEMMA Least ==
  ASSUME NEW S \in SUBSET Nat, S # {}
  PROVE  Min(S) \in S /\ \A y \in S : Min(S) <= y
<1>1. PICK x \in S : \A y \in S : ~ (<<y, x>> \in OpToRel(<, Nat))
  BY WFMin, NatLessThanWellFounded
<1>2. ASSUME NEW y \in S PROVE x <= y
  <2>1. ~ (<<y, x>> \in {ss \in Nat \X Nat : ss[1] < ss[2]}) /\ <<y, x>> \in Nat \X Nat
    BY <1>1 DEF OpToRel
  <2> QED
    BY <2>1
<1> QED
  BY <1>2 DEF Min

\* The places from which on to k every one is in W.
Run(W, k) == {j \in 1..k : \A m \in j..k - 1 : m \in W}
Odd(W, k) == (k - Min(Run(W, k))) % 2 = 1

\* A place is odd if the one before is in W and not odd.
LEMMA OddAfter ==
  ASSUME NEW W, NEW k \in Nat \ {0}
  PROVE  ~Odd(W, 1) /\ (Odd(W, k + 1) <=> k \in W /\ ~Odd(W, k))
<1>1. \A j \in Nat \ {0} : j \in Run(W, j) /\ Run(W, j) \in SUBSET (1..j)
  BY DEF Run
<1>2. Min(Run(W, 1)) = 1
  BY <1>1, Least
<1>3. ~Odd(W, 1)
  BY <1>2 DEF Odd
<1>4. CASE k \notin W
  <2>1. Run(W, k + 1) = {k + 1}
    BY <1>4 DEF Run
  <2>2. Min(Run(W, k + 1)) = k + 1
    BY <2>1, Least
  <2> QED
    BY <1>3, <1>4, <2>2 DEF Odd
<1>5. CASE k \in W
  <2>1. Run(W, k + 1) = Run(W, k) \union {k + 1}
    BY <1>5 DEF Run
  <2> DEFINE a == Min(Run(W, k))
             b == Min(Run(W, k + 1))
  <2>2. a \in Run(W, k) /\ \A y \in Run(W, k) : a <= y
    BY <1>1, Least
  <2>3. b \in Run(W, k + 1) /\ \A y \in Run(W, k + 1) : b <= y
    BY <1>1, Least
  <2>4. a = b /\ a \in 1..k
    BY <1>1, <2>1, <2>2, <2>3
  <2> HIDE DEF a, b
  <2>5. (k + 1 - a) % 2 = 1 <=> (k - a) % 2 # 1
    BY <2>4
  <2> QED
    BY <1>3, <1>5, <2>4, <2>5 DEF Odd, a, b
<1> QED
  BY <1>4, <1>5

-----------------------------------------------------------------------------
(* The command line.                                                       *)

\* The values an option is given before place j.
Before(n, j) == {k \in Given(n) : k < j}

\* With the values a, all before place j is read as it was meant.
ReadTo(a, j) ==
  /\ \A n \in Valued :
       /\ \A k \in Before(n, j) : Valid(n, ValueAt(k))
       /\ a[n] = IF Before(n, j) = {} THEN Option(n).def ELSE ValueAt(Max(Before(n, j)))
  /\ \A k \in DOMAIN argv : k < j /\ ~IsValue[k] => Understood(k)

\* The loop stands at an option's place.  What is behind it is read as it was meant, unless
\* it is known that the program will not go on.
ParseInv ==
  /\ program \in {"server", "client"}
  /\ argv \in Seq(Arguments) /\ i \in 1..Len(argv) + 1
  /\ DOMAIN actual = Valued
  /\ i \in DOMAIN argv => ~IsValue[i]
  /\ stage \notin {"parse", "ended"} => i = Len(argv) + 1 /\ ~errors /\ "help" \notin has
  /\ errors \/ "help" \in has \/ ReadTo(actual, i)

\* The options of either program.
LEMMA Options ==
  ASSUME program \in {"server", "client"}
  PROVE  /\ "help" \notin Valued /\ Names = Valued \union {"help"}
         /\ \A l \in Letters : NameOf(l) \in Valued \/ NameOf(l) = "help"
<1>1. CASE program = "server"
  <2>1. /\ Valued = {"port", "workerNum"}
        /\ Lookup = {<<"p", "port">>, <<"w", "workerNum">>, <<"?", "help">>}
    BY <1>1 DEF Valued, Lookup, WithValue, ServerOptions
  <2>2. \A l \in Letters : \E x \in Lookup : x[1] = l
    BY DEF Letters
  <2>3. \A l \in Letters : NameOf(l) \in {x[2] : x \in Lookup}
    BY <2>2 DEF NameOf
  <2> QED
    BY <2>1, <2>3 DEF Names
<1>2. CASE program = "client"
  <2>1. /\ Valued = {"host", "port"}
        /\ Lookup = {<<"h", "host">>, <<"p", "port">>, <<"?", "help">>}
    BY <1>2 DEF Valued, Lookup, WithValue, ClientOptions
  <2>2. \A l \in Letters : \E x \in Lookup : x[1] = l
    BY DEF Letters
  <2>3. \A l \in Letters : NameOf(l) \in {x[2] : x \in Lookup}
    BY <2>2 DEF NameOf
  <2> QED
    BY <2>1, <2>3 DEF Names
<1> QED
  BY <1>1, <1>2

\* A value comes behind an option that wants one, and nowhere else.
LEMMA ValueBehind ==
  ASSUME argv \in Seq(Arguments)
  PROVE  /\ 1 \in DOMAIN argv => ~IsValue[1]
         /\ \A k \in 1..Len(argv) - 1 : IsValue[k + 1] <=> Wants(argv[k]) /\ ~IsValue[k]
<1> DEFINE W == {m \in DOMAIN argv : Wants(argv[m])}
<1>1. Len(argv) \in Nat /\ DOMAIN argv = 1..Len(argv)
  OBVIOUS
<1>2. ASSUME NEW k \in DOMAIN argv
      PROVE  IsValue[k] <=> Odd(W, k)
  <2>1. Run(W, k) = {j \in 1..k : \A m \in j..k - 1 : Wants(argv[m])}
    BY <1>1 DEF Run
  <2> QED
    BY <1>1, <2>1 DEF IsValue, Odd
<1> HIDE DEF W
<1>3. ASSUME NEW k \in 1..Len(argv) - 1
      PROVE  IsValue[k + 1] <=> Wants(argv[k]) /\ ~IsValue[k]
  <2>1. k \in Nat \ {0} /\ k \in DOMAIN argv /\ k + 1 \in DOMAIN argv
    BY <1>1
  <2>2. k \in W <=> Wants(argv[k])
    BY <2>1 DEF W
  <2> QED
    BY <1>2, <2>1, <2>2, OddAfter
<1>4. 1 \in DOMAIN argv => ~IsValue[1]
  BY <1>2, OddAfter
<1> QED
  BY <1>3, <1>4

\* An argument in an option's place has a value in it, or none; one behind it is the value of
\* the option that wants it.
LEMMA GivenAt ==
  ASSUME argv \in Seq(Arguments), NEW k \in DOMAIN argv, NEW n
  PROVE  /\ ~IsValue[k] => (k \in Given(n) <=> argv[k].kind = "long=" /\ argv[k].name = n)
         /\ IsValue[k] =>
              (k \in Given(n) <=> \/ argv[k - 1].kind = "long" /\ argv[k - 1].name = n
                                  \/ /\ argv[k - 1].kind = "short"
                                     /\ NameOf(Last(argv[k - 1].letters)) = n)
BY DEF Given

\* One more argument is read.
LEMMA ReadOne ==
  ASSUME argv \in Seq(Arguments), NEW j \in DOMAIN argv, NEW a, NEW b, ReadTo(a, j),
         \A n \in Valued : j \in Given(n) => Valid(n, ValueAt(j)) /\ b[n] = ValueAt(j),
         \A n \in Valued : j \notin Given(n) => b[n] = a[n],
         IsValue[j] \/ Understood(j)
  PROVE  ReadTo(b, j + 1)
<1>1. Len(argv) \in Nat /\ DOMAIN argv = 1..Len(argv) /\ j \in Int
  OBVIOUS
<1>2. ASSUME NEW n \in Valued
      PROVE  /\ \A k \in Before(n, j + 1) : Valid(n, ValueAt(k))
             /\ b[n] = IF Before(n, j + 1) = {} THEN Option(n).def
                       ELSE ValueAt(Max(Before(n, j + 1)))
  <2>1. Before(n, j + 1) \subseteq 1..j /\ Before(n, j) \subseteq 1..j - 1
    <3>1. Given(n) \subseteq DOMAIN argv
      BY DEF Given
    <3> QED
      BY <1>1, <3>1 DEF Before
  <2>2. CASE j \in Given(n)
    <3>1. Before(n, j + 1) = Before(n, j) \union {j}
      BY <1>1, <2>1, <2>2 DEF Before
    <3>2. Max(Before(n, j + 1)) = j
      BY <1>1, <2>1, <3>1 DEF Max
    <3> QED
      BY <2>2, <3>1, <3>2 DEF ReadTo
  <2>3. CASE j \notin Given(n)
    <3>1. Before(n, j + 1) = Before(n, j)
      BY <1>1, <2>1, <2>3 DEF Before
    <3> QED
      BY <2>3, <3>1 DEF ReadTo
  <2> QED
    BY <2>2, <2>3
<1>3. \A k \in DOMAIN argv : k < j + 1 /\ ~IsValue[k] => Understood(k)
  BY <1>1 DEF ReadTo
<1> QED
  BY <1>2, <1>3 DEF ReadTo

\* Letters that are flags without a value call for help.
LEMMA FlagsHelp ==
  ASSUME program \in {"server", "client"}, NEW ls \in Seq(STRING), ls # <<>>,
         Range(ls) \subseteq Letters, KnownIn(ls) \cap Valued = {}
  PROVE  "help" \in KnownIn(ls)
<1>1. ls[1] \in Range(ls) \cap Letters
  BY DEF Range
<1>2. NameOf(ls[1]) \in KnownIn(ls)
  BY <1>1 DEF KnownIn
<1> QED
  BY <1>1, <1>2, Options

\* What is before the last letter.
LEMMA BeforeLast ==
  ASSUME NEW ls \in Seq(STRING), ls # <<>>, Len(ls) # 1
  PROVE  Front(ls) \in Seq(STRING) /\ Front(ls) # <<>> /\ Range(Front(ls)) \subseteq Range(ls)
<1> DEFINE m == Len(ls)
           n == m - 1
<1>1. m \in Nat /\ m > 1
  <2>1. m \in Nat /\ m # 0 /\ m # 1
    BY EmptySeq
  <2> HIDE DEF m
  <2> QED
    BY <2>1
<1>2. n \in Nat /\ n # 0 /\ 1..n \subseteq 1..Len(ls) /\ DOMAIN ls = 1..Len(ls)
  BY <1>1
<1>3. \A k \in 1..n : ls[k] \in STRING
  BY <1>2
<1>4. Front(ls) = [k \in 1..n |-> ls[k]]
  BY <1>1 DEF Front
<1> HIDE DEF n
<1>5. Front(ls) \in Seq(STRING) /\ DOMAIN Front(ls) = 1..n
  BY <1>2, <1>3, <1>4
<1>6. Front(ls) # <<>>
  BY <1>2, <1>5
<1>7. Range(Front(ls)) \subseteq Range(ls)
  BY <1>2, <1>4 DEF Range
<1> QED
  BY <1>5, <1>6, <1>7

\* While the arguments stay, so does what they mean.
LEMMA SameMeaning ==
  ASSUME UNCHANGED <<program, argv>>, NEW j
  PROVE  /\ Valued' = Valued /\ IsValue' = IsValue
         /\ ReadTo(actual, j)' <=> ReadTo(actual', j)
<1>1. WithValue' = WithValue
  BY DEF WithValue
<1>2. Valued' = Valued /\ Lookup' = Lookup /\ \A n : Option(n)' = Option(n)
  BY <1>1 DEF Valued, Lookup, Option
<1>3. Letters' = Letters /\ \A l : NameOf(l)' = NameOf(l)
  BY <1>2 DEF Letters, NameOf
<1>4. \A a : Wants(a)' <=> Wants(a)
  BY <1>2, <1>3 DEF Wants
<1>5. IsValue' = IsValue
  BY <1>4 DEF IsValue
<1>6. \A k : ValueAt(k)' = ValueAt(k) /\ (Understood(k)' <=> Understood(k))
  BY <1>2, <1>4, <1>5 DEF ValueAt, Understood
<1>7. \A n : Given(n)' = Given(n)
  BY <1>3, <1>5 DEF Given
<1>8. \A n : Before(n, j)' = Before(n, j)
  BY <1>7 DEF Before
<1>9. \A n, v : Valid(n, v)' <=> Valid(n, v)
  BY <1>2 DEF Valid
<1> QED
  BY <1>2, <1>5, <1>6, <1>8, <1>9 DEF ReadTo

-----------------------------------------------------------------------------
(* The loop.                                                               *)

\* The loop goes on at place j with the values it has by then.
LEMMA LoopOn ==
  ASSUME ParseInv, UNCHANGED <<program, argv>>, stage' = "parse", NEW j \in Int, i' = j,
         j \in 1..Len(argv) + 1, j \in DOMAIN argv => ~IsValue[j],
         DOMAIN actual' = DOMAIN actual,
         errors' \/ "help" \in has' \/ ReadTo(actual', j)
  PROVE  ParseInv'
<1>1. Valued' = Valued /\ IsValue' = IsValue /\ (ReadTo(actual, j)' <=> ReadTo(actual', j))
  BY SameMeaning
<1>2. ReadTo(actual, i)' <=> ReadTo(actual', j)
  BY <1>1 DEF ReadTo, Before
<1> QED
  BY <1>1, <1>2 DEF ParseInv

\* What is known of an argument in an option's place.
LEMMA AtOption ==
  ASSUME ParseInv, NEW kind, Parsing(kind)
  PROVE  /\ argv \in Seq(Arguments) /\ i \in DOMAIN argv /\ i \in Nat \ {0} /\ Len(argv) \in Nat
         /\ argv[i].kind = kind /\ argv[i] \in Arguments /\ ~IsValue[i] /\ stage = "parse"
         /\ i + 1 \in DOMAIN argv <=> i < Len(argv)
         /\ i < Len(argv) => (IsValue[i + 1] <=> Wants(argv[i]))
         /\ i + 1 < Len(argv) => (IsValue[i + 2] <=> Wants(argv[i + 1]) /\ ~IsValue[i + 1])
         /\ i + 1 \in 1..Len(argv) + 1
<1>1. argv \in Seq(Arguments) /\ i \in 1..Len(argv) + 1 /\ stage = "parse" /\ i <= Len(argv)
      /\ argv[i].kind = kind /\ Len(argv) \in Nat
  BY DEF ParseInv, Parsing
<1>2. i \in 1..Len(argv) /\ DOMAIN argv = 1..Len(argv)
  BY <1>1
<1>3. ~IsValue[i]
  BY <1>2 DEF ParseInv
<1>4. i < Len(argv) => (IsValue[i + 1] <=> Wants(argv[i]))
  BY <1>1, <1>2, <1>3, ValueBehind
<1>5. i + 1 < Len(argv) => (IsValue[i + 2] <=> Wants(argv[i + 1]) /\ ~IsValue[i + 1])
  <2>1. i + 1 < Len(argv) => i + 1 \in 1..Len(argv) - 1 /\ (i + 1) + 1 = i + 2
    BY <1>1, <1>2
  <2> QED
    BY <1>1, <2>1, ValueBehind
<1> QED
  BY <1>1, <1>2, <1>3, <1>4, <1>5

\* The argument behind the one the loop is at is taken for the value of option n.
LEMMA TakesNext ==
  ASSUME ParseInv, NEW kind, Parsing(kind), i < Len(argv), Wants(argv[i]), NEW n \in Valued,
         \/ kind = "long" /\ argv[i].name = n
         \/ kind = "short" /\ NameOf(Last(argv[i].letters)) = n,
         Understood(i), ReadTo(actual, i), Valid(n, argv[i + 1].raw),
         NEW b, b = [actual EXCEPT ![n] = argv[i + 1].raw]
  PROVE  ReadTo(b, i + 2)
<1>1. /\ argv \in Seq(Arguments) /\ i \in DOMAIN argv /\ ~IsValue[i]
      /\ argv[i].kind = kind /\ kind # "long="
  BY AtOption
<1>2. ReadTo(actual, i + 1)
  <2>1. \A m \in Valued : i \notin Given(m)
    BY <1>1, GivenAt
  <2> QED
    BY <1>1, <2>1, ReadOne
<1>3. i + 1 \in DOMAIN argv /\ IsValue[i + 1] /\ ValueAt(i + 1) = argv[i + 1].raw
  BY AtOption DEF ValueAt
<1>4. \A m \in Valued : i + 1 \in Given(m) <=> m = n
  <2>1. (i + 1) - 1 = i /\ argv[i].kind = kind
    BY AtOption
  <2>2. TAKE m \in Valued
  <2>3. i + 1 \in Given(m) <=> \/ argv[i].kind = "long" /\ argv[i].name = m
                               \/ argv[i].kind = "short" /\ NameOf(Last(argv[i].letters)) = m
    BY <1>3, <2>1, AtOption, GivenAt
  <2> QED
    BY <2>1, <2>3
<1>5. \A m \in Valued : b[m] = IF m = n THEN argv[i + 1].raw ELSE actual[m]
  BY DEF ParseInv
<1>6. (i + 1) + 1 = i + 2
  BY AtOption
<1>7. ReadTo(b, (i + 1) + 1)
  <2>1. \A m \in Valued : i + 1 \in Given(m) => Valid(m, ValueAt(i + 1)) /\ b[m] = ValueAt(i + 1)
    BY <1>3, <1>4, <1>5
  <2>2. \A m \in Valued : i + 1 \notin Given(m) => b[m] = actual[m]
    BY <1>4, <1>5
  <2> QED
    BY <1>1, <1>2, <1>3, <2>1, <2>2, ReadOne
<1> QED
  BY <1>6, <1>7

\* Any argument.
LEMMA ArgumentStep ==
  ASSUME ParseInv, ParseArgument
  PROVE  ParseInv'
<1>1. program \in {"server", "client"} /\ argv \in Seq(Arguments) /\ DOMAIN actual = Valued
      /\ i \in Nat \ {0} /\ Len(argv) \in Nat /\ DOMAIN argv = 1..Len(argv)
  BY DEF ParseInv
<1>2. "help" \notin Valued /\ Names = Valued \union {"help"}
  BY <1>1, Options
<1>3. CASE LongWithValue
  <2>1. /\ i \in DOMAIN argv /\ argv[i].kind = "long=" /\ ~IsValue[i] /\ ~Wants(argv[i])
        /\ i + 1 \in 1..Len(argv) + 1 /\ (i + 1 \in DOMAIN argv => ~IsValue[i + 1])
    <3>1. Parsing("long=")
      BY <1>3 DEF LongWithValue
    <3>2. argv[i].kind = "long="
      BY <3>1, AtOption
    <3>3. ~Wants(argv[i])
      BY <3>2 DEF Wants
    <3> QED
      BY <3>1, <3>2, <3>3, AtOption
  <2>2. UNCHANGED <<program, argv, stage>> /\ i' = i + 1 /\ stage = "parse"
    BY <1>3 DEF LongWithValue, Step, Parsing
  <2> DEFINE n == argv[i].name
  <2>3. CASE Valid(n, argv[i].val)
    <3>1. /\ actual' = [actual EXCEPT ![n] = argv[i].val]
          /\ UNCHANGED errors /\ has \subseteq has'
      BY <1>3, <2>3 DEF LongWithValue, Assign
    <3>2. n \in Valued
      BY <2>3 DEF Valid
    <3>3. ASSUME ReadTo(actual, i)
          PROVE  ReadTo(actual', i + 1)
      <4>1. \A m \in Valued : i \in Given(m) <=> m = n
        BY <1>1, <2>1, GivenAt
      <4>2. ValueAt(i) = argv[i].val /\ Understood(i)
        BY <2>1, <3>2 DEF ValueAt, Understood
      <4>3. \A m \in Valued : actual'[m] = IF m = n THEN argv[i].val ELSE actual[m]
        BY <1>1, <3>1
      <4>4. \A m \in Valued : i \in Given(m) => Valid(m, ValueAt(i)) /\ actual'[m] = ValueAt(i)
        BY <2>3, <4>1, <4>2, <4>3
      <4>5. \A m \in Valued : i \notin Given(m) => actual'[m] = actual[m]
        BY <4>1, <4>3
      <4> QED
        BY <1>1, <2>1, <3>3, <4>2, <4>4, <4>5, ReadOne
    <3>4. errors' \/ "help" \in has' \/ ReadTo(actual', i + 1)
      BY <3>1, <3>3 DEF ParseInv
    <3>5. DOMAIN actual' = DOMAIN actual /\ i + 1 \in Int
      BY <1>1, <3>1
    <3> QED
      BY <2>1, <2>2, <3>4, <3>5, LoopOn
  <2>4. CASE ~Valid(n, argv[i].val)
    <3>1. errors' /\ DOMAIN actual' = DOMAIN actual
      BY <1>3, <2>4 DEF LongWithValue, Assign, Error
    <3> QED
      BY <1>1, <2>1, <2>2, <3>1, LoopOn
  <2> QED
    BY <2>3, <2>4
<1>4. CASE Long
  <2>1. Parsing("long")
    BY <1>4 DEF Long
  <2>2. /\ i \in DOMAIN argv /\ argv[i].kind = "long" /\ stage = "parse"
        /\ i + 1 \in 1..Len(argv) + 1 /\ (i + 1 \in DOMAIN argv <=> i < Len(argv))
    BY <2>1, AtOption
  <2> DEFINE n == argv[i].name
  <2>3. Wants(argv[i]) <=> n \in Valued
    BY <2>2 DEF Wants
  <2>4. UNCHANGED <<program, argv, stage>>
    BY <1>4 DEF Long, Step
  <2>5. CASE (n \notin Names \/ (n \in Valued /\ i = Len(argv))) /\ Error /\ Step(1)
    <3>1. i' = i + 1 /\ errors' /\ UNCHANGED actual
      BY <2>5 DEF Step, Error
    <3>2. i + 1 \in DOMAIN argv => ~IsValue[i + 1]
      BY <1>2, <2>1, <2>3, <2>5, AtOption
    <3> QED
      BY <1>1, <2>2, <2>4, <3>1, <3>2, LoopOn
  <2>6. CASE n \in Valued /\ i < Len(argv) /\ Assign(n, argv[i + 1].raw) /\ Step(2)
    <3>1. i' = i + 2 /\ i + 2 \in 1..Len(argv) + 1
      BY <1>1, <2>6 DEF Step
    <3>2. i + 2 \in DOMAIN argv => ~IsValue[i + 2]
      BY <1>1, <2>1, <2>3, <2>6, AtOption
    <3>3. CASE Valid(n, argv[i + 1].raw)
      <4>1. /\ actual' = [actual EXCEPT ![n] = argv[i + 1].raw]
            /\ UNCHANGED errors /\ has \subseteq has'
        BY <2>6, <3>3 DEF Assign
      <4>2. Understood(i)
        BY <2>2, <2>3, <2>6 DEF Understood
      <4>3. ReadTo(actual, i) => ReadTo(actual', i + 2)
        BY <2>1, <2>3, <2>6, <3>3, <4>1, <4>2, TakesNext
      <4>4. errors' \/ "help" \in has' \/ ReadTo(actual', i + 2)
        BY <4>1, <4>3 DEF ParseInv
      <4>5. DOMAIN actual' = DOMAIN actual /\ i + 2 \in Int
        BY <1>1, <4>1
      <4> QED
        BY <2>2, <2>4, <3>1, <3>2, <4>4, <4>5, LoopOn
    <3>4. CASE ~Valid(n, argv[i + 1].raw)
      <4>1. errors' /\ UNCHANGED actual
        BY <2>6, <3>4 DEF Assign, Error
      <4> QED
        BY <1>1, <2>2, <2>4, <3>1, <3>2, <4>1, LoopOn
    <3> QED
      BY <3>3, <3>4
  <2>7. CASE n \in Names \ Valued /\ Flag({n}) /\ Step(1)
    <3>1. i' = i + 1 /\ UNCHANGED actual /\ "help" \in has'
      BY <1>2, <2>7 DEF Step, Flag
    <3>2. i + 1 \in DOMAIN argv => ~IsValue[i + 1]
      BY <2>1, <2>3, <2>7, AtOption
    <3> QED
      BY <1>1, <2>2, <2>4, <3>1, <3>2, LoopOn
  <2> QED
    BY <1>4, <2>5, <2>6, <2>7 DEF Long
<1>5. CASE Short
  <2> DEFINE ls == argv[i].letters
             last == Last(ls)
             wants == last \in Letters /\ NameOf(last) \in Valued /\ i < Len(argv)
             flags == KnownIn(IF wants THEN Front(ls) ELSE ls)
             bad == flags \cap Valued # {} \/ ~(Range(ls) \subseteq Letters)
  <2>1. Parsing("short")
    BY <1>5 DEF Short
  <2>2. /\ i \in DOMAIN argv /\ argv[i].kind = "short" /\ stage = "parse"
        /\ i + 1 \in 1..Len(argv) + 1 /\ (i + 1 \in DOMAIN argv <=> i < Len(argv))
    BY <2>1, AtOption
  <2>3. ls \in Seq(STRING) /\ ls # <<>>
    BY <2>1, <2>2, AtOption, CmdLineAssumption
  <2>4. Wants(argv[i]) <=> last \in Letters /\ NameOf(last) \in Valued
    BY <2>2 DEF Wants
  <2>5. UNCHANGED <<program, argv, stage>>
    BY <1>5 DEF Short, Step
  <2>6. /\ has' = has \union (flags \ Valued) \union
                 (IF wants /\ Valid(NameOf(last), argv[i + 1].raw) THEN {NameOf(last)} ELSE {})
        /\ errors' = (errors \/ bad \/ (wants /\ ~Valid(NameOf(last), argv[i + 1].raw)))
    BY <1>5 DEF Short
  <2>7. CASE ~wants
    <3>1. i' = i + 1 /\ UNCHANGED actual
      BY <1>5, <2>7 DEF Short, Step
    <3>2. i + 1 \in DOMAIN argv => ~IsValue[i + 1]
      BY <2>1, <2>2, <2>4, <2>7, AtOption
    <3>3. errors' \/ "help" \in has'
      <4>1. CASE bad
        BY <2>6, <4>1
      <4>2. CASE ~bad
        <5>1. flags = KnownIn(ls)
          BY <2>7
        <5>2. "help" \in flags
          BY <1>1, <2>3, <4>2, <5>1, FlagsHelp
        <5> QED
          BY <1>2, <2>6, <5>2
      <4> QED
        BY <4>1, <4>2
    <3>4. i + 1 \in Int
      BY <1>1
    <3> QED
      BY <2>2, <2>5, <3>1, <3>2, <3>3, <3>4, LoopOn
  <2>8. CASE wants
    <3> DEFINE n == NameOf(last)
    <3>1. i' = i + 2 /\ i + 2 \in 1..Len(argv) + 1 /\ i + 2 \in Int
      BY <1>1, <1>5, <2>8 DEF Short, Step
    <3>2. i + 2 \in DOMAIN argv => ~IsValue[i + 2]
      BY <1>1, <2>1, <2>4, <2>8, AtOption
    <3>3. actual' = IF Valid(n, argv[i + 1].raw) THEN [actual EXCEPT ![n] = argv[i + 1].raw]
                    ELSE actual
      BY <1>5, <2>8 DEF Short
    <3>4. DOMAIN actual' = DOMAIN actual
      BY <3>3
    <3>5. CASE bad \/ ~Valid(n, argv[i + 1].raw)
      <4>1. errors'
        BY <2>6, <2>8, <3>5
      <4> QED
        BY <2>2, <2>5, <3>1, <3>2, <3>4, <4>1, LoopOn
    <3>6. CASE ~bad /\ Valid(n, argv[i + 1].raw) /\ Len(ls) = 1
      <4>1. actual' = [actual EXCEPT ![n] = argv[i + 1].raw]
        BY <3>3, <3>6
      <4>2. Understood(i)
        BY <2>2, <2>4, <2>8, <3>6 DEF Understood
      <4>3. ReadTo(actual, i) => ReadTo(actual', i + 2)
        BY <2>1, <2>2, <2>4, <2>8, <3>6, <4>1, <4>2, TakesNext
      <4>4. errors \/ "help" \in has \/ ReadTo(actual, i)
        BY DEF ParseInv
      <4>5. (errors => errors') /\ ("help" \in has => "help" \in has')
        BY <2>6
      <4>6. errors' \/ "help" \in has' \/ ReadTo(actual', i + 2)
        BY <4>3, <4>4, <4>5
      <4> QED
        BY <2>2, <2>5, <3>1, <3>2, <3>4, <4>6, LoopOn
    <3>7. CASE ~bad /\ Len(ls) # 1
      <4>1. flags = KnownIn(Front(ls))
        BY <2>8
      <4>2. Front(ls) \in Seq(STRING) /\ Front(ls) # <<>> /\ Range(Front(ls)) \subseteq Range(ls)
        BY <2>3, <3>7, BeforeLast
      <4>3. "help" \in flags
        BY <1>1, <3>7, <4>1, <4>2, FlagsHelp
      <4>4. "help" \in has'
        BY <1>2, <2>6, <4>3
      <4> QED
        BY <2>2, <2>5, <3>1, <3>2, <3>4, <4>4, LoopOn
    <3> QED
      BY <3>5, <3>6, <3>7
  <2> QED
    BY <2>7, <2>8
<1>6. CASE Other
  <2>1. PICK kind \in {"dash", "word"} : Parsing(kind)
    BY <1>6 DEF Other
  <2>2. /\ i \in DOMAIN argv /\ argv[i].kind = kind /\ stage = "parse" /\ ~IsValue[i]
        /\ i + 1 \in 1..Len(argv) + 1 /\ i + 1 \in Int
    BY <1>1, <2>1, AtOption
  <2>3. ~Wants(argv[i]) /\ Understood(i)
    BY <2>2 DEF Wants, Understood
  <2>4. i + 1 \in DOMAIN argv => ~IsValue[i + 1]
    BY <2>1, <2>3, AtOption
  <2>5. UNCHANGED <<program, argv, stage, has, actual, errors>> /\ i' = i + 1
    BY <1>6 DEF Other, Step
  <2>6. \A m \in Valued : i \notin Given(m)
    BY <1>1, <2>2, GivenAt
  <2>7. ReadTo(actual, i) => ReadTo(actual', i + 1)
    BY <1>1, <2>2, <2>3, <2>5, <2>6, ReadOne
  <2>8. errors' \/ "help" \in has' \/ ReadTo(actual', i + 1)
    BY <2>5, <2>7 DEF ParseInv
  <2> QED
    BY <2>2, <2>4, <2>5, <2>8, LoopOn
<1> QED
  BY <1>3, <1>4, <1>5, <1>6 DEF ParseArgument

\* The arguments when the program starts.
LEMMA ParseInvInit ==
  ASSUME Init
  PROVE  ParseInv
<1>1. /\ program \in {"server", "client"} /\ i = 1 /\ DOMAIN actual = Valued /\ stage = "parse"
      /\ actual = [n \in Valued |-> Option(n).def] /\ ~errors
  BY DEF Init, ParseInit
<1>2. argv \in Seq(Arguments)
  BY DEF Init, ParseInit, BoundedSeq, SeqOf
<1>3. 1 \in DOMAIN argv => ~IsValue[1]
  BY <1>2, ValueBehind
<1>4. \A n \in Valued : Before(n, 1) = {}
  BY <1>2 DEF Before, Given
<1>5. ReadTo(actual, 1)
  BY <1>1, <1>2, <1>4 DEF ReadTo
<1> QED
  BY <1>1, <1>2, <1>3, <1>5 DEF ParseInv

\* Every step of a start.
LEMMA ParseInvStep ==
  ASSUME ParseInv, [Next]_vars
  PROVE  ParseInv'
<1>1. CASE ParseArgument
  BY <1>1, ArgumentStep
<1>2. ASSUME UNCHANGED parseVars,
             \/ UNCHANGED stage
             \/ stage \notin {"parse", "ended"}
             \/ stage' \in {"parse", "ended"}
             \/ i = Len(argv) + 1 /\ ~errors /\ "help" \notin has
      PROVE  ParseInv'
  <2>1. UNCHANGED <<program, argv, i, has, actual, errors>>
    BY <1>2 DEF parseVars
  <2>2. Valued' = Valued /\ IsValue' = IsValue /\ (ReadTo(actual, i)' <=> ReadTo(actual', i))
    BY <2>1, SameMeaning
  <2> QED
    BY <1>2, <2>1, <2>2 DEF ParseInv
<1>3. CASE Check
  BY <1>2, <1>3 DEF Check, ParseInv
<1>4. CASE Resolve \/ Socket \/ Attach \/ CloseSocket \/ Listen
  BY <1>2, <1>4 DEF Resolve, Socket, Attach, CloseSocket, Listen, Goto, Fail
<1>5. CASE MakePipe \/ MakeEpoll \/ Watch \/ SetNonblock \/ Create \/ Up
  BY <1>2, <1>5 DEF MakePipe, MakeEpoll, Watch, SetNonblock, Create, Up, Goto, Fail
<1>6. CASE UNCHANGED vars
  BY <1>2, <1>6 DEF vars
<1> QED
  BY <1>1, <1>3, <1>4, <1>5, <1>6 DEF Next, Start, Parse

-----------------------------------------------------------------------------
(* Theorems.                                                               *)

\* What is done by when, at every stage of both starts.
THEOREM StartInvariant == Spec => []StartInv
<1>1. Init => StartInv
  BY StartInvInit
<1>2. StartInv /\ [Next]_vars => StartInv'
  BY StartInvStep
<1> QED
  BY <1>1, <1>2, PTL DEF Spec

\* The start's variables keep their types: main goes from one known stage to another, and a
\* process has an exit status just when it has ended.
THEOREM StartupTypes == Spec => []StartupTypeOK
<1>1. StartInv => StartupTypeOK
  BY DEF StartInv
<1> QED
  BY <1>1, StartInvariant, PTL

\* get_listen_fd and client_connect leave the socket of the address that worked open, and no
\* other, however many addresses fail on the way and in whichever call.
THEOREM WalkLeavesOneSocket == Spec => []OneSocket
<1>1. StartInv => OneSocket
  BY DEF StartInv, WalkOK, Settled, OneSocket
<1> QED
  BY <1>1, StartInvariant, PTL

\* No worker of the server and no child of the client begins before what it waits on is
\* watched and nonblocking, and the server's socket listens.
THEOREM NobodyBeginsEarly == Spec => []ReadyBeforeUse
<1>1. StartInv => ReadyBeforeUse
  BY DEF StartInv
<1> QED
  BY <1>1, StartInvariant, PTL

\* Whatever is typed behind its name, a program that goes on has for every option the last
\* value it was given, or the default, and no value was given that it cannot read.
THEOREM LastValueCounts == Spec => []ParsedAsMeant
<1>1. ASSUME ParseInv PROVE ParsedAsMeant
  <2> SUFFICES ASSUME stage \notin {"parse", "ended"}, NEW n \in Valued
               PROVE  /\ \A k \in Given(n) : Valid(n, ValueAt(k))
                      /\ actual[n] = IF Given(n) = {} THEN Option(n).def ELSE ValueAt(Max(Given(n)))
    BY DEF ParsedAsMeant
  <2>1. ReadTo(actual, Len(argv) + 1) /\ argv \in Seq(Arguments)
    BY <1>1 DEF ParseInv
  <2>2. Before(n, Len(argv) + 1) = Given(n)
    BY <2>1 DEF Before, Given
  <2> QED
    BY <2>1, <2>2 DEF ReadTo
<1> QED
  BY <1>1, ParseInvInit, ParseInvStep, PTL DEF Spec

\* No program goes on with a name or a letter that is no option's, or after a call for help.
THEOREM UnknownStops == Spec => []NothingUnknown
<1>1. ASSUME ParseInv PROVE NothingUnknown
  <2> SUFFICES ASSUME stage \notin {"parse", "ended"}, NEW k \in DOMAIN argv, ~IsValue[k]
               PROVE  Understood(k)
    BY DEF NothingUnknown
  <2>1. ReadTo(actual, Len(argv) + 1) /\ argv \in Seq(Arguments)
    BY <1>1 DEF ParseInv
  <2>2. k < Len(argv) + 1
    BY <2>1
  <2> QED
    BY <2>1, <2>2 DEF ReadTo
<1> QED
  BY <1>1, ParseInvInit, ParseInvStep, PTL DEF Spec
=============================================================================
