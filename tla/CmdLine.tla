------------------------------ MODULE CmdLine ------------------------------
(***************************************************************************)
(* The command line parser of both programs (utils/cmdline.h) with the     *)
(* options their main functions add.  A step is one turn of the loop over  *)
(* argv in parse, or the end of it with parse_check.                       *)
(*                                                                         *)
(* An argument is what parse tells apart: "--name=value", "--name",        *)
(* "-letters", "-" and anything else, a word.  When it stands where a      *)
(* value is wanted it is one, whatever it looks like.                      *)
(* Operators marked "Mutant" are no part of the model.                     *)
(***************************************************************************)
EXTENDS Integers, Sequences, FiniteSets, FiniteSetsExt, SequencesExt

CONSTANTS
  Arguments,  \* what may be typed behind the program's name
  MaxArgs,    \* bound: how much of it
  IntOf,      \* the values lexical_cast<int> reads, and what it makes of them
  Cores       \* get_nprocs(), as it would be typed

ASSUME CmdLineAssumption ==
  /\ \A a \in Arguments : /\ a.kind \in {"long=", "long", "short", "dash", "word"}
                          /\ a.kind = "short" => a.letters \in Seq(STRING) \ {<<>>}
  /\ MaxArgs \in Nat
  /\ Cores \in DOMAIN IntOf

VARIABLES
  program,  \* "server" or "client"
  argv,     \* the arguments behind the name of the program
  i,        \* the one to be parsed next
  has,      \* the options that have been set
  actual,   \* per option that has a value: the value
  errors,   \* whether errors has an entry
  stage,    \* how far main has come
  code      \* exit status of the process: "none", "ok", "failure" or "core"

parseVars == <<program, argv, i, has, actual, errors>>

-----------------------------------------------------------------------------
(* The options.                                                            *)

ServerOptions == {[name |-> "port", short |-> "p", int |-> FALSE, def |-> "8080"],
                  [name |-> "workerNum", short |-> "w", int |-> TRUE, def |-> Cores]}
ClientOptions == {[name |-> "host", short |-> "h", int |-> FALSE, def |-> "127.0.0.1"],
                  [name |-> "port", short |-> "p", int |-> FALSE, def |-> "8080"]}

\* What add was called for, and the option parse_check adds, which has no value.
WithValue == IF program = "server" THEN ServerOptions ELSE ClientOptions
Valued == {o.name : o \in WithValue}
Names == Valued \union {"help"}
Option(n) == CHOOSE o \in WithValue : o.name = n

\* The table from letters to names.
Lookup == {<<o.short, o.name>> : o \in WithValue} \union {<<"?", "help">>}
Letters == {l[1] : l \in Lookup}
NameOf(letter) == (CHOOSE l \in Lookup : l[1] = letter)[2]

\* A string is read as it is, a number by lexical_cast, which throws.
Valid(n, value) == n \in Valued /\ (Option(n).int => value \in DOMAIN IntOf)

ParseInit ==
  /\ program \in {"server", "client"}
  /\ argv \in BoundedSeq(Arguments, MaxArgs)
  /\ i = 1
  /\ has = {}
  /\ actual = [n \in Valued |-> Option(n).def]
  /\ errors = FALSE

-----------------------------------------------------------------------------
(* parse.                                                                  *)

Parsing(kind) == stage = "parse" /\ i <= Len(argv) /\ argv[i].kind = kind

Error == errors' = TRUE /\ UNCHANGED <<has, actual>>

\* set_option(name, value)
Assign(n, value) ==
  IF Valid(n, value)
  THEN actual' = [actual EXCEPT ![n] = value] /\ has' = has \union {n} /\ UNCHANGED errors
  ELSE Error

\* set_option(name) for each of names: an option that wants a value is an error.
Flag(names) ==
  /\ has' = has \union (names \ Valued)
  /\ errors' = (errors \/ names \cap Valued # {})
  /\ UNCHANGED actual

Step(n) == i' = i + n /\ UNCHANGED <<program, argv, stage, code>>

LongWithValue ==
  /\ Parsing("long=")
  /\ Assign(argv[i].name, argv[i].val)
  /\ Step(1)

Long ==
  /\ Parsing("long")
  /\ LET n == argv[i].name IN
     \/ n \notin Names /\ Error /\ Step(1)
     \/ n \in Valued /\ i = Len(argv) /\ Error /\ Step(1)
     \/ n \in Valued /\ i < Len(argv) /\ Assign(n, argv[i + 1].raw) /\ Step(2)
     \/ n \in Names \ Valued /\ Flag({n}) /\ Step(1)

\* The letters of "-abc" before the last are flags; the last one may take the next argument.
\* With an unknown letter there is an error, and the known ones are set all the same.
KnownIn(letters) == {NameOf(l) : l \in Range(letters) \cap Letters}

\* Mutant: the argument taken for a value is parsed once more.
ShortStays ==
  /\ Parsing("short")
  /\ LET letters == argv[i].letters
         last == Last(letters) IN
     /\ Range(letters) \subseteq Letters /\ Len(letters) = 1
     /\ IF NameOf(last) \in Valued /\ i < Len(argv) THEN Assign(NameOf(last), argv[i + 1].raw)
                                                    ELSE Flag({NameOf(last)})
  /\ Step(1)

Short ==
  /\ Parsing("short")
  /\ LET letters == argv[i].letters
         last == Last(letters)
         wants == last \in Letters /\ NameOf(last) \in Valued /\ i < Len(argv)
         flags == KnownIn(IF wants THEN Front(letters) ELSE letters)
         bad == flags \cap Valued # {} \/ ~(Range(letters) \subseteq Letters) IN
     IF wants
     THEN /\ LET ok == Valid(NameOf(last), argv[i + 1].raw) IN
             /\ actual' = IF ok THEN [actual EXCEPT ![NameOf(last)] = argv[i + 1].raw] ELSE actual
             /\ has' = has \union (flags \ Valued) \union (IF ok THEN {NameOf(last)} ELSE {})
             /\ errors' = (errors \/ bad \/ ~ok)
          /\ Step(2)
     ELSE /\ has' = has \union (flags \ Valued)
          /\ errors' = (errors \/ bad)
          /\ UNCHANGED actual
          /\ Step(1)

\* "-" alone, and a word, which goes to others and is not looked at again.
Other ==
  /\ Parsing("dash") \/ Parsing("word")
  /\ UNCHANGED <<has, actual, errors>>
  /\ Step(1)

ParseArgument == LongWithValue \/ Long \/ Short \/ Other

\* Mutant: an error is reported, and the program goes on.
GoesOn ==
  /\ stage = "parse" /\ i > Len(argv)
  /\ IF "help" \in has THEN stage' = "ended" /\ code' = "ok"
     ELSE stage' = "resolve" /\ UNCHANGED code
  /\ UNCHANGED parseVars

\* check: help comes before errors.  No option is needed, so errors come from arguments.
Check ==
  /\ stage = "parse" /\ i > Len(argv)
  /\ IF "help" \in has THEN stage' = "ended" /\ code' = "ok"
     ELSE IF errors THEN stage' = "ended" /\ code' = "failure"
     ELSE stage' = "resolve" /\ UNCHANGED code
  /\ UNCHANGED parseVars

-----------------------------------------------------------------------------
(* What the arguments mean, said without a loop.                           *)

\* Whether an argument wants the next one for its value, if it is parsed as an option.
Wants(a) ==
  \/ a.kind = "long" /\ a.name \in Valued
  \/ a.kind = "short" /\ Last(a.letters) \in Letters /\ NameOf(Last(a.letters)) \in Valued

\* The argument is the value of the one before.
IsValue == [k \in 1..Len(argv) |->
  LET run == {j \in 1..k : \A m \in j..k - 1 : Wants(argv[m])} IN (k - Min(run)) % 2 = 1]

\* The values option n is given, by the place they stand at.
Given(n) ==
  {k \in DOMAIN argv : ~IsValue[k] /\ argv[k].kind = "long=" /\ argv[k].name = n} \union
  {k \in DOMAIN argv : /\ IsValue[k]
                       /\ \/ argv[k - 1].kind = "long" /\ argv[k - 1].name = n
                          \/ argv[k - 1].kind = "short" /\ NameOf(Last(argv[k - 1].letters)) = n}
ValueAt(k) == IF IsValue[k] THEN argv[k].raw ELSE argv[k].val

\* A program that goes on has for each option the last value it was given, or the default,
\* and was given no value it cannot read.
ParsedAsMeant ==
  stage \notin {"parse", "ended"} => \A n \in Valued :
    /\ \A k \in Given(n) : Valid(n, ValueAt(k))
    /\ actual[n] = IF Given(n) = {} THEN Option(n).def ELSE ValueAt(Max(Given(n)))

\* The argument is one option with its value, or a word.
Understood(k) ==
  \/ argv[k].kind \in {"dash", "word"}
  \/ argv[k].kind = "long=" /\ argv[k].name \in Valued
  \/ Wants(argv[k]) /\ k < Len(argv) /\ (argv[k].kind = "short" => Len(argv[k].letters) = 1)

\* Every argument of such a program that stands in an option's place is understood: a name
\* or letter no option has stops it, and so does a call for help.
NothingUnknown ==
  stage \notin {"parse", "ended"} => \A k \in DOMAIN argv : ~IsValue[k] => Understood(k)
=============================================================================
