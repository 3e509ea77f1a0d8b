---------------------------- MODULE ClientProofs ----------------------------
(***************************************************************************)
(* Proofs about Client, for any users, any length of the lines and any     *)
(* number of lines and texts: the types, and that a parent whose server is *)
(* there does not end before its child.  NoZombie is not inductive: the    *)
(* parent ends by a flag it has set much earlier, when a read found the    *)
(* pipe empty, which says something of the child only because epoll has    *)
(* reported the pipe and nobody has read it since.                         *)
(***************************************************************************)
EXTENDS ClientProperties, TLAPS, WellFoundedInduction, SequenceTheorems, FiniteSetTheorems

Processes == {"child", "parent"}

\* The parent has an event of the pipe to handle.
PipeAhead ==
  parent.pc = "pipe" \/ \E i \in DOMAIN parent.batch : parent.batch[i] = "pipe"

\* It has one such event, not two.
OnePipe ==
  /\ \A i, j \in DOMAIN parent.batch : parent.batch[i] = "pipe" /\ parent.batch[j] = "pipe" => i = j
  /\ parent.pc = "pipe" => \A i \in DOMAIN parent.batch : parent.batch[i] # "pipe"

\* The read of the pipe will find lines, or the end.
PipeSeen == PipeAhead => PipeInput

\* A child that lives holds the writing end.
ChildHolds == child.pc # "ended" => "w" \in held["child"]

\* The flag is cleared because one of the two ends has gone.
WorkEnds == ~parent.work => peer # "up" \/ child.pc = "ended"

ClientInv ==
  /\ ClientTypeOK
  /\ OnePipe /\ PipeSeen /\ ChildHolds /\ WorkEnds /\ NoZombie

-----------------------------------------------------------------------------
(* Sequences.                                                              *)

\* A set of numbers has a least one.
LEMMA MinIn ==
  ASSUME NEW S \in SUBSET Nat, S # {}
  PROVE  Min(S) \in S /\ \A y \in S : Min(S) <= y
<1>1. PICK x \in S : \A y \in S : ~ (<<y, x>> \in OpToRel(<, Nat))
  BY WFMin, NatLessThanWellFounded
<1>2. ASSUME NEW y \in S PROVE x <= y
  <2>1. <<y, x>> \in Nat \X Nat
    OBVIOUS
  <2>2. ~ (<<y, x>> \in {ss \in Nat \X Nat : ss[1] < ss[2]})
    BY <1>1 DEF OpToRel
  <2>3. ~ (y < x)
    BY <2>1, <2>2
  <2> QED BY <2>3
<1> QED BY <1>2 DEF Min

\* A read takes a front of what is there, and something if there is anything.
LEMMA UptoFacts ==
  ASSUME NEW S, NEW s \in Seq(S), NEW n \in Nat \ {0}
  PROVE  /\ Upto(s, n) \in Seq(S)
         /\ s # <<>> => Upto(s, n) # <<>>
<1> DEFINE m == Min({n, Len(s)})
<1>1. m \in {n, Len(s)} /\ m <= n /\ m <= Len(s)
  BY MinIn
<1>2. Len(s) \in Nat /\ \A i \in 1..Len(s) : s[i] \in S
  OBVIOUS
<1> HIDE DEF m
<1>3. m \in Nat /\ \A i \in 1..m : s[i] \in S
  BY <1>1, <1>2
<1>4. SubSeq(s, 1, m) \in Seq(S) /\ Len(SubSeq(s, 1, m)) = m
  BY <1>3, SubSeqProperties
<1>5. s # <<>> => m > 0
  BY <1>1, <1>2, EmptySeq
<1>6. Upto(s, n) = SubSeq(s, 1, m)
  BY DEF Upto, m
<1>7. s # <<>> => Len(Upto(s, n)) # 0
  BY <1>4, <1>5, <1>6
<1>8. Len(<<>>) = 0
  OBVIOUS
<1> QED BY <1>4, <1>6, <1>7, <1>8

\* What the socket takes of a message is its front.
LEMMA FrontFacts ==
  ASSUME NEW S, NEW s \in Seq(S), NEW part \in Fronts(s)
  PROVE  /\ part \in Seq(S) /\ Len(part) <= Len(s)
         /\ \A i \in 1..Len(part) : i \in 1..Len(s) /\ part[i] = s[i]
<1>1. Len(s) \in Nat /\ \A i \in 1..Len(s) : s[i] \in S
  OBVIOUS
<1>2. PICK n \in 0..Len(s) : part = SubSeq(s, 1, n)
  BY <1>1 DEF Fronts
<1>3. n \in Nat /\ n <= Len(s) /\ \A i \in 1..n : s[i] \in S
  BY <1>1, <1>2
<1>4. /\ part \in Seq(S) /\ Len(part) = n /\ \A i \in 1..n : part[i] = s[i]
  BY <1>2, <1>3, SubSeqProperties
<1> QED BY <1>1, <1>3, <1>4

\* What a read leaves is a sequence too.
LEMMA RestType ==
  ASSUME NEW S, NEW s \in Seq(S), NEW n \in Nat
  PROVE  SubSeq(s, n + 1, Len(s)) \in Seq(S)
<1>1. Len(s) \in Nat /\ \A i \in n + 1..Len(s) : s[i] \in S
  OBVIOUS
<1> QED BY <1>1, SubSeqProperties

\* A read that finds something leaves less.
LEMMA RestShorter ==
  ASSUME NEW S, NEW s \in Seq(S), s # <<>>, NEW n \in Nat \ {0}
  PROVE  Len(SubSeq(s, n + 1, Len(s))) < Len(s)
<1>1. Len(s) \in Nat /\ Len(s) > 0 /\ \A i \in n + 1..Len(s) : s[i] \in S
  BY EmptySeq
<1>2. Len(SubSeq(s, n + 1, Len(s))) = IF n + 1 <= Len(s) THEN Len(s) - (n + 1) + 1 ELSE 0
  BY <1>1, SubSeqProperties
<1> QED
  BY <1>1, <1>2

\* The string in a buffer is a text.
LEMMA AsStringType ==
  ASSUME NEW buf \in Seq(Text)
  PROVE  AsString(buf) \in Seq(Text)
<1> DEFINE I == {i \in 1..Len(buf) : buf[i] = Zero}
<1>1. UpToZero(buf) = IF I # {} THEN Min(I) ELSE 0
  BY DEF UpToZero, SelectInSeq
<1>2. I # {} => Min(I) \in 1..Len(buf)
  <2>1. I \in SUBSET Nat
    OBVIOUS
  <2>2. I # {} => Min(I) \in I
    BY <2>1, MinIn
  <2> QED BY <2>2
<1> HIDE DEF I
<1>3. CASE UpToZero(buf) = 0
  BY <1>3 DEF AsString
<1>4. CASE UpToZero(buf) # 0
  <2>1. UpToZero(buf) - 1 \in Int /\ \A i \in 1..UpToZero(buf) - 1 : buf[i] \in Text
    BY <1>1, <1>2, <1>4
  <2>2. SubSeq(buf, 1, UpToZero(buf) - 1) \in Seq(Text)
    BY <2>1, SubSeqProperties
  <2> QED BY <2>2, <1>4 DEF AsString
<1> QED BY <1>3, <1>4

-----------------------------------------------------------------------------
(* Steps that several actions have in common.                              *)

\* What closing descriptors does.
LEMMA DropFacts ==
  ASSUME ClientTypeOK, NEW x \in Processes, NEW ds, Drop(x, ds)
  PROVE  /\ held' \in [Processes -> SUBSET {"r", "w", "s"}]
         /\ ready' \subseteq {"pipe", "sock"}
         /\ held'[x] = held[x] \ ds
         /\ \A y \in Processes \ {x} : held'[y] = held[y]
         /\ Hangup => Hangup'
<1>1. held \in [Processes -> SUBSET {"r", "w", "s"}] /\ ready \subseteq {"pipe", "sock"}
  BY DEF ClientTypeOK, Processes
<1>2. held' = [held EXCEPT ![x] = held[x] \ ds]
  BY DEF Drop
<1>3. ready' \in {ready, ready \union {"pipe"}}
  BY DEF Drop
<1>4. DOMAIN held = Processes /\ DOMAIN held' = Processes
  BY <1>1, <1>2
<1>5. \A y \in Processes : held'[y] \subseteq held[y]
  BY <1>1, <1>2
<1>6. Hangup => Hangup'
  BY <1>4, <1>5 DEF Hangup, Somebody
<1> QED BY <1>1, <1>2, <1>3, <1>6

\* Without the child nobody holds the writing end, once the parent has closed its own.
\* What the pipe has to tell stays while nobody reads it.
LEMMA RestKept ==
  ASSUME ClientInv,
         parent'.batch = parent.batch \/ parent'.batch = <<>>,
         parent'.pc = "pipe" => parent.pc = "pipe",
         PipeInput => PipeInput',
         parent'.work = parent.work \/ peer # "up",
         peer' # "up" \/ peer' = peer,
         peer # "up" => peer' # "up",
         child'.pc = "ended" \/ "w" \in held'["child"],
         child.pc = "ended" => child'.pc = "ended",
         parent'.pc = "ended" => parent.pc = "ended" \/ ~parent.work \/ peer # "up"
  PROVE  (OnePipe /\ PipeSeen /\ ChildHolds /\ WorkEnds /\ NoZombie)'
<1>1. OnePipe'
  BY DEF ClientInv, OnePipe
<1>2. PipeSeen'
  BY DEF ClientInv, PipeSeen, PipeAhead
<1>3. ChildHolds'
  BY DEF ChildHolds
<1>4. WorkEnds'
  BY DEF ClientInv, WorkEnds
<1>5. NoZombie'
  BY DEF ClientInv, WorkEnds, NoZombie
<1> QED BY <1>1, <1>2, <1>3, <1>4, <1>5

-----------------------------------------------------------------------------
(* The steps of the child.                                                 *)

\* The record of the child keeps its type.
LEMMA AnyLineType == AnyLine \in Line
BY ClientAssumption DEF AnyLine, Line, LineKinds

\* The child ends: with the line it had, or without.
LEMMA ChildEndsStep ==
  ASSUME ClientInv, ChildEnds, UNCHANGED <<pipe, rx, envVars, parent, tx, shown>>
  PROVE  ClientInv'
<1>1. child' \in [pc: ChildPCs, line: Line, typed: 0..MaxLines] /\ child'.pc = "ended"
  BY AnyLineType DEF ClientInv, ClientTypeOK, ChildEnds, ChildPCs
<1>2. /\ held' \in [Processes -> SUBSET {"r", "w", "s"}]
      /\ ready' \subseteq {"pipe", "sock"}
      /\ Hangup => Hangup'
  BY DropFacts DEF ClientInv, ChildEnds, Processes
<1>3. ClientTypeOK'
  BY <1>1, <1>2 DEF ClientInv, ClientTypeOK, Processes, envVars
<1>4. PipeInput => PipeInput'
  BY <1>2 DEF PipeInput
<1> QED BY <1>1, <1>3, <1>4, RestKept DEF ClientInv, envVars

LEMMA ChildCloseStep == ASSUME ClientInv, ChildClose PROVE ClientInv'
<1>1. child' \in [pc: ChildPCs, line: Line, typed: 0..MaxLines] /\ child'.pc = "read"
  BY DEF ClientInv, ClientTypeOK, ChildClose, ChildPCs
<1>2. /\ held' \in [Processes -> SUBSET {"r", "w", "s"}]
      /\ ready' \subseteq {"pipe", "sock"}
      /\ held'["child"] = held["child"] \ {"r"}
      /\ Hangup => Hangup'
  BY DropFacts DEF ClientInv, ChildClose, Processes
<1>3. ClientTypeOK'
  BY <1>1, <1>2 DEF ClientInv, ClientTypeOK, ChildClose, Processes, envVars
<1>4. PipeInput => PipeInput'
  BY <1>2 DEF PipeInput, ChildClose
<1>5. child.pc # "ended" /\ "w" \in held'["child"]
  BY <1>2 DEF ClientInv, ChildHolds, ChildClose
<1> QED BY <1>3, <1>4, <1>5, RestKept DEF ClientInv, ChildClose, envVars

LEMMA ChildReadStep == ASSUME ClientInv, ChildRead PROVE ClientInv'
<1>1. CASE ChildEnds
  BY <1>1, ChildEndsStep DEF ChildRead
<1>2. CASE ~ChildEnds
  <2>1. PICK k \in Kinds, u \in Users :
          /\ child' = IF k \in {"blank", "clear"} THEN [child EXCEPT !.typed = @ + 1]
                      ELSE [pc |-> "write", typed |-> child.typed + 1,
                            line |-> [no |-> child.typed + 1, kind |-> k, user |-> u]]
          /\ UNCHANGED <<held, ready>>
    BY <1>2 DEF ChildRead
  <2>2. child.typed + 1 \in 0..MaxLines /\ child.typed + 1 \in Nat
    BY ClientAssumption, SMTT(30) DEF ClientInv, ClientTypeOK, ChildRead
  <2>3. [no |-> child.typed + 1, kind |-> k, user |-> u] \in Line
    BY <2>2, ClientAssumption DEF Line
  <2>4. child' \in [pc: ChildPCs, line: Line, typed: 0..MaxLines]
        /\ child.pc # "ended" /\ child'.pc # "ended"
    BY <2>1, <2>2, <2>3 DEF ClientInv, ClientTypeOK, ChildRead, ChildPCs
  <2>5. ClientTypeOK'
    BY <2>1, <2>4 DEF ClientInv, ClientTypeOK, ChildRead, envVars
  <2>6. PipeInput => PipeInput'
    BY <2>1 DEF PipeInput, Hangup, Somebody, ChildRead
  <2>7. "w" \in held'["child"]
    BY <2>1, <2>4 DEF ClientInv, ChildHolds
  <2> QED BY <2>4, <2>5, <2>6, <2>7, RestKept DEF ClientInv, ChildRead, envVars
<1> QED BY <1>1, <1>2

LEMMA ChildWriteStep == ASSUME ClientInv, ChildWrite PROVE ClientInv'
<1>1. CASE Somebody("r")
  <2>1. pipe' \in Seq(Line) /\ pipe' # <<>>
    <3>1. pipe \in Seq(Line) /\ child.line \in Line /\ pipe' = Append(pipe, child.line)
      BY <1>1 DEF ClientInv, ClientTypeOK, ChildWrite
    <3> QED BY <3>1, AppendProperties
  <2>2. child' \in [pc: ChildPCs, line: Line, typed: 0..MaxLines]
        /\ child.pc # "ended" /\ child'.pc # "ended"
    BY <1>1, AnyLineType DEF ClientInv, ClientTypeOK, ChildWrite, ChildPCs
  <2>3. ready' \subseteq {"pipe", "sock"} /\ held' = held
    BY <1>1 DEF ClientInv, ClientTypeOK, ChildWrite
  <2>4. ClientTypeOK'
    BY <2>1, <2>2, <2>3 DEF ClientInv, ClientTypeOK, ChildWrite, envVars
  <2>5. PipeInput'
    BY <2>1 DEF PipeInput
  <2>6. "w" \in held'["child"]
    BY <2>2, <2>3 DEF ClientInv, ChildHolds
  <2> QED BY <2>2, <2>4, <2>5, <2>6, RestKept DEF ClientInv, ChildWrite, envVars
<1>2. CASE ~Somebody("r")
  BY <1>2, ChildEndsStep DEF ChildWrite
<1> QED BY <1>1, <1>2

-----------------------------------------------------------------------------
(* The steps of the parent.                                                *)

ParentRec ==
  [pc: ParentPCs, batch: Seq({"pipe", "sock"}), work: BOOLEAN, named: BOOLEAN,
   blocked: SUBSET Users, message: Seq(Line), stream: Seq(Text)]

\* Nothing that concerns the pipe or the child happens.
LEMMA PipeKept ==
  ASSUME UNCHANGED <<pipe, held>>
  PROVE  PipeInput => PipeInput'
BY DEF PipeInput, Hangup, Somebody

\* The end of an event.
LEMMA EventDoneType ==
  ASSUME ClientTypeOK
  PROVE  EventDone \in ParentRec /\ EventDone.pc = "next"
         /\ EventDone.batch = parent.batch /\ EventDone.work = parent.work
         /\ EventDone.blocked = parent.blocked /\ EventDone.named = parent.named
<1>1. <<>> \in Seq(Line) /\ <<>> \in Seq(Text)
  OBVIOUS
<1>2. parent \in ParentRec
  BY DEF ClientTypeOK, ParentRec
<1> QED BY <1>1, <1>2 DEF EventDone, ParentRec, ParentPCs

LEMMA ParentCloseStep == ASSUME ClientInv, ParentClose PROVE ClientInv'
<1>1. /\ parent' \in ParentRec /\ parent'.pc = "wait"
      /\ parent'.batch = parent.batch /\ parent'.work = parent.work
  BY DEF ClientInv, ClientTypeOK, ParentClose, ParentRec, ParentPCs
<1>2. /\ held' \in [Processes -> SUBSET {"r", "w", "s"}]
      /\ ready' \subseteq {"pipe", "sock"}
      /\ held'["child"] = held["child"]
      /\ Hangup => Hangup'
  BY DropFacts DEF ClientInv, ParentClose, Processes
<1>3. ClientTypeOK'
  BY <1>1, <1>2 DEF ClientInv, ClientTypeOK, ParentClose, ParentRec, Processes, envVars
<1>4. PipeInput => PipeInput'
  BY <1>2 DEF PipeInput, ParentClose
<1>5. child'.pc = "ended" \/ "w" \in held'["child"]
  BY <1>2 DEF ClientInv, ChildHolds, ParentClose
<1> QED BY <1>1, <1>3, <1>4, <1>5, RestKept DEF ClientInv, ParentClose, envVars

\* A batch is made of what is ready, each descriptor once.
LEMMA BatchFacts ==
  ASSUME NEW S \in SUBSET {"pipe", "sock"}, NEW batch \in SetToSeqs(S)
  PROVE  /\ batch \in Seq({"pipe", "sock"})
         /\ \A i \in DOMAIN batch : batch[i] \in S
         /\ \A i, j \in DOMAIN batch : batch[i] = batch[j] => i = j
<1>1. IsFiniteSet({"pipe", "sock"})
  <2>1. IsFiniteSet({} \union {"pipe"})
    BY FS_AddElement, FS_EmptySet
  <2>2. IsFiniteSet(({} \union {"pipe"}) \union {"sock"})
    BY <2>1, FS_AddElement
  <2>3. ({} \union {"pipe"}) \union {"sock"} = {"pipe", "sock"}
    OBVIOUS
  <2> QED BY <2>2, <2>3
<1>2. Cardinality(S) \in Nat
  BY <1>1, FS_Subset, FS_CardinalityType
<1>3. batch \in [1..Cardinality(S) -> S]
      /\ \A i, j \in 1..Cardinality(S) : i # j => batch[i] # batch[j]
  BY DEF SetToSeqs
<1>4. DOMAIN batch = 1..Cardinality(S) /\ \A i \in DOMAIN batch : batch[i] \in S
  BY <1>3
<1>5. batch \in Seq({"pipe", "sock"})
  <2>1. batch \in [1..Cardinality(S) -> {"pipe", "sock"}]
    BY <1>3
  <2> QED BY <1>2, <2>1
<1> QED BY <1>3, <1>4, <1>5

LEMMA ParentWaitStep == ASSUME ClientInv, ParentWait PROVE ClientInv'
<1> DEFINE avail == {f \in ready : Pollable(f)}
<1>1. PICK batch \in SetToSeqs(avail) :
        parent' = [parent EXCEPT !.pc = "next", !.batch = batch]
  BY DEF ParentWait
<1>2. avail \in SUBSET {"pipe", "sock"}
  BY DEF ClientInv, ClientTypeOK
<1>3. "pipe" \in avail => PipeInput
  BY DEF Pollable
<1> HIDE DEF avail
<1>4. /\ batch \in Seq({"pipe", "sock"})
      /\ \A i \in DOMAIN batch : batch[i] \in avail
      /\ \A i, j \in DOMAIN batch : batch[i] = batch[j] => i = j
  BY <1>2, BatchFacts
<1>5. /\ parent' \in ParentRec
      /\ parent'.pc = "next" /\ parent'.batch = batch /\ parent'.work = parent.work
  BY <1>1, <1>4 DEF ClientInv, ClientTypeOK, ParentRec, ParentPCs
<1>6. UNCHANGED <<held, pipe, rx, wire, peer, told, child, tx, shown>> /\ ready' = {}
  BY DEF ParentWait, envVars
<1>7. ClientTypeOK'
  BY <1>5, <1>6 DEF ClientInv, ClientTypeOK, ParentRec
<1>8. OnePipe'
  BY <1>4, <1>5 DEF OnePipe
<1>9. PipeSeen'
  <2>1. PipeInput => PipeInput'
    BY <1>6, PipeKept
  <2> QED BY <1>3, <1>4, <1>5, <2>1 DEF PipeSeen, PipeAhead
<1>10. (ChildHolds /\ WorkEnds /\ NoZombie)'
  BY <1>5, <1>6 DEF ClientInv, ChildHolds, WorkEnds, NoZombie
<1> QED BY <1>7, <1>8, <1>9, <1>10 DEF ClientInv

LEMMA ParentNextStep == ASSUME ClientInv, ParentNext PROVE ClientInv'
<1>1. parent.batch \in Seq({"pipe", "sock"}) /\ parent.batch # <<>> /\ parent.pc = "next"
  BY DEF ClientInv, ClientTypeOK, ParentNext
<1>2. /\ Tail(parent.batch) \in Seq({"pipe", "sock"})
      /\ Head(parent.batch) = parent.batch[1] /\ 1 \in DOMAIN parent.batch
      /\ \A i \in DOMAIN Tail(parent.batch) :
           Tail(parent.batch)[i] = parent.batch[i + 1] /\ i \in Nat \ {0} /\ i + 1 \in DOMAIN parent.batch
  BY <1>1
<1>3. /\ parent' \in ParentRec
      /\ parent'.pc = (IF Head(parent.batch) = "pipe" THEN "pipe" ELSE "recv")
      /\ parent'.batch = Tail(parent.batch) /\ parent'.work = parent.work
  BY <1>2 DEF ClientInv, ClientTypeOK, ParentNext, ParentRec, ParentPCs
<1>4. UNCHANGED <<held, pipe, rx, wire, peer, told, child, tx, shown, ready>>
  BY DEF ParentNext, envVars
<1>5. ClientTypeOK'
  BY <1>3, <1>4 DEF ClientInv, ClientTypeOK, ParentRec
<1>6. OnePipe'
  <2>1. \A i, j \in DOMAIN parent'.batch :
          parent'.batch[i] = "pipe" /\ parent'.batch[j] = "pipe" => i = j
    <3> TAKE i, j \in DOMAIN parent'.batch
    <3> HAVE parent'.batch[i] = "pipe" /\ parent'.batch[j] = "pipe"
    <3>1. i + 1 = j + 1
      BY <1>2, <1>3 DEF ClientInv, OnePipe
    <3> QED BY <3>1, <1>2, <1>3
  <2>2. parent'.pc = "pipe" => \A i \in DOMAIN parent'.batch : parent'.batch[i] # "pipe"
    <3> HAVE parent'.pc = "pipe"
    <3> TAKE i \in DOMAIN parent'.batch
    <3> SUFFICES ASSUME parent'.batch[i] = "pipe" PROVE FALSE
      OBVIOUS
    <3>1. parent.batch[1] = "pipe" /\ parent.batch[i + 1] = "pipe"
      BY <1>2, <1>3
    <3>2. i + 1 = 1
      BY <3>1, <1>2, <1>3 DEF ClientInv, OnePipe
    <3> QED BY <3>2, <1>2, <1>3
  <2> QED BY <2>1, <2>2 DEF OnePipe
<1>7. PipeSeen'
  <2>1. PipeAhead' => PipeAhead
    BY <1>2, <1>3 DEF PipeAhead
  <2> QED BY <2>1, <1>4, PipeKept DEF ClientInv, PipeSeen
<1>8. (ChildHolds /\ WorkEnds /\ NoZombie)'
  BY <1>3, <1>4 DEF ClientInv, ChildHolds, WorkEnds, NoZombie
<1> QED BY <1>5, <1>6, <1>7, <1>8 DEF ClientInv

\* A step of the parent that leaves pipe and descriptors alone and goes on.
LEMMA ParentGoesOn ==
  ASSUME ClientInv,
         parent' \in ParentRec,
         parent'.pc \notin {"pipe", "ended"},
         parent'.batch = parent.batch \/ parent'.batch = <<>>,
         parent'.work = parent.work,
         UNCHANGED <<held, pipe, wire, told, child>>,
         peer' \in {"up", "fin", "rst"}, peer # "up" => peer' # "up",
         peer' = peer \/ peer' # "up",
         ready' \subseteq {"pipe", "sock"},
         rx' \in Seq(Text), tx' \in Seq(Seq(Line)), shown' \in Seq(Seq(Text))
  PROVE  ClientInv'
<1>1. ClientTypeOK'
  BY DEF ClientInv, ClientTypeOK, ParentRec
<1>2. child'.pc = "ended" \/ "w" \in held'["child"]
  BY DEF ClientInv, ChildHolds
<1>3. PipeInput => PipeInput'
  BY PipeKept
<1> QED BY <1>1, <1>2, <1>3, RestKept DEF ClientInv

\* A step of the parent that closes descriptors because one of the two ends has gone.
LEMMA ParentDrops ==
  ASSUME ClientInv,
         NEW ds, Drop("parent", ds),
         parent' \in ParentRec,
         parent'.pc = "pipe" => parent.pc = "pipe",
         parent'.batch = parent.batch,
         parent'.work = parent.work \/ peer # "up",
         parent'.pc = "ended" => ~parent.work \/ peer # "up",
         UNCHANGED <<pipe, wire, told, peer, child, rx, tx, shown>>
  PROVE  ClientInv'
<1>1. /\ held' \in [Processes -> SUBSET {"r", "w", "s"}]
      /\ ready' \subseteq {"pipe", "sock"}
      /\ held'["child"] = held["child"]
      /\ Hangup => Hangup'
  BY DropFacts DEF ClientInv, Processes
<1>2. ClientTypeOK'
  BY <1>1 DEF ClientInv, ClientTypeOK, ParentRec, Processes
<1>3. PipeInput => PipeInput'
  BY <1>1 DEF PipeInput
<1>4. child'.pc = "ended" \/ "w" \in held'["child"]
  BY <1>1 DEF ClientInv, ChildHolds
<1> QED BY <1>2, <1>3, <1>4, RestKept DEF ClientInv

LEMMA ParentLoopStep == ASSUME ClientInv, ParentLoop PROVE ClientInv'
<1>1. CASE parent.work
  <2>1. /\ parent' \in ParentRec /\ parent'.pc = "wait"
        /\ parent'.batch = parent.batch /\ parent'.work = parent.work
    BY <1>1, ZenonT(30) DEF ClientInv, ClientTypeOK, ParentLoop, ParentRec, ParentPCs
  <2>2. UNCHANGED <<held, ready, pipe, rx, wire, peer, told, child, tx, shown>>
    BY <1>1 DEF ParentLoop, envVars
  <2> QED BY <2>1, <2>2, ParentGoesOn DEF ClientInv, ClientTypeOK
<1>2. CASE ~parent.work
  <2>1. /\ parent' \in ParentRec /\ parent'.pc = "ended"
        /\ parent'.batch = parent.batch /\ parent'.work = parent.work
    BY <1>2, ZenonT(30) DEF ClientInv, ClientTypeOK, ParentLoop, ParentRec, ParentPCs
  <2>2. Drop("parent", {"r", "w", "s"})
        /\ UNCHANGED <<pipe, rx, wire, peer, told, child, tx, shown>>
    BY <1>2 DEF ParentLoop, envVars
  <2> QED BY <1>2, <2>1, <2>2, ParentDrops
<1> QED BY <1>1, <1>2

\* What has been read of the socket.
LEMMA RecvTypes ==
  ASSUME ClientTypeOK
  PROVE  /\ AsString(Upto(rx, Half)) \in Seq(Text)
         /\ SubSeq(rx, Half + 1, Len(rx)) \in Seq(Text)
<1>1. rx \in Seq(Text) /\ Half \in Nat \ {0}
  BY DEF ClientTypeOK, Half
<1>2. Upto(rx, Half) \in Seq(Text)
  BY <1>1, UptoFacts
<1> QED BY <1>1, <1>2, AsStringType, RestType

LEMMA ParentRecvStep == ASSUME ClientInv, ParentRecv PROVE ClientInv'
<1>1. UNCHANGED <<pipe, wire, peer, told, child, tx>> /\ parent.pc = "recv"
  BY DEF ParentRecv, envVars
<1>2. CASE RecvText
  <2>1. parent.stream \o AsString(Upto(rx, Half)) \in Seq(Text)
    <3>1. parent.stream \in Seq(Text) /\ AsString(Upto(rx, Half)) \in Seq(Text)
      BY RecvTypes DEF ClientInv, ClientTypeOK
    <3> QED BY <3>1, ConcatProperties
  <2>2. /\ parent' \in ParentRec /\ parent'.pc = "recv"
        /\ parent'.batch = parent.batch /\ parent'.work = parent.work
    BY <1>1, <1>2, <2>1 DEF ClientInv, ClientTypeOK, RecvText, ParentRec
  <2>3. rx' \in Seq(Text) /\ UNCHANGED <<held, ready, shown>>
    BY <1>2, RecvTypes DEF RecvText, ClientInv
  <2> QED BY <1>1, <2>2, <2>3, ParentGoesOn DEF ClientInv, ClientTypeOK
<1>3. CASE RecvEnd
  <2>1. /\ parent' \in ParentRec /\ parent'.pc = "recv"
        /\ parent'.batch = parent.batch /\ peer # "up"
    BY <1>1, <1>3 DEF ClientInv, ClientTypeOK, RecvEnd, ParentRec
  <2>2. Drop("parent", {"s"}) /\ UNCHANGED <<rx, shown>>
    BY <1>3 DEF RecvEnd
  <2> QED BY <1>1, <2>1, <2>2, ParentDrops
<1>4. CASE RecvBreak
  <2>1. /\ parent' \in ParentRec /\ parent'.pc = "next"
        /\ parent'.batch = parent.batch /\ parent'.work = parent.work
    BY <1>4, EventDoneType DEF ClientInv, RecvBreak
  <2>2. shown' \in Seq(Seq(Text))
    <3>1. parent.stream \in Seq(Text) /\ shown \in Seq(Seq(Text))
      BY DEF ClientInv, ClientTypeOK
    <3>2. Append(shown, parent.stream) \in Seq(Seq(Text))
      BY <3>1, AppendProperties
    <3> QED BY <1>4, <3>1, <3>2 DEF RecvBreak
  <2>3. UNCHANGED <<held, ready, rx>>
    BY <1>4 DEF RecvBreak
  <2> QED BY <1>1, <2>1, <2>2, <2>3, ParentGoesOn DEF ClientInv, ClientTypeOK
<1> QED BY <1>2, <1>3, <1>4 DEF ParentRecv

\* What a message does to the blocked users.
LEMMA BlockedType ==
  ASSUME ClientTypeOK, NEW message \in Seq(Line), message # <<>>
  PROVE  Blocked(message) \in SUBSET Users
<1>1. Len(message) \in 1..Len(message)
  BY EmptySeq
<1>2. Last(message) \in Line
  BY <1>1, ElementOfSeq DEF Last
<1>3. Last(message).user \in Users
  BY <1>2 DEF Line
<1>4. parent.blocked \in SUBSET Users
  BY DEF ClientTypeOK
<1> QED BY <1>3, <1>4 DEF Blocked

LEMMA ReceivedType ==
  ASSUME ClientTypeOK, NEW message \in Seq(Line), message # <<>>, Received(message)
  PROVE  /\ parent' \in ParentRec /\ parent'.pc \in {"next", "send"}
         /\ parent'.batch = parent.batch /\ parent'.work = parent.work
<1> DEFINE done == [EventDone EXCEPT !.named = TRUE]
<1>1. done \in ParentRec /\ done.pc = "next" /\ done.batch = parent.batch /\ done.work = parent.work
  BY EventDoneType DEF ParentRec
<1>2. parent' \in {[done EXCEPT !.blocked = Blocked(message)], done,
                   [done EXCEPT !.pc = "send", !.message = message]}
  BY DEF Received
<1>3. Blocked(message) \in SUBSET Users
  BY BlockedType
<1> HIDE DEF done
<1>4. CASE parent' = [done EXCEPT !.blocked = Blocked(message)]
  BY <1>1, <1>3, <1>4 DEF ParentRec
<1>5. CASE parent' = done
  BY <1>1, <1>5
<1>6. CASE parent' = [done EXCEPT !.pc = "send", !.message = message]
  BY <1>1, <1>6 DEF ParentRec, ParentPCs
<1> QED BY <1>2, <1>4, <1>5, <1>6

LEMMA ParentPipeStep == ASSUME ClientInv, ParentPipe PROVE ClientInv'
<1>1. /\ parent.pc = "pipe"
      /\ UNCHANGED <<held, ready, rx, wire, peer, told, child, tx, shown>>
  BY DEF ParentPipe, envVars
<1>0. PICK n \in Holds :
        /\ IF pipe = <<>> THEN parent' = [EventDone EXCEPT !.work = FALSE]
           ELSE Received(Upto(pipe, n))
        /\ pipe' = SubSeq(pipe, n + 1, Len(pipe))
  BY DEF ParentPipe
<1>2. pipe \in Seq(Line) /\ n \in Nat \ {0}
  BY ClientAssumption DEF ClientInv, ClientTypeOK
<1>3. pipe' \in Seq(Line)
  BY <1>0, <1>2, RestType
<1>4. \A i \in DOMAIN parent.batch : parent.batch[i] # "pipe"
  BY <1>1 DEF ClientInv, OnePipe
<1>5. CASE pipe = <<>>
  <2>1. child.pc = "ended"
    <3>1. Hangup
      BY <1>1, <1>5 DEF ClientInv, PipeSeen, PipeAhead, PipeInput
    <3>2. "child" \in DOMAIN held
      BY DEF ClientInv, ClientTypeOK
    <3>3. "w" \notin held["child"]
      BY <3>1, <3>2 DEF Hangup, Somebody
    <3> QED BY <3>3 DEF ClientInv, ChildHolds
  <2>2. parent' \in ParentRec /\ parent'.pc = "next" /\ parent'.batch = parent.batch
    <3>1. parent' = [EventDone EXCEPT !.work = FALSE]
      BY <1>0, <1>5
    <3>2. EventDone \in ParentRec /\ EventDone.pc = "next" /\ EventDone.batch = parent.batch
      BY EventDoneType DEF ClientInv
    <3> HIDE DEF EventDone
    <3> QED BY <3>1, <3>2 DEF ParentRec
  <2>3. ClientTypeOK'
    BY <1>1, <1>3, <2>2 DEF ClientInv, ClientTypeOK, ParentRec
  <2>4. (OnePipe /\ PipeSeen)'
    BY <1>4, <2>2 DEF OnePipe, PipeSeen, PipeAhead
  <2>5. (ChildHolds /\ WorkEnds /\ NoZombie)'
    BY <1>1, <2>1 DEF ChildHolds, WorkEnds, NoZombie
  <2> QED BY <2>3, <2>4, <2>5 DEF ClientInv
<1>6. CASE pipe # <<>>
  <2>1. Upto(pipe, n) \in Seq(Line) /\ Upto(pipe, n) # <<>>
    BY <1>2, <1>6, UptoFacts
  <2>2. /\ parent' \in ParentRec /\ parent'.pc \in {"next", "send"}
        /\ parent'.batch = parent.batch /\ parent'.work = parent.work
    BY <1>0, <1>6, <2>1, ReceivedType DEF ClientInv
  <2>3. ClientTypeOK'
    BY <1>1, <1>3, <2>2 DEF ClientInv, ClientTypeOK, ParentRec
  <2>4. (OnePipe /\ PipeSeen)'
    BY <1>4, <2>2 DEF OnePipe, PipeSeen, PipeAhead
  <2>5. (ChildHolds /\ WorkEnds /\ NoZombie)'
    BY <1>1, <2>2 DEF ClientInv, ChildHolds, WorkEnds, NoZombie
  <2> QED BY <2>3, <2>4, <2>5 DEF ClientInv
<1> QED BY <1>5, <1>6

LEMMA ParentSendStep == ASSUME ClientInv, ParentSend PROVE ClientInv'
<1>1. UNCHANGED <<pipe, rx, wire, told, child, shown>>
  BY DEF ParentSend
<1>2. CASE SendLost
  <2>1. parent' = EventDone /\ UNCHANGED <<held, ready, peer, tx>>
    BY <1>2 DEF SendLost
  <2> QED BY <1>1, <2>1, EventDoneType, ParentGoesOn DEF ClientInv, ClientTypeOK
<1>3. CASE SendTaken
  <2>1. parent' = EventDone /\ UNCHANGED held
    BY <1>3 DEF SendTaken
  <2>2. tx' \in Seq(Seq(Line))
    <3>1. tx \in Seq(Seq(Line)) /\ parent.message \in Seq(Line)
      BY DEF ClientInv, ClientTypeOK
    <3>2. PICK part \in Fronts(parent.message) : tx' = Append(tx, part)
      BY <1>3 DEF SendTaken
    <3>3. part \in Seq(Line)
      BY <3>1, FrontFacts
    <3> QED BY <3>1, <3>2, <3>3, AppendProperties
  <2>3. /\ peer' \in {"up", "fin", "rst"} /\ (peer # "up" => peer' # "up")
        /\ peer' = peer \/ peer' # "up"
        /\ ready' \subseteq {"pipe", "sock"}
    BY <1>3 DEF SendTaken, ClientInv, ClientTypeOK
  <2> QED BY <1>1, <2>1, <2>2, <2>3, EventDoneType, ParentGoesOn DEF ClientInv, ClientTypeOK
<1>4. CASE SendKills
  <2>1. /\ parent' \in ParentRec /\ parent'.pc = "ended"
        /\ parent'.batch = parent.batch /\ parent'.work = parent.work
    BY <1>4 DEF SendKills, ClientInv, ClientTypeOK, ParentRec, ParentPCs
  <2>2. Drop("parent", {"r", "w", "s"}) /\ peer = "rst" /\ UNCHANGED <<peer, tx>>
    BY <1>4 DEF SendKills
  <2> QED BY <1>1, <2>1, <2>2, ParentDrops
<1> QED BY <1>2, <1>3, <1>4 DEF ParentSend

-----------------------------------------------------------------------------
(* The steps of the environment.                                           *)

\* What comes from outside touches neither pipe nor processes.
LEMMA OutsideStep ==
  ASSUME ClientInv,
         UNCHANGED <<held, pipe, child, parent, tx, shown>>,
         rx' \in Seq(Text), wire' \in Seq(Text),
         told' \in 0..MaxTexts,
         ready' \subseteq {"pipe", "sock"},
         peer' \in {"up", "fin", "rst"}, peer # "up" => peer' # "up",
         peer' = peer \/ peer' # "up"
  PROVE  ClientInv'
<1>1. ClientTypeOK'
  BY DEF ClientInv, ClientTypeOK
<1>2. PipeInput => PipeInput'
  BY PipeKept
<1>3. child'.pc = "ended" \/ "w" \in held'["child"]
  BY DEF ClientInv, ChildHolds
<1> QED BY <1>1, <1>2, <1>3, RestKept DEF ClientInv

LEMMA CellsType == ASSUME NEW text \in Text PROVE Cells(text) \in Seq(Text)
<1>1. Zero \in Text
  BY ClientAssumption DEF Zero, Text, TextForms
<1> QED BY <1>1 DEF Cells

LEMMA ServerSendStep == ASSUME ClientInv, ServerSend PROVE ClientInv'
<1>1. PICK form \in Forms, user \in Users :
        wire' = wire \o Cells([no |-> told + 1, form |-> form, from |-> user])
  BY DEF ServerSend
<1>2. told + 1 \in 0..MaxTexts /\ told + 1 \in Nat
  BY ClientAssumption DEF ClientInv, ClientTypeOK, ServerSend
<1>3. [no |-> told + 1, form |-> form, from |-> user] \in Text
  BY <1>2, ClientAssumption DEF Text
<1>4. wire \in Seq(Text) /\ Cells([no |-> told + 1, form |-> form, from |-> user]) \in Seq(Text)
  BY <1>3, CellsType DEF ClientInv, ClientTypeOK
<1>5. wire' \in Seq(Text)
  BY <1>1, <1>4, ConcatProperties
<1> QED BY <1>2, <1>5, OutsideStep DEF ServerSend, ClientInv, ClientTypeOK

LEMMA ArriveStep == ASSUME ClientInv, Arrive PROVE ClientInv'
<1>1. rx \in Seq(Text) /\ wire \in Seq(Text) /\ wire # <<>>
  BY DEF Arrive, ClientInv, ClientTypeOK
<1>2. Head(wire) \in Text /\ Tail(wire) \in Seq(Text)
  BY <1>1, HeadTailProperties
<1>3. rx' \in Seq(Text) /\ wire' \in Seq(Text)
  BY <1>1, <1>2, AppendProperties DEF Arrive
<1> QED BY <1>3, OutsideStep DEF Arrive, ClientInv, ClientTypeOK

LEMMA ServerGoesStep == ASSUME ClientInv, ServerCloses \/ ServerResets PROVE ClientInv'
<1>1. <<>> \in Seq(Text)
  OBVIOUS
<1> QED BY <1>1, OutsideStep DEF ServerCloses, ServerResets, ClientInv, ClientTypeOK

-----------------------------------------------------------------------------
(* The theorems.                                                           *)

LEMMA ClientStart == Init => ClientInv
<1> SUFFICES ASSUME Init PROVE ClientInv
  OBVIOUS
<1>1. ClientTypeOK
  BY AnyLineType, ClientAssumption DEF Init, ClientTypeOK, ChildPCs, ParentPCs
<1> QED BY <1>1 DEF Init, ClientInv, OnePipe, PipeSeen, PipeAhead, ChildHolds, WorkEnds, NoZombie

LEMMA ClientStep == ClientInv /\ [Next]_vars => ClientInv'
<1> SUFFICES ASSUME ClientInv, [Next]_vars PROVE ClientInv'
  OBVIOUS
<1>1. CASE ChildRuns
  BY <1>1, ChildCloseStep, ChildWriteStep DEF ChildRuns
<1>2. CASE ChildRead
  BY <1>2, ChildReadStep
<1>3. CASE ChildEOF
  BY <1>3, ChildEndsStep DEF ChildEOF
<1>4. CASE ParentRuns
  BY <1>4, ParentCloseStep, ParentWaitStep, ParentNextStep, ParentLoopStep, ParentRecvStep,
     ParentPipeStep, ParentSendStep DEF ParentRuns
<1>5. CASE ServerSend \/ Arrive
  BY <1>5, ServerSendStep, ArriveStep
<1>6. CASE ServerCloses \/ ServerResets
  BY <1>6, ServerGoesStep
<1>7. CASE UNCHANGED vars
  BY <1>7, OutsideStep DEF vars, envVars, ClientInv, ClientTypeOK
<1> QED BY <1>1, <1>2, <1>3, <1>4, <1>5, <1>6, <1>7 DEF Next

\* The invariant from which the two theorems follow.
THEOREM ClientInvariant == Spec => []ClientInv
BY ClientStart, ClientStep, PTL DEF Spec

\* Every variable of the client keeps its type: what the parent takes out of the pipe and
\* off the socket are lines and texts, and a batch names real descriptors.
THEOREM ClientTypes == Spec => []ClientTypeOK
<1>1. ClientInv => ClientTypeOK
  BY DEF ClientInv
<1> QED BY <1>1, ClientInvariant, PTL

\* A parent whose server is there ends only after its child, for any number of lines in the
\* pipe: the zero bytes it reads are the end of the child and not an empty pipe.
THEOREM NoChildLeft == Spec => []NoZombie
<1>1. ClientInv => NoZombie
  BY DEF ClientInv
<1> QED BY <1>1, ClientInvariant, PTL

-----------------------------------------------------------------------------
(* The edges.                                                              *)

\* A parent that works has its socket.
WorkHolds == parent.work /\ parent.pc # "ended" => "s" \in held["parent"]

\* Every descriptor that is ready comes into the batch.
LEMMA BatchWhole ==
  ASSUME NEW S \in SUBSET {"pipe", "sock"}, NEW batch \in SetToSeqs(S)
  PROVE  Range(batch) = S
<1>1. batch \in [1..Cardinality(S) -> S]
      /\ \A i, j \in 1..Cardinality(S) : i # j => batch[i] # batch[j]
  BY DEF SetToSeqs
<1>2. CASE S = {}
  BY <1>1, <1>2, FS_EmptySet DEF Range
<1>3. ASSUME NEW f, S = {f}
      PROVE  Range(batch) = S
  <2>1. Cardinality(S) = 1
    BY <1>3, FS_Singleton
  <2>2. batch[1] = f /\ 1 \in DOMAIN batch /\ Range(batch) \subseteq S
    BY <1>1, <1>3, <2>1 DEF Range
  <2> QED
    BY <1>3, <2>2 DEF Range
<1>4. CASE S = {"pipe", "sock"}
  <2>1. Cardinality(S) = 2
    <3>1. IsFiniteSet({"pipe"}) /\ Cardinality({"pipe"}) = 1
      BY FS_Singleton
    <3>2. Cardinality({"pipe"} \union {"sock"}) = 2
      BY <3>1, FS_AddElement
    <3>3. S = {"pipe"} \union {"sock"}
      BY <1>4
    <3> QED
      BY <3>2, <3>3
  <2>2. /\ 1 \in DOMAIN batch /\ 2 \in DOMAIN batch /\ Range(batch) \subseteq S
        /\ batch[1] # batch[2] /\ batch[1] \in S /\ batch[2] \in S
    BY <1>1, <2>1 DEF Range
  <2> QED
    BY <1>4, <2>2 DEF Range
<1>5. S = {} \/ S = {"pipe"} \/ S = {"sock"} \/ S = {"pipe", "sock"}
  OBVIOUS
<1> QED
  BY <1>2, <1>3, <1>4, <1>5

\* Only the read of the pipe leaves something without an edge.
KeepsEdges ==
  \A f \in {"pipe", "sock"} : Missed(f)' => Missed(f) \/ (f = "pipe" /\ Len(pipe') < Len(pipe))

\* A step after which the parent has ended, or has the flag cleared, has nothing to see to.
LEMMA EdgesOver ==
  ASSUME parent'.work = FALSE \/ parent'.pc = "ended"
  PROVE  KeepsEdges /\ WorkHolds'
BY DEF KeepsEdges, Missed, WorkHolds

\* What the other steps have to see to.
LEMMA EdgesBy ==
  ASSUME parent'.work = parent.work, parent.pc # "ended",
         PipeInput' => PipeInput \/ "pipe" \in ready',
         parent.work /\ SockInput' => SockInput \/ "sock" \in ready',
         \A f \in {"pipe", "sock"} :
           (Pollable(f) /\ f \in ready) \/ InBatch(f) =>
             f \in ready' \/ InBatch(f)' \/ (parent.work => ~Pollable(f)')
  PROVE  KeepsEdges
<1> SUFFICES ASSUME NEW f \in {"pipe", "sock"}, Missed(f)'
             PROVE  Missed(f)
  BY DEF KeepsEdges
<1>1. parent.work /\ Pollable(f)' /\ f \notin ready' /\ ~InBatch(f)'
  BY DEF Missed
<1>2. Pollable(f)
  BY <1>1 DEF Pollable
<1>3. f \notin ready /\ ~InBatch(f)
  BY <1>1, <1>2
<1> QED
  BY <1>1, <1>2, <1>3 DEF Missed

\* A step that leaves the parent alone.
LEMMA EdgesStill ==
  ASSUME WorkHolds, UNCHANGED parent, ready \subseteq ready',
         "s" \in held["parent"] => "s" \in held'["parent"],
         PipeInput' => PipeInput \/ "pipe" \in ready',
         SockInput' => SockInput \/ "sock" \in ready'
  PROVE  KeepsEdges /\ WorkHolds'
<1>1. \A f : InBatch(f)' <=> InBatch(f)
  BY DEF InBatch
<1>2. KeepsEdges
  <2>1. CASE parent.pc = "ended"
    BY <2>1, EdgesOver
  <2>2. CASE parent.pc # "ended"
    BY <1>1, <2>2, EdgesBy
  <2> QED
    BY <2>1, <2>2
<1> QED
  BY <1>2 DEF WorkHolds

\* The last one to close the writing end wakes the reader.
LEMMA DropWakes ==
  ASSUME ClientTypeOK, NEW x \in Processes, NEW ds, Drop(x, ds)
  PROVE  ready \subseteq ready' /\ (Hangup' => Hangup \/ "pipe" \in ready')
<1>1. DOMAIN held' = DOMAIN held
  BY DEF Drop
<1>2. Hangup' => \A y \in DOMAIN held : "w" \notin held'[y]
  BY <1>1 DEF Hangup, Somebody
<1> QED
  BY <1>2 DEF Drop, Hangup

\* No step leaves input without an edge, but the read of the pipe.
LEMMA EdgesNext ==
  ASSUME ClientInv, WorkHolds, [Next]_vars
  PROVE  KeepsEdges /\ WorkHolds'
<1>0. /\ ClientTypeOK /\ parent.batch \in Seq({"pipe", "sock"})
      /\ held \in [Processes -> SUBSET {"r", "w", "s"}] /\ "parent" \in Processes /\ "child" \in Processes
      /\ parent \in ParentRec
  BY DEF ClientInv, ClientTypeOK, Processes, ParentRec
<1>1. ASSUME NEW ds, Drop("child", ds)
      PROVE  /\ ready \subseteq ready' /\ held'["parent"] = held["parent"]
             /\ Hangup' => Hangup \/ "pipe" \in ready'
  BY <1>0, <1>1, DropFacts, DropWakes
<1>2. CASE ChildRuns \/ ChildRead \/ ChildEOF
  <2>1. UNCHANGED <<parent, rx, peer>>
    BY <1>2 DEF ChildRuns, ChildClose, ChildWrite, ChildRead, ChildEOF, envVars
  <2>2. ready \subseteq ready' /\ held'["parent"] = held["parent"]
    BY <1>1, <1>2 DEF ChildRuns, ChildClose, ChildWrite, ChildRead, ChildEOF, ChildEnds
  <2>3. pipe' = pipe \/ "pipe" \in ready'
    BY <1>2 DEF ChildRuns, ChildClose, ChildWrite, ChildRead, ChildEOF, ChildEnds
  <2>4. Hangup' => Hangup \/ "pipe" \in ready'
    <3>1. (\E ds : Drop("child", ds)) \/ UNCHANGED held
      BY <1>2 DEF ChildRuns, ChildClose, ChildWrite, ChildRead, ChildEOF, ChildEnds
    <3>2. UNCHANGED held => (Hangup' => Hangup)
      BY DEF Hangup, Somebody
    <3> QED
      BY <1>1, <3>1, <3>2
  <2>5. PipeInput' => PipeInput \/ "pipe" \in ready'
    BY <2>3, <2>4 DEF PipeInput
  <2> QED
    BY <2>1, <2>2, <2>5, EdgesStill DEF SockInput
<1>3. CASE ServerSend \/ Arrive \/ ServerCloses \/ ServerResets \/ UNCHANGED vars
  <2>1. UNCHANGED <<parent, held, pipe>> /\ ready \subseteq ready'
    BY <1>3 DEF ServerSend, Arrive, ServerCloses, ServerResets, vars
  <2>2. SockInput' => SockInput \/ "sock" \in ready'
    BY <1>3 DEF ServerSend, Arrive, ServerCloses, ServerResets, vars, envVars, SockInput
  <2>3. PipeInput' => PipeInput
    BY <2>1 DEF PipeInput, Hangup, Somebody
  <2> QED
    BY <2>1, <2>2, <2>3, EdgesStill
<1>4. CASE ParentClose
  <2>1. /\ parent.pc = "close" /\ parent'.work = parent.work /\ parent'.pc = "wait"
        /\ UNCHANGED <<pipe, rx, peer>>
    BY <1>0, <1>4 DEF ParentClose, ParentRec, envVars
  <2>2. /\ ready \subseteq ready' /\ held'["parent"] = held["parent"] \ {"w"}
        /\ Hangup' => Hangup \/ "pipe" \in ready'
    BY <1>0, <1>4, DropFacts, DropWakes DEF ParentClose
  <2>3. ~InBatch("pipe") /\ ~InBatch("sock")
    BY <2>1 DEF InBatch
  <2>4. PipeInput' => PipeInput \/ "pipe" \in ready'
    BY <2>1, <2>2 DEF PipeInput
  <2>5. SockInput' => SockInput
    BY <2>1 DEF SockInput
  <2>6. KeepsEdges
    BY <2>1, <2>2, <2>3, <2>4, <2>5, EdgesBy
  <2> QED
    BY <2>1, <2>2, <2>6 DEF WorkHolds
<1>5. CASE ParentWait
  <2> DEFINE avail == {f \in ready : Pollable(f)}
  <2>1. PICK batch \in SetToSeqs(avail) : parent' = [parent EXCEPT !.pc = "next", !.batch = batch]
    BY <1>5 DEF ParentWait
  <2>2. Range(batch) = avail
    <3>1. avail \subseteq {"pipe", "sock"}
      BY <1>0 DEF ClientTypeOK
    <3> HIDE DEF avail
    <3> QED
      BY <3>1, BatchWhole
  <2>3. /\ parent.pc = "wait" /\ parent'.pc = "next" /\ parent'.batch = batch
        /\ parent'.work = parent.work /\ UNCHANGED <<pipe, rx, peer, held>>
    BY <1>0, <1>5, <2>1 DEF ParentWait, ParentRec, envVars
  <2>4. ~InBatch("pipe") /\ ~InBatch("sock")
    BY <2>3 DEF InBatch
  <2>5. \A f \in {"pipe", "sock"} : Pollable(f) /\ f \in ready => InBatch(f)'
    BY <2>2, <2>3 DEF InBatch
  <2>6. (PipeInput' => PipeInput) /\ (SockInput' => SockInput)
    BY <2>3 DEF PipeInput, Hangup, Somebody, SockInput
  <2>7. KeepsEdges
    BY <2>3, <2>4, <2>5, <2>6, EdgesBy
  <2> QED
    BY <2>3, <2>7 DEF WorkHolds
<1>6. CASE ParentNext
  <2>1. /\ parent.pc = "next" /\ parent.batch # <<>> /\ parent'.work = parent.work
        /\ parent'.pc = (IF Head(parent.batch) = "pipe" THEN "pipe" ELSE "recv")
        /\ parent'.batch = Tail(parent.batch) /\ UNCHANGED <<ready, pipe, rx, peer, held>>
    BY <1>0, <1>6 DEF ParentNext, ParentRec, envVars
  <2>2. /\ Head(parent.batch) \in {"pipe", "sock"}
        /\ Range(parent.batch) \subseteq {Head(parent.batch)} \union Range(Tail(parent.batch))
    <3>1. PICK b \in Seq({"pipe", "sock"}) : b = parent.batch /\ b # <<>>
      BY <1>0, <2>1
    <3>2. /\ Head(b) = b[1] /\ 1 \in DOMAIN b /\ b[1] \in {"pipe", "sock"}
          /\ \A i \in DOMAIN b : i # 1 => i - 1 \in DOMAIN Tail(b) /\ Tail(b)[i - 1] = b[i]
      BY <3>1
    <3>3. ASSUME NEW x \in Range(b)
          PROVE  x \in {Head(b)} \union Range(Tail(b))
      <4>1. PICK i \in DOMAIN b : x = b[i]
        BY <3>3 DEF Range
      <4>2. CASE i = 1
        BY <3>2, <4>1, <4>2
      <4>3. CASE i # 1
        BY <3>2, <4>1, <4>3 DEF Range
      <4> QED
        BY <4>2, <4>3
    <3> QED
      <4>1. Range(b) \subseteq {Head(b)} \union Range(Tail(b)) /\ Head(b) \in {"pipe", "sock"}
        BY <3>2, <3>3
      <4> QED
        BY <3>1, <4>1
  <2>3. InBatch("pipe") => InBatch("pipe")'
    BY <2>1, <2>2 DEF InBatch
  <2>4. InBatch("sock") => InBatch("sock")'
    BY <2>1, <2>2 DEF InBatch
  <2>5. (PipeInput' => PipeInput) /\ (SockInput' => SockInput)
    BY <2>1 DEF PipeInput, Hangup, Somebody, SockInput
  <2>6. KeepsEdges
    BY <2>1, <2>3, <2>4, <2>5, EdgesBy
  <2> QED
    BY <2>1, <2>6 DEF WorkHolds
<1>7. CASE ParentLoop
  <2>1. CASE ~parent.work
    <3>1. parent'.pc = "ended"
      BY <1>0, <1>7, <2>1 DEF ParentLoop, ParentRec
    <3> QED
      BY <3>1, EdgesOver
  <2>2. CASE parent.work
    <3>1. /\ parent.pc = "next" /\ parent.batch = <<>> /\ parent'.work = parent.work
          /\ UNCHANGED <<held, ready, pipe, rx, peer>>
      BY <1>0, <1>7, <2>2 DEF ParentLoop, ParentRec, envVars
    <3>2. ~InBatch("pipe") /\ ~InBatch("sock")
      BY <3>1 DEF InBatch, Range
    <3>3. (PipeInput' => PipeInput) /\ (SockInput' => SockInput)
      BY <3>1 DEF PipeInput, Hangup, Somebody, SockInput
    <3>4. KeepsEdges
      BY <3>1, <3>2, <3>3, EdgesBy
    <3> QED
      BY <3>1, <3>4 DEF WorkHolds
  <2> QED
    BY <2>1, <2>2
<1>8. CASE ParentRecv
  <2>0. parent.pc = "recv" /\ UNCHANGED <<pipe, peer>>
    BY <1>8 DEF ParentRecv, envVars
  <2>1. CASE RecvText
    <3>1. /\ parent'.pc = "recv" /\ parent'.work = parent.work /\ parent'.batch = parent.batch
          /\ rx # <<>> /\ UNCHANGED <<ready, held>>
      BY <1>0, <2>0, <2>1 DEF RecvText, ParentRec
    <3>2. InBatch("sock")' /\ (InBatch("pipe") => InBatch("pipe")')
      BY <2>0, <3>1 DEF InBatch
    <3>3. (PipeInput' => PipeInput) /\ SockInput
      BY <2>0, <3>1 DEF PipeInput, Hangup, Somebody, SockInput
    <3>4. KeepsEdges
      BY <2>0, <3>1, <3>2, <3>3, EdgesBy
    <3> QED
      BY <2>0, <3>1, <3>4 DEF WorkHolds
  <2>2. CASE RecvEnd
    <3>1. parent'.work = FALSE
      BY <1>0, <2>2 DEF RecvEnd, ParentRec
    <3> QED
      BY <3>1, EdgesOver
  <2>3. CASE RecvBreak
    <3>1. /\ parent'.pc = "next" /\ parent'.work = parent.work /\ parent'.batch = parent.batch
          /\ UNCHANGED <<ready, held, rx>>
      BY <1>0, <2>3, EventDoneType DEF RecvBreak
    <3>2. parent.work => ~SockInput'
      BY <2>0, <2>3, <3>1 DEF RecvBreak, WorkHolds, SockInput
    <3>3. InBatch("pipe") => InBatch("pipe")'
      BY <2>0, <3>1 DEF InBatch
    <3>4. PipeInput' => PipeInput
      BY <2>0, <3>1 DEF PipeInput, Hangup, Somebody
    <3>5. parent.work => ~Pollable("sock")'
      BY <3>2 DEF Pollable
    <3>6. KeepsEdges
      BY <2>0, <3>1, <3>2, <3>3, <3>4, <3>5, EdgesBy
    <3> QED
      BY <2>0, <3>1, <3>6 DEF WorkHolds
  <2> QED
    BY <1>8, <2>1, <2>2, <2>3 DEF ParentRecv
<1>9. CASE ParentPipe
  <2>0. PICK n \in Holds :
          /\ IF pipe = <<>> THEN parent' = [EventDone EXCEPT !.work = FALSE]
             ELSE Received(Upto(pipe, n))
          /\ pipe' = SubSeq(pipe, n + 1, Len(pipe))
    BY <1>9 DEF ParentPipe
  <2>1. CASE pipe = <<>>
    <3>1. parent' = [EventDone EXCEPT !.work = FALSE] /\ EventDone \in ParentRec
      BY <1>0, <2>0, <2>1, EventDoneType
    <3> HIDE DEF EventDone
    <3>2. parent'.work = FALSE
      BY <3>1 DEF ParentRec
    <3> QED
      BY <3>2, EdgesOver
  <2>2. CASE pipe # <<>>
    <3>1. pipe \in Seq(Line) /\ n \in Nat \ {0}
      BY <1>0, ClientAssumption DEF ClientTypeOK
    <3>2. Len(pipe') < Len(pipe)
      BY <2>0, <2>2, <3>1, RestShorter
    <3>3. Upto(pipe, n) \in Seq(Line) /\ Upto(pipe, n) # <<>>
      BY <2>2, <3>1, UptoFacts
    <3>4. /\ parent'.pc \in {"next", "send"} /\ parent'.work = parent.work
          /\ parent'.batch = parent.batch
      BY <1>0, <2>0, <2>2, <3>3, ReceivedType
    <3>5. parent.pc = "pipe" /\ UNCHANGED <<held, ready, rx, peer>>
      BY <1>9 DEF ParentPipe, envVars
    <3>6. InBatch("sock") => InBatch("sock")'
      BY <3>4, <3>5 DEF InBatch
    <3>7. Missed("sock")' => Missed("sock")
      BY <3>4, <3>5, <3>6 DEF Missed, Pollable, SockInput
    <3>8. KeepsEdges
      BY <3>2, <3>7 DEF KeepsEdges
    <3> QED
      BY <3>4, <3>5, <3>8 DEF WorkHolds
  <2> QED
    BY <2>1, <2>2
<1>10. CASE ParentSend
  <2>0. parent.pc = "send" /\ UNCHANGED <<pipe, rx>>
    BY <1>10 DEF ParentSend
  <2>1. CASE SendKills
    <3>1. parent'.pc = "ended"
      BY <1>0, <2>1 DEF SendKills, ParentRec
    <3> QED
      BY <3>1, EdgesOver
  <2>2. CASE SendLost \/ SendTaken
    <3>1. /\ parent'.pc = "next" /\ parent'.work = parent.work /\ parent'.batch = parent.batch
          /\ UNCHANGED held /\ ready \subseteq ready'
      BY <1>0, <2>2, EventDoneType DEF SendLost, SendTaken
    <3>2. SockInput' => SockInput \/ "sock" \in ready'
      BY <2>0, <2>2 DEF SendLost, SendTaken, SockInput
    <3>3. InBatch("sock") => InBatch("sock")'
      BY <2>0, <3>1 DEF InBatch
    <3>4. InBatch("pipe") => InBatch("pipe")'
      BY <2>0, <3>1 DEF InBatch
    <3>5. PipeInput' => PipeInput
      BY <2>0, <3>1 DEF PipeInput, Hangup, Somebody
    <3>6. KeepsEdges
      BY <2>0, <3>1, <3>2, <3>3, <3>4, <3>5, EdgesBy
    <3> QED
      BY <2>0, <3>1, <3>6 DEF WorkHolds
  <2> QED
    BY <1>10, <2>1, <2>2 DEF ParentSend
<1> QED
  BY <1>2, <1>3, <1>4, <1>5, <1>6, <1>7, <1>8, <1>9, <1>10 DEF Next, ParentRuns

\* What comes in on the socket is never left without an edge or an event in hand, and what is
\* in the pipe only by a read that has found lines, for any number of lines and texts and
\* however many of them a read holds.
THEOREM EdgesKept == Spec => NoLostEdge /\ []~Missed("sock")
<1>1. Init => WorkHolds /\ ~Missed("sock")
  BY DEF Init, Missed, Pollable, WorkHolds, SockInput
<1>2. ClientInv /\ WorkHolds /\ [Next]_vars => KeepsEdges /\ WorkHolds'
  BY EdgesNext
<1>3. KeepsEdges => (Missed("sock")' => Missed("sock"))
  BY DEF KeepsEdges
<1>4. KeepsEdges => \A f \in {"pipe", "sock"} : ~Missed(f) /\ Missed(f)' =>
                      f = "pipe" /\ Len(pipe') < Len(pipe)
  BY DEF KeepsEdges
<1>5. Spec => []~Missed("sock")
  BY <1>1, <1>2, <1>3, ClientInvariant, PTL DEF Spec
<1>6. Spec => NoLostEdge
  BY <1>1, <1>2, <1>4, ClientInvariant, PTL DEF Spec, NoLostEdge
<1> QED
  BY <1>5, <1>6

-----------------------------------------------------------------------------
(* FlattenSeq.                                                             *)

\* f flattens the first n sequences of ss, step by step.
Flattens(f, ss, n) == f = [i \in 1..n |-> IF i = 1 THEN ss[i] ELSE f[i - 1] \o ss[i]]

\* A step of it.
LEMMA FlattensStep ==
  ASSUME NEW f, NEW ss, NEW n \in Nat, Flattens(f, ss, n), NEW i \in 1..n
  PROVE  f[i] = IF i = 1 THEN ss[i] ELSE f[i - 1] \o ss[i]
<1> DEFINE g == [k \in 1..n |-> IF k = 1 THEN ss[k] ELSE f[k - 1] \o ss[k]]
<1>1. f = g
  BY DEF Flattens
<1>2. g[i] = IF i = 1 THEN ss[i] ELSE f[i - 1] \o ss[i]
  OBVIOUS
<1> QED
  BY <1>1, <1>2, Zenon

\* There is such a function: it is made longer one by one.
LEMMA FlattensExists ==
  ASSUME NEW ss, NEW n \in Nat
  PROVE  \E f : Flattens(f, ss, n)
<1> DEFINE S == {k \in Nat : ~ \E f : Flattens(f, ss, k)}
<1>1. ASSUME S # {}
      PROVE  FALSE
  <2>1. PICK m \in S : \A y \in S : m <= y
    BY <1>1, MinIn
  <2>2. CASE m = 0
    <3> DEFINE e == [i \in 1..0 |-> ss]
    <3>1. Flattens(e, ss, 0)
      BY DEF Flattens
    <3> QED
      BY <2>1, <2>2, <3>1
  <2>3. CASE m # 0
    <3>1. m \in Nat /\ m - 1 \in Nat /\ m - 1 \notin S
      BY <2>1, <2>3
    <3>2. PICK f : Flattens(f, ss, m - 1)
      BY <3>1
    <3> DEFINE h == [i \in 1..m |-> IF i = 1 THEN ss[i] ELSE f[i - 1] \o ss[i]]
               hh == [i \in 1..m |-> IF i = 1 THEN ss[i] ELSE h[i - 1] \o ss[i]]
    <3>3. ASSUME NEW i \in 1..m
          PROVE  h[i] = hh[i]
      <4>1. CASE i = 1
        BY <4>1
      <4>2. CASE i # 1
        <5>1. i - 1 \in 1..m - 1 /\ i - 1 \in 1..m
          BY <3>1, <4>2
        <5>2. f[i - 1] = IF i - 1 = 1 THEN ss[i - 1] ELSE f[i - 1 - 1] \o ss[i - 1]
          BY <3>1, <3>2, <5>1, FlattensStep
        <5>3. h[i - 1] = f[i - 1]
          BY <5>1, <5>2
        <5> QED
          BY <4>2, <5>3
      <4> QED
        BY <4>1, <4>2
    <3>4. h = hh
      BY <3>3, ZenonT(30)
    <3>5. Flattens(h, ss, m)
      BY <3>4 DEF Flattens
    <3> QED
      BY <2>1, <3>5
  <2> QED
    BY <2>2, <2>3
<1> QED
  BY <1>1

\* tt begins with the n sequences of ss.
BeginsWith(tt, ss, n, S) == \A i \in 1..n : tt[i] = ss[i] /\ ss[i] \in Seq(S)

\* What it has made is a sequence of the same things, and there is only one of it.
LEMMA FlattensFacts ==
  ASSUME NEW S, NEW ss, NEW tt, NEW f, NEW g, NEW n \in Nat,
         Flattens(f, ss, n), Flattens(g, tt, n + 1),
         BeginsWith(tt, ss, n, S)
  PROVE  \A i \in 1..n : f[i] \in Seq(S) /\ g[i] = f[i]
<1> DEFINE B == {i \in 1..n : ~(f[i] \in Seq(S) /\ g[i] = f[i])}
<1>1. ASSUME B # {}
      PROVE  FALSE
  <2>1. B \in SUBSET Nat
    OBVIOUS
  <2>2. PICK k \in B : \A y \in B : k <= y
    BY <1>1, <2>1, MinIn
  <2>3. k \in 1..n /\ k \in 1..n + 1 /\ n + 1 \in Nat
    BY <2>2
  <2>4. f[k] = IF k = 1 THEN ss[k] ELSE f[k - 1] \o ss[k]
    BY <2>3, FlattensStep
  <2>5. g[k] = IF k = 1 THEN tt[k] ELSE g[k - 1] \o tt[k]
    BY <2>3, FlattensStep
  <2>6. CASE k = 1
    BY <2>2, <2>3, <2>4, <2>5, <2>6 DEF BeginsWith
  <2>7. CASE k # 1
    <3>1. k - 1 \in 1..n /\ k - 1 \notin B
      BY <2>2, <2>3, <2>7
    <3>2. f[k - 1] \in Seq(S) /\ g[k - 1] = f[k - 1]
      BY <3>1
    <3>3. f[k - 1] \o ss[k] \in Seq(S)
      BY <2>3, <3>2, ConcatProperties DEF BeginsWith
    <3> QED
      BY <2>2, <2>3, <2>4, <2>5, <2>7, <3>2, <3>3 DEF BeginsWith
  <2> QED
    BY <2>6, <2>7
<1> QED
  BY <1>1

\* FlattenSeq is such a function's last value.
LEMMA FlattenIs ==
  ASSUME NEW S, NEW ss \in Seq(Seq(S)), ss # <<>>
  PROVE  \E f : Flattens(f, ss, Len(ss)) /\ FlattenSeq(ss) = f[Len(ss)]
<1>1. Len(ss) \in Nat /\ Len(ss) # 0
  BY EmptySeq
<1>2. \E f : Flattens(f, ss, Len(ss))
  BY <1>1, FlattensExists
<1> DEFINE F == CHOOSE f : f = [i \in 1..Len(ss) |-> IF i = 1 THEN ss[i] ELSE f[i - 1] \o ss[i]]
<1>3. Flattens(F, ss, Len(ss))
  BY <1>2, Zenon DEF Flattens
<1>4. FlattenSeq(ss) = F[Len(ss)]
  BY <1>1 DEF FlattenSeq
<1> HIDE DEF F
<1> QED
  BY <1>3, <1>4

\* One sequence more comes behind what was there.
LEMMA FlattenAppend ==
  ASSUME NEW S, NEW ss \in Seq(Seq(S)), NEW s \in Seq(S)
  PROVE  FlattenSeq(ss) \in Seq(S) /\ FlattenSeq(Append(ss, s)) = FlattenSeq(ss) \o s
<1>1. PICK tt \in Seq(Seq(S)) : tt = Append(ss, s)
  BY AppendProperties
<1>2. PICK n \in Nat : n = Len(ss)
  BY LenProperties
<1>3. /\ Len(tt) = n + 1 /\ tt[n + 1] = s
      /\ \A i \in 1..n : tt[i] = ss[i] /\ ss[i] \in Seq(S)
  BY <1>1, <1>2, AppendProperties
<1>4. tt # <<>>
  BY <1>2, <1>3, EmptySeq
<1>5. PICK g : Flattens(g, tt, n + 1) /\ FlattenSeq(tt) = g[n + 1]
  BY <1>3, <1>4, FlattenIs
<1>6. g[n + 1] = IF n + 1 = 1 THEN s ELSE g[n] \o s
  <2>1. n + 1 \in Nat /\ n + 1 \in 1..n + 1 /\ n + 1 - 1 = n
    OBVIOUS
  <2>2. g[n + 1] = IF n + 1 = 1 THEN tt[n + 1] ELSE g[n + 1 - 1] \o tt[n + 1]
    BY <1>5, <2>1, FlattensStep
  <2> QED
    BY <1>3, <2>1, <2>2
<1>7. CASE ss = <<>>
  <2>1. FlattenSeq(ss) = <<>> /\ n = 0
    BY <1>2, <1>7, EmptySeq DEF FlattenSeq
  <2>2. FlattenSeq(tt) = s
    BY <1>5, <1>6, <2>1
  <2> QED
    BY <1>1, <2>1, <2>2, ConcatEmptySeq, EmptySeq
<1>8. CASE ss # <<>>
  <2>1. PICK f : Flattens(f, ss, n) /\ FlattenSeq(ss) = f[n]
    BY <1>2, <1>8, FlattenIs
  <2>2. n \in 1..n
    BY <1>2, <1>8, EmptySeq
  <2>3. \A i \in 1..n : f[i] \in Seq(S) /\ g[i] = f[i]
    <3>1. Flattens(f, ss, n) /\ Flattens(g, tt, n + 1)
      BY <1>5, <2>1
    <3>2. BeginsWith(tt, ss, n, S)
      BY <1>3 DEF BeginsWith
    <3> QED
      BY <3>1, <3>2, FlattensFacts
  <2>4. FlattenSeq(tt) = g[n] \o s
    BY <1>5, <1>6, <2>2
  <2> QED
    BY <1>1, <2>1, <2>2, <2>3, <2>4
<1> QED
  BY <1>7, <1>8

-----------------------------------------------------------------------------
(* Order.  The number 0 is that of a cell that carries no text.            *)

Climbs(s) ==
  \A i, j \in DOMAIN s : i < j /\ s[i].no # 0 /\ s[j].no # 0 => s[i].no < s[j].no

\* What stands in a comes before what stands in b.
Below(a, b) ==
  \A i \in DOMAIN a, j \in DOMAIN b : a[i].no # 0 /\ b[j].no # 0 => a[i].no < b[j].no

AtMost(s, n) == \A i \in DOMAIN s : s[i].no <= n

Solid(s) == \A i \in DOMAIN s : s[i].no # 0

\* p is what stands in s from behind place k on.
Slice(p, s, k) == \A i \in DOMAIN p : i + k \in DOMAIN s /\ p[i] = s[i + k]

\* Four places one behind the other through which numbered things pass, the last n so far.
Queue(a, b, c, d, n) ==
  /\ Climbs(a) /\ Climbs(b) /\ Climbs(c) /\ Climbs(d)
  /\ Below(a, b) /\ Below(a, c) /\ Below(a, d)
  /\ Below(b, c) /\ Below(b, d) /\ Below(c, d)
  /\ AtMost(a, n) /\ AtMost(b, n) /\ AtMost(c, n) /\ AtMost(d, n)

\* Things with a number.
Numbered(S) == \A x \in S : x.no \in Nat

LEMMA Places ==
  ASSUME NEW S, NEW s \in Seq(S)
  PROVE  /\ Len(s) \in Nat /\ DOMAIN s = 1..Len(s)
         /\ \A i \in DOMAIN s : i \in Nat /\ s[i] \in S
BY LenProperties, ElementOfSeq

\* What stands in a concatenation.
LEMMA ConcatPlaces ==
  ASSUME NEW S, NEW s \in Seq(S), NEW t \in Seq(S)
  PROVE  /\ s \o t \in Seq(S)
         /\ \A i \in DOMAIN (s \o t) :
              \/ i \in DOMAIN s /\ (s \o t)[i] = s[i]
              \/ i > Len(s) /\ i - Len(s) \in DOMAIN t /\ (s \o t)[i] = t[i - Len(s)]
<1>1. /\ s \o t \in Seq(S) /\ Len(s \o t) = Len(s) + Len(t)
      /\ \A i \in 1..Len(s) + Len(t) : (s \o t)[i] = IF i <= Len(s) THEN s[i] ELSE t[i - Len(s)]
  BY ConcatProperties
<1>2. Len(s) \in Nat /\ DOMAIN s = 1..Len(s) /\ Len(t) \in Nat /\ DOMAIN t = 1..Len(t)
  BY Places
<1>3. DOMAIN (s \o t) = 1..Len(s) + Len(t)
  BY <1>1, LenProperties
<1>4. ASSUME NEW i \in DOMAIN (s \o t)
      PROVE  \/ i \in DOMAIN s /\ (s \o t)[i] = s[i]
             \/ i > Len(s) /\ i - Len(s) \in DOMAIN t /\ (s \o t)[i] = t[i - Len(s)]
  <2>1. CASE i <= Len(s)
    BY <1>1, <1>2, <1>3, <1>4, <2>1
  <2>2. CASE ~(i <= Len(s))
    BY <1>1, <1>2, <1>3, <1>4, <2>2
  <2> QED
    BY <2>1, <2>2
<1> QED
  BY <1>1, <1>4

\* Two sequences one behind the other.
LEMMA ConcatClimbs ==
  ASSUME NEW S, NEW s \in Seq(S), NEW t \in Seq(S), Climbs(s), Climbs(t), Below(s, t)
  PROVE  Climbs(s \o t)
<1>1. PICK u : u = s \o t
  OBVIOUS
<1>2. \A i \in DOMAIN u :
        \/ i \in DOMAIN s /\ u[i] = s[i]
        \/ i > Len(s) /\ i - Len(s) \in DOMAIN t /\ u[i] = t[i - Len(s)]
  BY <1>1, ConcatPlaces
<1>3. u \in Seq(S)
  BY <1>1, ConcatPlaces
<1>4. /\ Len(s) \in Nat /\ DOMAIN s = 1..Len(s)
      /\ \A i \in DOMAIN u : i \in Nat
  BY <1>3, Places
<1>5. ASSUME NEW i \in DOMAIN u, NEW j \in DOMAIN u, i < j, u[i].no # 0, u[j].no # 0
      PROVE  u[i].no < u[j].no
  <2>1. CASE j \in DOMAIN s /\ u[j] = s[j]
    <3>1. i \in DOMAIN s /\ u[i] = s[i]
      BY <1>2, <1>4, <1>5, <2>1
    <3> QED
      BY <1>5, <2>1, <3>1 DEF Climbs
  <2>2. CASE j > Len(s) /\ j - Len(s) \in DOMAIN t /\ u[j] = t[j - Len(s)]
    <3>1. CASE i \in DOMAIN s /\ u[i] = s[i]
      BY <1>5, <2>2, <3>1 DEF Below
    <3>2. CASE i > Len(s) /\ i - Len(s) \in DOMAIN t /\ u[i] = t[i - Len(s)]
      <4>1. i - Len(s) < j - Len(s)
        BY <1>4, <1>5
      <4> QED
        BY <1>5, <2>2, <3>2, <4>1 DEF Climbs
    <3> QED
      BY <1>2, <3>1, <3>2
  <2> QED
    BY <1>2, <2>1, <2>2
<1>6. Climbs(u)
  BY <1>5 DEF Climbs
<1> QED
  BY <1>1, <1>6

LEMMA ConcatRest ==
  ASSUME NEW S, NEW s \in Seq(S), NEW t \in Seq(S)
  PROVE  /\ \A u : Below(s, u) /\ Below(t, u) => Below(s \o t, u)
         /\ \A u : Below(u, s) /\ Below(u, t) => Below(u, s \o t)
         /\ \A n : AtMost(s, n) /\ AtMost(t, n) => AtMost(s \o t, n)
         /\ Solid(s) /\ Solid(t) => Solid(s \o t)
<1>1. PICK v : v = s \o t
  OBVIOUS
<1>2. \A i \in DOMAIN v :
        \/ i \in DOMAIN s /\ v[i] = s[i]
        \/ i - Len(s) \in DOMAIN t /\ v[i] = t[i - Len(s)]
  BY <1>1, ConcatPlaces
<1>3. /\ \A u : Below(s, u) /\ Below(t, u) => Below(v, u)
      /\ \A u : Below(u, s) /\ Below(u, t) => Below(u, v)
  BY <1>2 DEF Below
<1>4. \A n : AtMost(s, n) /\ AtMost(t, n) => AtMost(v, n)
  BY <1>2 DEF AtMost
<1>5. Solid(s) /\ Solid(t) => Solid(v)
  BY <1>2 DEF Solid
<1> QED
  BY <1>1, <1>3, <1>4, <1>5

\* A slice has what the whole has.
LEMMA SliceFacts ==
  ASSUME NEW S, NEW s \in Seq(S), NEW p \in Seq(S), NEW k \in Nat, Slice(p, s, k)
  PROVE  /\ Climbs(s) => Climbs(p)
         /\ \A u : Below(s, u) => Below(p, u)
         /\ \A u : Below(u, s) => Below(u, p)
         /\ \A n : AtMost(s, n) => AtMost(p, n)
         /\ Solid(s) => Solid(p)
<1>1. \A i \in DOMAIN p : i \in Nat
  BY Places
<1>2. \A i, j \in DOMAIN p : i < j => i + k < j + k
  BY <1>1
<1>3. Climbs(s) => Climbs(p)
  BY <1>2 DEF Climbs, Slice
<1>4. /\ \A u : Below(s, u) => Below(p, u)
      /\ \A u : Below(u, s) => Below(u, p)
  BY DEF Below, Slice
<1>5. /\ \A n : AtMost(s, n) => AtMost(p, n)
      /\ Solid(s) => Solid(p)
  BY DEF AtMost, Solid, Slice
<1> QED
  BY <1>3, <1>4, <1>5

\* Of two slices of what climbs the one in front is below the other one.
LEMMA SlicesApart ==
  ASSUME NEW S, NEW s \in Seq(S), Climbs(s), NEW p \in Seq(S), NEW q \in Seq(S), NEW k \in Nat,
         Slice(p, s, 0), Len(p) <= k, Slice(q, s, k)
  PROVE  Below(p, q)
<1>1. /\ \A i \in DOMAIN p : i \in Nat /\ i <= k
      /\ \A j \in DOMAIN q : j \in Nat /\ j >= 1
  BY Places
<1>2. ASSUME NEW i \in DOMAIN p, NEW j \in DOMAIN q, p[i].no # 0, q[j].no # 0
      PROVE  p[i].no < q[j].no
  <2>1. i + 0 = i /\ i < j + k
    BY <1>1
  <2>2. i \in DOMAIN s /\ p[i] = s[i] /\ j + k \in DOMAIN s /\ q[j] = s[j + k]
    BY <2>1 DEF Slice
  <2> QED
    BY <1>2, <2>1, <2>2 DEF Climbs
<1> QED
  BY <1>2 DEF Below

-----------------------------------------------------------------------------
(* What may happen to a queue.                                             *)

LEMMA Nothing ==
  /\ Climbs(<<>>) /\ Solid(<<>>)
  /\ \A u : Below(<<>>, u) /\ Below(u, <<>>)
  /\ \A n : AtMost(<<>>, n)
<1>1. DOMAIN <<>> = {}
  OBVIOUS
<1> QED
  BY <1>1 DEF Climbs, Solid, Below, AtMost

\* What stands at the second place goes to the first one.
LEMMA QueueFlush ==
  ASSUME NEW S, NEW a \in Seq(S), NEW b \in Seq(S), NEW c, NEW d, NEW n, Queue(a, b, c, d, n)
  PROVE  Queue(a \o b, <<>>, c, d, n)
<1>1. Climbs(a \o b) /\ Below(a \o b, c) /\ Below(a \o b, d) /\ AtMost(a \o b, n)
  BY ConcatClimbs, ConcatRest DEF Queue
<1> QED
  BY <1>1, Nothing DEF Queue

\* What stands at the second place, or at the last one, is dropped.
LEMMA QueueDrop ==
  ASSUME NEW a, NEW b, NEW c, NEW d, NEW n, Queue(a, b, c, d, n)
  PROVE  Queue(a, <<>>, c, d, n) /\ Queue(a, b, c, <<>>, n)
BY Nothing DEF Queue

\* What stands in front at the third place goes behind the second one, and some of it may be
\* left out.
LEMMA QueueTake ==
  ASSUME NEW S, NEW b \in Seq(S), NEW c \in Seq(S), NEW p \in Seq(S), NEW q \in Seq(S),
         NEW k \in Nat, Slice(p, c, 0), Len(p) <= k, Slice(q, c, k),
         NEW a, NEW d, NEW n, Queue(a, b, c, d, n)
  PROVE  Queue(a, b \o p, q, d, n)
<1>1. /\ Climbs(p) /\ Climbs(q) /\ Below(a, p) /\ Below(a, q) /\ Below(b, p) /\ Below(b, q)
      /\ Below(p, d) /\ Below(q, d) /\ AtMost(p, n) /\ AtMost(q, n)
  BY SliceFacts DEF Queue
<1>2. Below(p, q)
  BY SlicesApart DEF Queue
<1>3. Climbs(b \o p)
  BY <1>1, ConcatClimbs DEF Queue
<1>4. Below(b \o p, q) /\ Below(b \o p, d) /\ Below(a, b \o p) /\ AtMost(b \o p, n)
  BY <1>1, <1>2, ConcatRest DEF Queue
<1> QED
  BY <1>1, <1>3, <1>4 DEF Queue

\* What stands in front at the last place goes behind the third one.
LEMMA QueuePass ==
  ASSUME NEW S, NEW c \in Seq(S), NEW d \in Seq(S), NEW p \in Seq(S), NEW q \in Seq(S),
         NEW k \in Nat, Slice(p, d, 0), Len(p) <= k, Slice(q, d, k),
         NEW a, NEW b, NEW n, Queue(a, b, c, d, n)
  PROVE  Queue(a, b, c \o p, q, n)
<1>1. /\ Climbs(p) /\ Climbs(q) /\ Below(a, p) /\ Below(a, q) /\ Below(b, p) /\ Below(b, q)
      /\ Below(c, p) /\ Below(c, q) /\ AtMost(p, n) /\ AtMost(q, n)
  BY SliceFacts DEF Queue
<1>2. Below(p, q)
  BY SlicesApart DEF Queue
<1>3. Climbs(c \o p)
  BY <1>1, ConcatClimbs DEF Queue
<1>4. Below(c \o p, q) /\ Below(a, c \o p) /\ Below(b, c \o p) /\ AtMost(c \o p, n)
  BY <1>1, <1>2, ConcatRest DEF Queue
<1> QED
  BY <1>1, <1>3, <1>4 DEF Queue

\* New things come behind the last place.
LEMMA QueueNew ==
  ASSUME NEW S, Numbered(S), NEW a \in Seq(S), NEW b \in Seq(S), NEW c \in Seq(S),
         NEW d \in Seq(S), NEW e \in Seq(S), NEW n \in Nat, NEW m \in Nat, n <= m,
         Queue(a, b, c, d, n), Climbs(e), AtMost(e, m),
         \A i \in DOMAIN e : e[i].no # 0 => n < e[i].no
  PROVE  Queue(a, b, c, d \o e, m)
<1>1. ASSUME NEW s \in Seq(S), AtMost(s, n)
      PROVE  Below(s, e) /\ AtMost(s, m)
  <2>1. \A i \in DOMAIN s : s[i].no \in Nat /\ s[i].no <= n
    BY <1>1, Places DEF AtMost, Numbered
  <2>2. \A i \in DOMAIN e : e[i].no \in Nat
    BY Places DEF Numbered
  <2>3. Below(s, e)
    BY <2>1, <2>2 DEF Below
  <2> QED
    BY <2>1, <2>3 DEF AtMost
<1>2. /\ Below(a, e) /\ Below(b, e) /\ Below(c, e) /\ Below(d, e)
      /\ AtMost(a, m) /\ AtMost(b, m) /\ AtMost(c, m) /\ AtMost(d, m)
  BY <1>1 DEF Queue
<1>3. Climbs(d \o e)
  BY <1>2, ConcatClimbs DEF Queue
<1>4. Below(a, d \o e) /\ Below(b, d \o e) /\ Below(c, d \o e) /\ AtMost(d \o e, m)
  BY <1>2, ConcatRest DEF Queue
<1> QED
  BY <1>2, <1>3, <1>4 DEF Queue

\* Nothing comes, and the count goes on.
LEMMA QueueLater ==
  ASSUME NEW S, Numbered(S), NEW a \in Seq(S), NEW b \in Seq(S), NEW c \in Seq(S),
         NEW d \in Seq(S), NEW n \in Nat, NEW m \in Nat, n <= m, Queue(a, b, c, d, n)
  PROVE  Queue(a, b, c, d, m)
<1>1. <<>> \in Seq(S) /\ d \o <<>> = d
  BY EmptySeq, ConcatEmptySeq
<1>2. \A i \in DOMAIN <<>> : <<>>[i].no # 0 => n < <<>>[i].no
  OBVIOUS
<1>3. Queue(a, b, c, d \o <<>>, m)
  BY <1>1, <1>2, QueueNew, Nothing
<1> QED
  BY <1>1, <1>3

\* A read takes a slice and leaves one.
LEMMA ReadSlices ==
  ASSUME NEW S, NEW s \in Seq(S), NEW n \in Nat
  PROVE  /\ Upto(s, n) \in Seq(S) /\ Slice(Upto(s, n), s, 0) /\ Len(Upto(s, n)) <= n
         /\ SubSeq(s, n + 1, Len(s)) \in Seq(S) /\ Slice(SubSeq(s, n + 1, Len(s)), s, n)
<1>1. Len(s) \in Nat /\ DOMAIN s = 1..Len(s) /\ \A i \in 1..Len(s) : s[i] \in S
  BY Places
<1>2. PICK l \in Nat : l = Len(s)
  BY <1>1
<1>3. PICK m \in Nat : m = Min({n, Len(s)}) /\ m <= n /\ m <= l
  BY <1>2, MinIn
<1>4. PICK p : p = SubSeq(s, 1, m)
  OBVIOUS
<1>5. p \in Seq(S) /\ Len(p) = m /\ \A i \in 1..m : p[i] = s[i]
  <2>1. \A i \in 1..m : i \in 1..l
    BY <1>3
  <2>2. 1 \in Int /\ m \in Int /\ \A i \in 1..m : s[i] \in S
    <3>1. \A i \in 1..l : s[i] \in S
      BY <1>1, <1>2
    <3> QED
      BY <2>1, <3>1
  <2>3. /\ p \in Seq(S)
        /\ Len(p) = IF 1 <= m THEN m - 1 + 1 ELSE 0
        /\ \A i \in 1..m - 1 + 1 : p[i] = s[1 + i - 1]
    BY <1>4, <2>2, SubSeqProperties
  <2>4. m - 1 + 1 = m /\ \A i \in 1..m : 1 + i - 1 = i
    OBVIOUS
  <2> QED
    BY <2>3, <2>4
<1>6. Slice(p, s, 0)
  <2>1. DOMAIN p = 1..m
    BY <1>5, Places
  <2>2. \A i \in 1..m : i + 0 = i /\ i \in DOMAIN s
    BY <1>1, <1>2, <1>3
  <2> QED
    BY <1>5, <2>1, <2>2 DEF Slice
<1>7. PICK q : q = SubSeq(s, n + 1, Len(s))
  OBVIOUS
<1>8. /\ q \in Seq(S) /\ Len(q) = (IF n + 1 <= l THEN l - n ELSE 0)
      /\ \A i \in 1..l - n : q[i] = s[i + n]
  <2>1. n + 1 \in Int /\ l \in Int /\ \A i \in n + 1..l : s[i] \in S
    BY <1>1, <1>2
  <2>2. /\ q \in Seq(S)
        /\ Len(q) = IF n + 1 <= l THEN l - (n + 1) + 1 ELSE 0
        /\ \A i \in 1..l - (n + 1) + 1 : q[i] = s[n + 1 + i - 1]
    BY <1>7, <1>2, <2>1, SubSeqProperties
  <2>3. l - (n + 1) + 1 = l - n /\ \A i \in 1..l - n : n + 1 + i - 1 = i + n
    BY <1>2
  <2> QED
    BY <2>2, <2>3
<1>9. Slice(q, s, n)
  <2>1. DOMAIN q = 1..Len(q)
    BY <1>8, Places
  <2>2. ASSUME NEW i \in DOMAIN q
        PROVE  i \in 1..l - n /\ i + n \in DOMAIN s
    <3>1. n + 1 <= l /\ i \in 1..l - n
      BY <1>8, <2>1, <2>2
    <3> QED
      BY <1>1, <1>2, <3>1
  <2> QED
    BY <1>8, <2>2 DEF Slice
<1>10. Upto(s, n) = p
  BY <1>3, <1>4 DEF Upto
<1> QED
  BY <1>3, <1>5, <1>6, <1>7, <1>8, <1>9, <1>10

-----------------------------------------------------------------------------
(* The lines, from the keyboard to the socket.                             *)

\* The line the child has in hand.
Typing == IF child.pc = "write" THEN <<child.line>> ELSE <<>>

LinesInv ==
  /\ Queue(FlattenSeq(tx), parent.message, pipe, Typing, child.typed)
  /\ Solid(FlattenSeq(tx)) /\ Solid(parent.message) /\ Solid(pipe) /\ Solid(Typing)

LEMMA FlattenType ==
  ASSUME NEW S, NEW ss \in Seq(Seq(S))
  PROVE  FlattenSeq(ss) \in Seq(S)
<1>1. <<>> \in Seq(S)
  OBVIOUS
<1> QED
  BY <1>1, FlattenAppend

LEMMA One ==
  ASSUME NEW S, NEW x \in S
  PROVE  /\ <<x>> \in Seq(S) /\ DOMAIN <<x>> = {1} /\ <<x>>[1] = x /\ Len(<<x>>) = 1
OBVIOUS

LEMMA LinesType ==
  ASSUME ClientTypeOK
  PROVE  /\ FlattenSeq(tx) \in Seq(Line) /\ parent.message \in Seq(Line) /\ pipe \in Seq(Line)
         /\ Typing \in Seq(Line) /\ child.typed \in Nat /\ Numbered(Line)
         /\ child.line \in Line /\ tx \in Seq(Seq(Line))
<1>1. FlattenSeq(tx) \in Seq(Line)
  BY FlattenType DEF ClientTypeOK
<1>2. child.line \in Line /\ child.typed \in Nat
  BY ClientAssumption DEF ClientTypeOK
<1>3. Typing \in Seq(Line)
  <2>1. <<child.line>> \in Seq(Line) /\ <<>> \in Seq(Line)
    BY <1>2
  <2> QED
    BY <2>1 DEF Typing
<1>4. Numbered(Line)
  BY DEF Numbered, Line
<1> QED
  BY <1>1, <1>2, <1>3, <1>4 DEF ClientTypeOK

\* A step that takes no line further, though it may drop some.
LEMMA LinesStay ==
  ASSUME LinesInv, UNCHANGED <<tx, pipe>>, child'.typed = child.typed,
         parent'.message \in {parent.message, <<>>}, Typing' \in {Typing, <<>>}
  PROVE  LinesInv'
<1>1. Queue(FlattenSeq(tx), parent'.message, pipe, Typing', child.typed)
  BY QueueDrop DEF LinesInv
<1>2. Solid(parent'.message) /\ Solid(Typing')
  BY Nothing DEF LinesInv
<1> QED
  BY <1>1, <1>2 DEF LinesInv

\* The user types.
LEMMA LinesRead ==
  ASSUME ClientTypeOK, LinesInv, ChildRead
  PROVE  LinesInv'
<1>0. /\ child.pc = "read" /\ Typing = <<>>
      /\ child \in [pc: ChildPCs, line: Line, typed: 0..MaxLines]
      /\ UNCHANGED <<tx, pipe, parent>>
  BY DEF ChildRead, Typing, ClientTypeOK
<1>1. CASE ChildEnds
  <2>1. child'.pc = "ended" /\ child'.typed = child.typed
    BY <1>0, <1>1 DEF ChildEnds
  <2> QED
    BY <1>0, <2>1, LinesStay DEF Typing
<1>2. CASE ~ChildEnds
  <2>1. PICK k \in Kinds, u \in Users :
          child' = IF k \in {"blank", "clear"} THEN [child EXCEPT !.typed = @ + 1]
                   ELSE [pc |-> "write", typed |-> child.typed + 1,
                         line |-> [no |-> child.typed + 1, kind |-> k, user |-> u]]
    BY <1>2 DEF ChildRead
  <2>2. PICK n \in Nat : n = child.typed
    BY LinesType
  <2>3. child'.typed = n + 1 /\ n + 1 \in Nat /\ n <= n + 1
    BY <1>0, <2>1, <2>2
  <2>4. CASE k \in {"blank", "clear"}
    <3>1. child'.pc = "read"
      BY <1>0, <2>1, <2>4
    <3>2. Queue(FlattenSeq(tx), parent.message, pipe, Typing, n + 1)
      BY <2>2, <2>3, LinesType, QueueLater DEF LinesInv
    <3>3. Typing' = Typing
      BY <1>0, <3>1 DEF Typing
    <3> QED
      BY <1>0, <2>3, <3>2, <3>3 DEF LinesInv
  <2>5. CASE k \notin {"blank", "clear"}
    <3>1. PICK line : line = [no |-> n + 1, kind |-> k, user |-> u]
      OBVIOUS
    <3>2. line \in Line /\ line.no = n + 1
      BY <2>3, <3>1, ClientAssumption DEF Line
    <3>3. PICK e : e = <<line>>
      OBVIOUS
    <3>4. e \in Seq(Line) /\ DOMAIN e = {1} /\ e[1] = line
      BY <3>2, <3>3, One
    <3>5. Climbs(e) /\ Solid(e) /\ AtMost(e, n + 1) /\ \A i \in DOMAIN e : e[i].no # 0 => n < e[i].no
      BY <2>3, <3>2, <3>4 DEF Climbs, Solid, AtMost
    <3>6. Queue(FlattenSeq(tx), parent.message, pipe, Typing \o e, n + 1)
      BY <2>2, <2>3, <3>4, <3>5, LinesType, QueueNew DEF LinesInv
    <3>7. Typing \o e = e
      BY <1>0, ConcatEmptySeq
    <3>8. Typing' = e
      BY <2>1, <2>2, <2>5, <3>1, <3>3 DEF Typing
    <3>9. Queue(FlattenSeq(tx), parent.message, pipe, Typing', n + 1)
      BY <3>6, <3>7, <3>8
    <3>10. Solid(Typing')
      BY <3>5, <3>8
    <3> QED
      BY <1>0, <2>3, <3>9, <3>10 DEF LinesInv
  <2> QED
    BY <2>4, <2>5
<1> QED
  BY <1>1, <1>2

\* The child writes into the pipe.
LEMMA LinesWrite ==
  ASSUME ClientTypeOK, LinesInv, ChildWrite
  PROVE  LinesInv'
<1>0. /\ child.pc = "write" /\ Typing = <<child.line>> /\ UNCHANGED <<tx, parent>>
      /\ child \in [pc: ChildPCs, line: Line, typed: 0..MaxLines]
  BY DEF ChildWrite, Typing, ClientTypeOK
<1>1. CASE Somebody("r")
  <2>1. /\ pipe' = Append(pipe, child.line) /\ child'.pc = "read" /\ child'.typed = child.typed
    BY <1>0, <1>1 DEF ChildWrite
  <2>2. Typing' = <<>>
    BY <2>1 DEF Typing
  <2>3. pipe' = pipe \o Typing
    BY <1>0, <2>1, LinesType
  <2>4. /\ <<>> \in Seq(Line) /\ Slice(Typing, Typing, 0) /\ Slice(<<>>, Typing, 1)
        /\ Len(Typing) <= 1 /\ Typing \in Seq(Line)
    <3>1. PICK t \in Seq(Line) : t = Typing
      BY LinesType
    <3>2. Len(t) = 1 /\ DOMAIN <<>> = {} /\ <<>> \in Seq(Line)
      BY <1>0, <3>1
    <3>3. \A i \in DOMAIN t : i + 0 = i
      BY Places
    <3>4. Slice(t, t, 0) /\ Slice(<<>>, t, 1)
      BY <3>2, <3>3 DEF Slice
    <3> QED
      BY <3>1, <3>2, <3>4
  <2>5. Queue(FlattenSeq(tx), parent.message, pipe \o Typing, <<>>, child.typed)
    BY <2>4, LinesType, QueuePass DEF LinesInv
  <2>6. Solid(pipe \o Typing)
    BY LinesType, ConcatRest DEF LinesInv
  <2> QED
    BY <1>0, <2>1, <2>2, <2>3, <2>5, <2>6, Nothing DEF LinesInv
<1>2. CASE ~Somebody("r")
  <2>1. child'.pc = "ended" /\ child'.typed = child.typed /\ pipe' = pipe
    BY <1>0, <1>2 DEF ChildWrite, ChildEnds
  <2> QED
    BY <1>0, <2>1, LinesStay DEF Typing
<1> QED
  BY <1>1, <1>2

\* The parent reads the pipe.
LEMMA LinesPipe ==
  ASSUME ClientTypeOK, LinesInv, ParentPipe
  PROVE  LinesInv'
<1>0. UNCHANGED <<tx, child>> /\ Typing' = Typing /\ parent \in ParentRec
  BY DEF ParentPipe, Typing, ClientTypeOK, ParentRec
<1>a. PICK n \in Holds :
        /\ IF pipe = <<>> THEN parent' = [EventDone EXCEPT !.work = FALSE]
           ELSE Received(Upto(pipe, n))
        /\ pipe' = SubSeq(pipe, n + 1, Len(pipe))
  BY DEF ParentPipe
<1>1. PICK q : q = SubSeq(pipe, n + 1, Len(pipe))
  OBVIOUS
<1>2. PICK p : p = Upto(pipe, n)
  OBVIOUS
<1>3. /\ p \in Seq(Line) /\ Slice(p, pipe, 0) /\ Len(p) <= n /\ n \in Nat
      /\ q \in Seq(Line) /\ Slice(q, pipe, n)
  BY <1>1, <1>2, LinesType, ReadSlices, ClientAssumption
<1>4. Solid(p) /\ Solid(q)
  BY <1>3, LinesType, SliceFacts DEF LinesInv
<1>5. Queue(FlattenSeq(tx), <<>>, pipe, Typing, child.typed)
  BY QueueDrop DEF LinesInv
<1>6. <<>> \in Seq(Line) /\ <<>> \o p = p
  BY <1>3, EmptySeq, ConcatEmptySeq
<1>7. Queue(FlattenSeq(tx), <<>> \o p, q, Typing, child.typed)
  BY <1>3, <1>5, <1>6, LinesType, QueueTake
<1>8. Queue(FlattenSeq(tx), p, q, Typing, child.typed) /\ Queue(FlattenSeq(tx), <<>>, q, Typing, child.typed)
  BY <1>6, <1>7, QueueDrop
<1>9. parent'.message \in {p, <<>>} /\ pipe' = q
  <2>1. EventDone.message = <<>> /\ EventDone \in ParentRec
    BY <1>0, EventDoneType DEF EventDone, ParentRec
  <2>2. CASE pipe = <<>>
    <3>1. parent' = [EventDone EXCEPT !.work = FALSE]
      BY <1>a, <2>2
    <3> HIDE DEF EventDone
    <3>2. parent'.message = <<>>
      BY <2>1, <3>1 DEF ParentRec
    <3> QED
      BY <1>1, <1>a, <3>2
  <2>3. CASE pipe # <<>>
    <3>1. Received(p)
      BY <1>2, <1>a, <2>3
    <3> HIDE DEF EventDone
    <3>2. parent'.message \in {p, <<>>}
      BY <2>1, <3>1 DEF Received, ParentRec
    <3> QED
      BY <1>1, <1>a, <3>2
  <2> QED
    BY <2>2, <2>3
<1> QED
  BY <1>0, <1>4, <1>8, <1>9, Nothing DEF LinesInv

\* The parent sends.
LEMMA LinesSend ==
  ASSUME ClientTypeOK, LinesInv, ParentSend
  PROVE  LinesInv'
<1>0. UNCHANGED <<pipe, child>> /\ Typing' = Typing /\ parent \in ParentRec
  BY DEF ParentSend, Typing, ClientTypeOK, ParentRec
<1>1. EventDone.message = <<>>
  BY <1>0 DEF EventDone, ParentRec
<1>2. CASE SendLost
  BY <1>0, <1>1, <1>2, LinesStay DEF SendLost
<1>3. CASE SendKills
  <2>1. parent'.message = parent.message /\ UNCHANGED tx
    BY <1>0, <1>3 DEF SendKills, ParentRec
  <2> QED
    BY <1>0, <2>1, LinesStay
<1>4. CASE SendTaken
  <2>1. PICK part \in Fronts(parent.message) : tx' = Append(tx, part)
    BY <1>4 DEF SendTaken
  <2>2. parent'.message = <<>>
    BY <1>1, <1>4 DEF SendTaken
  <2>3. part \in Seq(Line) /\ Slice(part, parent.message, 0)
    <3>1. parent.message \in Seq(Line)
      BY LinesType
    <3>2. /\ part \in Seq(Line) /\ DOMAIN part = 1..Len(part)
          /\ DOMAIN parent.message = 1..Len(parent.message)
      BY <3>1, FrontFacts
    <3>3. \A i \in 1..Len(part) : i \in Nat /\ i + 0 = i
      BY <3>2
    <3>4. \A i \in 1..Len(part) : i \in 1..Len(parent.message) /\ part[i] = parent.message[i]
      BY <3>1, FrontFacts
    <3> QED
      BY <3>2, <3>3, <3>4 DEF Slice
  <2>4. /\ Climbs(part) /\ Solid(part) /\ AtMost(part, child.typed)
        /\ Below(FlattenSeq(tx), part) /\ Below(part, pipe) /\ Below(part, Typing)
    BY <2>3, LinesType, SliceFacts DEF LinesInv, Queue
  <2>5. Queue(FlattenSeq(tx), part, pipe, Typing, child.typed)
    BY <2>4 DEF LinesInv, Queue
  <2>6. FlattenSeq(tx') = FlattenSeq(tx) \o part
    BY <2>1, <2>3, LinesType, FlattenAppend
  <2>7. Queue(FlattenSeq(tx) \o part, <<>>, pipe, Typing, child.typed)
    BY <2>3, <2>5, LinesType, QueueFlush
  <2>8. Solid(FlattenSeq(tx) \o part)
    BY <2>3, <2>4, LinesType, ConcatRest DEF LinesInv
  <2> QED
    BY <1>0, <2>2, <2>6, <2>7, <2>8, Nothing DEF LinesInv
<1> QED
  BY <1>2, <1>3, <1>4 DEF ParentSend

LEMMA LinesNext ==
  ASSUME ClientTypeOK, LinesInv, [Next]_vars
  PROVE  LinesInv'
<1>0. /\ parent \in ParentRec /\ child \in [pc: ChildPCs, line: Line, typed: 0..MaxLines]
      /\ EventDone.message = <<>>
  BY DEF ClientTypeOK, ParentRec, EventDone
<1>1. CASE ChildEOF
  <2>1. child'.pc = "ended" /\ child'.typed = child.typed /\ UNCHANGED <<tx, pipe, parent>>
    BY <1>0, <1>1 DEF ChildEOF, ChildEnds
  <2> QED
    BY <2>1, LinesStay DEF Typing
<1>2. CASE ChildClose
  <2>1. child.pc = "close" /\ child'.pc = "read" /\ child'.typed = child.typed /\ UNCHANGED <<tx, pipe, parent>>
    BY <1>0, <1>2 DEF ChildClose
  <2> QED
    BY <2>1, LinesStay DEF Typing
<1>3. CASE ParentClose \/ ParentWait \/ ParentNext \/ ParentLoop \/ ParentRecv
  <2>1. UNCHANGED <<tx, pipe, child>>
    BY <1>3 DEF ParentClose, ParentWait, ParentNext, ParentLoop, ParentRecv
  <2>2. parent'.message \in {parent.message, <<>>}
    BY <1>0, <1>3 DEF ParentClose, ParentWait, ParentNext, ParentLoop, ParentRecv,
                      RecvText, RecvEnd, RecvBreak, ParentRec
  <2> QED
    BY <2>1, <2>2, LinesStay DEF Typing
<1>4. CASE ServerSend \/ Arrive \/ ServerCloses \/ ServerResets \/ UNCHANGED vars
  <2>1. UNCHANGED <<tx, pipe, child, parent>>
    BY <1>4 DEF ServerSend, Arrive, ServerCloses, ServerResets, vars
  <2> QED
    BY <2>1, LinesStay DEF Typing
<1> QED
  BY <1>1, <1>2, <1>3, <1>4, LinesRead, LinesWrite, LinesPipe, LinesSend
  DEF Next, ChildRuns, ParentRuns

\* The lines reach the server in the order they were typed in, none of them twice, for any
\* number of lines, however the reads cut the pipe and the sends fail.
THEOREM LinesInOrder == Spec => []InOrderOnce
<1>1. Init => LinesInv
  <2>1. FlattenSeq(<<>>) = <<>>
    BY DEF FlattenSeq
  <2>2. Queue(<<>>, <<>>, <<>>, <<>>, 0)
    BY Nothing DEF Queue
  <2>3. Init => /\ tx = <<>> /\ parent.message = <<>> /\ pipe = <<>> /\ Typing = <<>>
                /\ child.typed = 0
    BY DEF Init, Typing
  <2> QED
    BY <2>1, <2>2, <2>3, Nothing DEF LinesInv
<1>2. ClientInv /\ LinesInv /\ [Next]_vars => LinesInv'
  BY LinesNext DEF ClientInv
<1>3. LinesInv => InOrderOnce
  BY DEF LinesInv, Queue, Climbs, Solid, InOrderOnce, Rising
<1> QED
  BY <1>1, <1>2, <1>3, ClientInvariant, PTL DEF Spec

-----------------------------------------------------------------------------
(* The texts, from the server to the screen.                               *)

\* A cell without a number is the zero half of a block.
Marked(s) == \A i \in DOMAIN s : s[i].no = 0 => s[i] = Zero

TextsInv ==
  /\ Queue(FlattenSeq(shown), parent.stream, rx, wire, told)
  /\ Solid(FlattenSeq(shown)) /\ Solid(parent.stream)
  /\ Marked(rx) /\ Marked(wire)

LEMMA TextsType ==
  ASSUME ClientTypeOK
  PROVE  /\ FlattenSeq(shown) \in Seq(Text) /\ parent.stream \in Seq(Text) /\ rx \in Seq(Text)
         /\ wire \in Seq(Text) /\ told \in Nat /\ Numbered(Text) /\ shown \in Seq(Seq(Text))
<1>1. FlattenSeq(shown) \in Seq(Text)
  BY FlattenType DEF ClientTypeOK
<1>2. told \in Nat
  BY ClientAssumption DEF ClientTypeOK
<1>3. Numbered(Text)
  BY DEF Numbered, Text
<1> QED
  BY <1>1, <1>2, <1>3 DEF ClientTypeOK

\* A slice of marked cells is marked.
LEMMA MarkedSlice ==
  ASSUME NEW s, NEW p, NEW k, Slice(p, s, k), Marked(s)
  PROVE  Marked(p)
BY DEF Slice, Marked

\* The string in a buffer is what comes before the first zero.
LEMMA StringFacts ==
  ASSUME NEW buf \in Seq(Text), Marked(buf)
  PROVE  /\ AsString(buf) \in Seq(Text) /\ Slice(AsString(buf), buf, 0)
         /\ Len(AsString(buf)) <= Len(buf) /\ Solid(AsString(buf))
<1> DEFINE I == {i \in 1..Len(buf) : buf[i] = Zero}
<1>1. UpToZero(buf) = IF I # {} THEN Min(I) ELSE 0
  BY DEF UpToZero, SelectInSeq
<1>2. PICK l \in Nat : l = Len(buf) /\ DOMAIN buf = 1..l
  BY Places
<1>3. \A i \in DOMAIN buf : i \in Nat /\ i + 0 = i
  BY <1>2
<1>4. CASE I = {}
  <2>1. AsString(buf) = buf
    BY <1>1, <1>4 DEF AsString
  <2>2. Slice(buf, buf, 0)
    BY <1>3 DEF Slice
  <2>3. \A i \in DOMAIN buf : buf[i] # Zero
    BY <1>2, <1>4
  <2>4. Solid(buf)
    BY <2>3 DEF Marked, Solid
  <2> QED
    BY <1>2, <2>1, <2>2, <2>4
<1>5. CASE I # {}
  <2>1. I \in SUBSET Nat
    OBVIOUS
  <2>2. PICK z \in I : z = Min(I) /\ \A y \in I : z <= y
    BY <1>5, <2>1, MinIn
  <2>3. z \in Nat /\ z \in 1..l /\ z # 0
    BY <1>2, <2>2
  <2>4. UpToZero(buf) = z
    BY <1>1, <1>5, <2>2
  <2>5. PICK m \in Nat : m = z - 1 /\ m <= l
    BY <2>3
  <2>6. PICK p : p = SubSeq(buf, 1, m)
    OBVIOUS
  <2>7. AsString(buf) = p
    BY <2>3, <2>4, <2>5, <2>6 DEF AsString
  <2>8. \A i \in 1..m : i \in DOMAIN buf /\ i < z /\ i \in Nat
    BY <1>2, <2>3, <2>5
  <2>9. p \in Seq(Text) /\ Len(p) = m /\ \A i \in 1..m : p[i] = buf[i]
    <3>1. 1 \in Int /\ m \in Int /\ \A i \in 1..m : buf[i] \in Text
      BY <2>8, Places
    <3>2. /\ p \in Seq(Text)
          /\ Len(p) = IF 1 <= m THEN m - 1 + 1 ELSE 0
          /\ \A i \in 1..m - 1 + 1 : p[i] = buf[1 + i - 1]
      BY <2>6, <3>1, SubSeqProperties
    <3>3. m - 1 + 1 = m /\ \A i \in 1..m : 1 + i - 1 = i
      OBVIOUS
    <3> QED
      BY <3>2, <3>3
  <2>10. DOMAIN p = 1..m
    BY <2>9, Places
  <2>11. Slice(p, buf, 0)
    BY <1>3, <2>8, <2>9, <2>10 DEF Slice
  <2>12. ASSUME NEW i \in DOMAIN p
         PROVE  p[i].no # 0
    <3>1. i \in 1..l /\ i < z /\ i \in Nat
      BY <1>2, <2>8, <2>10
    <3>2. i \notin I
      BY <2>2, <2>3, <3>1
    <3>3. buf[i] # Zero
      BY <1>2, <3>1, <3>2
    <3> QED
      BY <1>2, <2>9, <2>10, <3>1, <3>3 DEF Marked
  <2> QED
    BY <1>2, <2>5, <2>7, <2>9, <2>11, <2>12 DEF Solid
<1> QED
  BY <1>4, <1>5

\* A step that shows no text and takes none in, though it may drop some.
LEMMA TextsStay ==
  ASSUME TextsInv, UNCHANGED <<shown, rx, told>>,
         parent'.stream \in {parent.stream, <<>>}, wire' \in {wire, <<>>}
  PROVE  TextsInv'
<1>1. Queue(FlattenSeq(shown), parent'.stream, rx, wire', told)
  BY QueueDrop DEF TextsInv
<1>2. Marked(<<>>)
  <2>1. DOMAIN <<>> = {}
    OBVIOUS
  <2> QED
    BY <2>1 DEF Marked
<1>3. Solid(parent'.stream) /\ Marked(wire')
  BY <1>2, Nothing DEF TextsInv
<1> QED
  BY <1>1, <1>3 DEF TextsInv

\* The parent reads the socket.
LEMMA TextsRecv ==
  ASSUME ClientTypeOK, TextsInv, ParentRecv
  PROVE  TextsInv'
<1>0. UNCHANGED <<wire, told>> /\ parent \in ParentRec
  BY DEF ParentRecv, envVars, ClientTypeOK, ParentRec
<1>1. CASE RecvText
  <2>1. PICK buf : buf = Upto(rx, Half)
    OBVIOUS
  <2>2. PICK q : q = SubSeq(rx, Half + 1, Len(rx))
    OBVIOUS
  <2>3. /\ buf \in Seq(Text) /\ Slice(buf, rx, 0) /\ Len(buf) <= Half /\ Half \in Nat
        /\ q \in Seq(Text) /\ Slice(q, rx, Half)
    BY <2>1, <2>2, TextsType, ReadSlices DEF Half
  <2>4. Marked(buf) /\ Marked(q)
    BY <2>3, MarkedSlice DEF TextsInv
  <2>5. PICK p : p = AsString(buf)
    OBVIOUS
  <2>6. p \in Seq(Text) /\ Slice(p, buf, 0) /\ Len(p) <= Len(buf) /\ Solid(p)
    BY <2>3, <2>4, <2>5, StringFacts
  <2>7. Slice(p, rx, 0) /\ Len(p) <= Half
    <3>1. \A i \in DOMAIN p : i + 0 = i
      BY <2>6, Places
    <3>2. \A i \in DOMAIN buf : i + 0 = i
      BY <2>3, Places
    <3>3. Slice(p, rx, 0)
      BY <2>3, <2>6, <3>1, <3>2 DEF Slice
    <3>4. Len(p) \in Nat /\ Len(buf) \in Nat
      BY <2>3, <2>6, Places
    <3> QED
      BY <2>3, <2>6, <3>3, <3>4
  <2>8. Queue(FlattenSeq(shown), parent.stream \o p, q, wire, told)
    BY <2>3, <2>6, <2>7, TextsType, QueueTake DEF TextsInv
  <2>9. Solid(parent.stream \o p)
    BY <2>6, TextsType, ConcatRest DEF TextsInv
  <2>10. parent'.stream = parent.stream \o p /\ rx' = q /\ shown' = shown
    BY <1>0, <1>1, <2>1, <2>2, <2>5 DEF RecvText, ParentRec
  <2> QED
    BY <1>0, <2>4, <2>8, <2>9, <2>10 DEF TextsInv
<1>2. CASE RecvEnd
  <2>1. parent'.stream = parent.stream /\ UNCHANGED <<rx, shown>>
    BY <1>0, <1>2 DEF RecvEnd, ParentRec
  <2> QED
    BY <1>0, <2>1, TextsStay
<1>3. CASE RecvBreak
  <2>1. parent'.stream = <<>> /\ rx' = rx
    BY <1>0, <1>3 DEF RecvBreak, EventDone, ParentRec
  <2>2. CASE shown' = shown
    BY <1>0, <2>1, <2>2, TextsStay
  <2>3. CASE shown' = Append(shown, parent.stream)
    <3>1. FlattenSeq(shown') = FlattenSeq(shown) \o parent.stream
      BY <2>3, TextsType, FlattenAppend
    <3>2. Queue(FlattenSeq(shown) \o parent.stream, <<>>, rx, wire, told)
      BY TextsType, QueueFlush DEF TextsInv
    <3>3. Solid(FlattenSeq(shown) \o parent.stream)
      BY TextsType, ConcatRest DEF TextsInv
    <3> QED
      BY <1>0, <2>1, <3>1, <3>2, <3>3, Nothing DEF TextsInv
  <2> QED
    BY <1>3, <2>2, <2>3 DEF RecvBreak
<1> QED
  BY <1>1, <1>2, <1>3 DEF ParentRecv

\* A cell comes in.
LEMMA TextsArrive ==
  ASSUME ClientTypeOK, TextsInv, Arrive
  PROVE  TextsInv'
<1>1. /\ wire # <<>> /\ rx' = Append(rx, Head(wire)) /\ wire' = Tail(wire)
      /\ UNCHANGED <<told, shown, parent>>
  BY DEF Arrive
<1>2. PICK q : q = Tail(wire)
  OBVIOUS
<1>3. /\ Head(wire) \in Text /\ q \in Seq(Text) /\ Len(q) = Len(wire) - 1 /\ Len(wire) \in Nat
      /\ \A i \in 1..Len(q) : q[i] = wire[i + 1]
  BY <1>1, <1>2, TextsType, HeadTailProperties, Places
<1>4. PICK p : p = <<Head(wire)>>
  OBVIOUS
<1>5. p \in Seq(Text) /\ DOMAIN p = {1} /\ p[1] = Head(wire) /\ Len(p) = 1 /\ 1 + 0 = 1
  BY <1>3, <1>4, One
<1>6. Head(wire) = wire[1] /\ 1 \in DOMAIN wire /\ DOMAIN wire = 1..Len(wire)
  BY <1>1, TextsType, EmptySeq, Places
<1>7. Slice(p, wire, 0) /\ Len(p) <= 1
  BY <1>5, <1>6 DEF Slice
<1>8. Slice(q, wire, 1)
  <2>1. \A i \in DOMAIN q : i \in 1..Len(q) /\ i + 1 \in 1..Len(wire)
    BY <1>3, Places
  <2> QED
    BY <1>3, <1>6, <2>1 DEF Slice
<1>9. Queue(FlattenSeq(shown), parent.stream, rx \o p, q, told)
  BY <1>3, <1>5, <1>7, <1>8, TextsType, QueuePass DEF TextsInv
<1>10. PICK r : r = rx \o p
  OBVIOUS
<1>11. rx' = r
  BY <1>1, <1>3, <1>4, <1>5, <1>10, TextsType
<1>12. Marked(q) /\ Marked(p)
  BY <1>7, <1>8, MarkedSlice DEF TextsInv
<1>13. Marked(r)
  BY <1>5, <1>10, <1>12, TextsType, ConcatPlaces DEF Marked, TextsInv
<1> QED
  BY <1>1, <1>2, <1>9, <1>10, <1>11, <1>12, <1>13 DEF TextsInv

\* The server sends a text.
LEMMA TextsSend ==
  ASSUME ClientTypeOK, TextsInv, ServerSend
  PROVE  TextsInv'
<1>1. PICK form \in Forms, user \in Users :
        wire' = wire \o Cells([no |-> told + 1, form |-> form, from |-> user])
  BY DEF ServerSend
<1>2. PICK n \in Nat : n = told
  BY TextsType
<1>3. PICK text : text = [no |-> n + 1, form |-> form, from |-> user]
  OBVIOUS
<1>4. /\ text \in Text /\ text.no = n + 1 /\ Zero \in Text /\ Zero.no = 0
      /\ n + 1 \in Nat /\ n <= n + 1
  BY <1>2, <1>3, ClientAssumption DEF Text, Zero, TextForms
<1>5. PICK e : e = Cells(text)
  OBVIOUS
<1>6. /\ e \in Seq(Text)
      /\ \A i \in DOMAIN e : (i = 1 /\ e[i] = text) \/ (i = 2 /\ e[i] = Zero)
  <2>1. CASE e = <<text>>
    BY <1>4, <2>1
  <2>2. CASE e = <<text, Zero>>
    BY <1>4, <2>2
  <2> QED
    BY <1>5, <2>1, <2>2 DEF Cells
<1>7. /\ Climbs(e) /\ AtMost(e, n + 1) /\ Marked(e)
      /\ \A i \in DOMAIN e : e[i].no # 0 => n < e[i].no
  <2>1. Climbs(e)
    BY <1>4, <1>6 DEF Climbs
  <2>2. AtMost(e, n + 1)
    BY <1>4, <1>6 DEF AtMost
  <2>3. Marked(e)
    BY <1>4, <1>6 DEF Marked
  <2>4. \A i \in DOMAIN e : e[i].no # 0 => n < e[i].no
    BY <1>4, <1>6
  <2> QED
    BY <2>1, <2>2, <2>3, <2>4
<1>8. Queue(FlattenSeq(shown), parent.stream, rx, wire \o e, n + 1)
  BY <1>2, <1>4, <1>6, <1>7, TextsType, QueueNew DEF TextsInv
<1>9. PICK r : r = wire \o e
  OBVIOUS
<1>10. Marked(r)
  BY <1>6, <1>7, <1>9, TextsType, ConcatPlaces DEF Marked, TextsInv
<1>11. wire' = r /\ told' = n + 1 /\ UNCHANGED <<shown, parent, rx>>
  BY <1>1, <1>2, <1>3, <1>5, <1>9 DEF ServerSend
<1> QED
  BY <1>8, <1>9, <1>10, <1>11 DEF TextsInv

LEMMA TextsNext ==
  ASSUME ClientTypeOK, TextsInv, [Next]_vars
  PROVE  TextsInv'
<1>0. parent \in ParentRec /\ EventDone.stream = <<>> /\ EventDone \in ParentRec
  BY EventDoneType DEF ClientTypeOK, ParentRec, EventDone
<1>1. CASE ChildRuns \/ ChildRead \/ ChildEOF \/ ServerCloses \/ ServerResets \/ UNCHANGED vars
  <2>1. UNCHANGED <<shown, rx, told, parent>> /\ wire' \in {wire, <<>>}
    BY <1>1 DEF ChildRuns, ChildClose, ChildWrite, ChildRead, ChildEOF, ServerCloses, ServerResets,
                vars, envVars
  <2> QED
    BY <2>1, TextsStay
<1>2. CASE ParentClose \/ ParentWait \/ ParentNext \/ ParentLoop
  <2>1. UNCHANGED <<shown, rx, told, wire>>
    BY <1>2 DEF ParentClose, ParentWait, ParentNext, ParentLoop, envVars
  <2>2. parent'.stream = parent.stream
    BY <1>0, <1>2 DEF ParentClose, ParentWait, ParentNext, ParentLoop, ParentRec
  <2> QED
    BY <2>1, <2>2, TextsStay
<1>3. CASE ParentPipe
  <2>1. UNCHANGED <<shown, rx, told, wire>>
    BY <1>3 DEF ParentPipe, envVars
  <2> HIDE DEF EventDone
  <2>2. parent'.stream = <<>>
    BY <1>0, <1>3 DEF ParentPipe, Received, ParentRec
  <2> QED
    BY <2>1, <2>2, TextsStay
<1>4. CASE ParentSend
  <2>1. UNCHANGED <<shown, rx, told, wire>>
    BY <1>4 DEF ParentSend
  <2>2. parent'.stream \in {parent.stream, <<>>}
    <3> HIDE DEF EventDone
    <3> QED
      BY <1>0, <1>4 DEF ParentSend, SendLost, SendTaken, SendKills, ParentRec
  <2> QED
    BY <2>1, <2>2, TextsStay
<1> QED
  BY <1>1, <1>2, <1>3, <1>4, TextsRecv, TextsArrive, TextsSend DEF Next, ParentRuns

\* Texts are shown in the order the server sent them in, none of them twice, for any number
\* of texts, however TCP cuts and glues the blocks.
THEOREM TextsInOrder == Spec => []ShownInOrder
<1>1. Init => TextsInv
  <2>1. FlattenSeq(<<>>) = <<>>
    BY DEF FlattenSeq
  <2>2. Queue(<<>>, <<>>, <<>>, <<>>, 0) /\ Marked(<<>>)
    <3>1. DOMAIN <<>> = {}
      OBVIOUS
    <3> QED
      BY <3>1, Nothing DEF Queue, Marked
  <2>3. Init => /\ shown = <<>> /\ parent.stream = <<>> /\ rx = <<>> /\ wire = <<>>
                /\ told = 0
    BY DEF Init
  <2> QED
    BY <2>1, <2>2, <2>3, Nothing DEF TextsInv
<1>2. ClientInv /\ TextsInv /\ [Next]_vars => TextsInv'
  BY TextsNext DEF ClientInv
<1>3. TextsInv => ShownInOrder
  BY DEF TextsInv, Queue, Climbs, Solid, ShownInOrder, Rising
<1> QED
  BY <1>1, <1>2, <1>3, ClientInvariant, PTL DEF Spec
=============================================================================
