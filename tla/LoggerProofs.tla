---------------------------- MODULE LoggerProofs ----------------------------
(***************************************************************************)
(* Proofs about Logger, for every set of threads, every number of          *)
(* arguments and every number of calls.  LinesUnmixed is not inductive: it *)
(* needs to know what stands in the current stream at every point of a     *)
(* call, and that only the holder of the mutex puts anything into it.      *)
(* How many lines there are, and how many lost their front, is counted     *)
(* over the threads.                                                       *)
(***************************************************************************)
EXTENDS Logger, TLAPS, WellFoundedInduction, FiniteSetTheorems

Inside == {"print", "write", "clear", "unlock"}
Before == {"setp", "typeid", "testssp", "setssp", "lock"}

\* The mutex is held by the thread that is inside, and by no other.
MutexHeld == \A t \in Threads : mutex = t <=> th[t].pc \in Inside

\* From the lock on there is a stream.
StreamMade == \A t \in Threads : th[t].pc \in Inside \union {"lock"} => ssp # None

\* While nobody is between the lock and the clear, the stream is empty.
StreamClean ==
  ssp # None /\ (\A t \in Threads : th[t].pc \notin {"print", "write", "clear"}) =>
    text[ssp] = <<>>

\* The thread that is putting a line together finds its own line in the stream, from some
\* part on.
LineSoFar ==
  \A t \in Threads : th[t].pc \in {"print", "write"} =>
    \E j \in 0..th[t].part : text[ssp] = Stretch(t, th[t].calls, j, th[t].part)

\* How far a call has come, and how many calls a thread has made.
CallState ==
  \A t \in Threads :
    /\ th[t].calls <= Calls[t]
    /\ th[t].pc # "idle" => th[t].calls >= 1
    /\ th[t].pc \in Before => th[t].part = 0
    /\ th[t].pc = "print" => th[t].part <= Args + 1
    /\ th[t].pc = "write" => th[t].part = Whole

LogInv ==
  /\ LoggerTypeOK
  /\ MutexHeld
  /\ StreamMade
  /\ StreamClean
  /\ LineSoFar
  /\ CallState
  /\ LinesUnmixed

-----------------------------------------------------------------------------
(* Stretches of a line.                                                    *)

\* A stretch of no parts is the empty text.
LEMMA StretchEmpty ==
  ASSUME NEW t, NEW n, NEW k \in Nat
  PROVE  Stretch(t, n, k, k) = <<>>
BY DEF Stretch

\* A stretch is a text.
LEMMA StretchType ==
  ASSUME NEW t \in Threads, NEW n \in Nat, NEW k \in Nat, NEW j \in 0..k
  PROVE  Stretch(t, n, j, k) \in Seq(Piece)
<1>1. \A i \in 1..(k - j) : [by |-> t, no |-> n, part |-> j + i - 1] \in Piece
  BY DEF Piece
<1>2. k - j \in Nat
  OBVIOUS
<1> QED BY <1>1, <1>2 DEF Stretch

\* Appending the next part makes the stretch one longer.
LEMMA StretchAppend ==
  ASSUME NEW t \in Threads, NEW n \in Nat, NEW k \in Nat, NEW j \in 0..k
  PROVE  Append(Stretch(t, n, j, k), [by |-> t, no |-> n, part |-> k]) = Stretch(t, n, j, k + 1)
<1> DEFINE s == Stretch(t, n, j, k)
           e == [by |-> t, no |-> n, part |-> k]
<1>1. s \in Seq(Piece) /\ Len(s) = k - j
  BY StretchType DEF Stretch
<1>2. Append(s, e) = [i \in 1..(k - j) + 1 |-> IF i = (k - j) + 1 THEN e ELSE s[i]]
  BY <1>1
<1>3. \A i \in 1..(k - j) : s[i] = [by |-> t, no |-> n, part |-> j + i - 1]
  BY DEF Stretch
<1> HIDE DEF s
<1>4. \A i \in 1..(k - j) + 1 : (IF i = (k - j) + 1 THEN e ELSE s[i])
                               = [by |-> t, no |-> n, part |-> j + i - 1]
  BY <1>3
<1>5. (k - j) + 1 = (k + 1) - j
  OBVIOUS
<1>6. Stretch(t, n, j, k + 1) = [i \in 1..((k + 1) - j) |-> [by |-> t, no |-> n, part |-> j + i - 1]]
  BY DEF Stretch
<1> QED BY <1>2, <1>4, <1>5, <1>6 DEF s

-----------------------------------------------------------------------------
(* The invariant.                                                          *)

\* The invariant holds at the start.
LEMMA LogInit == Init => LogInv
BY LoggerAssumption DEF Init, LogInv, LoggerTypeOK, LogThread, PCs, Whole, MutexHeld, StreamMade,
   StreamClean, LineSoFar, CallState, LinesUnmixed, Inside, Before

\* What each part of the invariant says, for one thread.
LEMMA LogFacts ==
  ASSUME LogInv, NEW t \in Threads
  PROVE  /\ th[t].pc \in PCs /\ th[t].calls \in Nat /\ th[t].part \in 0..Args + 2
         /\ th[t] = [pc |-> th[t].pc, calls |-> th[t].calls, part |-> th[t].part]
         /\ DOMAIN th = Threads
         /\ mutex = t <=> th[t].pc \in Inside
         /\ th[t].pc \in Inside \union {"lock"} => ssp \in Threads
         /\ None \notin Threads
BY LoggerAssumption DEF LogInv, LoggerTypeOK, LogThread, MutexHeld, StreamMade

\* Only the place of t in its call changes.
LEMMA GotoFacts ==
  ASSUME th \in [Threads -> LogThread], NEW t \in Threads, NEW l \in PCs, Goto(t, l)
  PROVE  /\ th' \in [Threads -> LogThread]
         /\ th'[t].pc = l /\ th'[t].calls = th[t].calls /\ th'[t].part = th[t].part
         /\ \A u \in Threads \ {t} : th'[u] = th[u]
<1>1. [th[t] EXCEPT !.pc = l] \in LogThread
  BY DEF LogThread
<1>2. th' = [th EXCEPT ![t] = [th[t] EXCEPT !.pc = l]]
  BY DEF Goto
<1>3. th'[t] = [th[t] EXCEPT !.pc = l]
  BY <1>2
<1>4. th[t] \in LogThread
  OBVIOUS
<1>5. th'[t].pc = l /\ th'[t].calls = th[t].calls /\ th'[t].part = th[t].part
  BY <1>3, <1>4 DEF LogThread
<1>6. th' \in [Threads -> LogThread]
  BY <1>1, <1>2
<1>7. \A u \in Threads \ {t} : th'[u] = th[u]
  BY <1>2
<1> QED BY <1>5, <1>6, <1>7

\* A call begins.
LEMMA TestPolicyStep == ASSUME LogInv, NEW t \in Threads, TestPolicy(t) PROVE LogInv'
<1>1. th' \in [Threads -> LogThread]
  BY LoggerAssumption, SMTT(30) DEF LogInv, LoggerTypeOK, LogThread, TestPolicy, At, PCs
<1>2. LoggerTypeOK'
  BY <1>1 DEF LogInv, LoggerTypeOK, TestPolicy
<1>3. th[t].pc = "idle" /\ th[t].calls \in Nat /\ Calls[t] \in Nat
  BY LogFacts, LoggerAssumption DEF TestPolicy, At
<1>4. /\ th'[t].pc \in {"setp", "testssp"}
      /\ th'[t].part = 0 /\ th'[t].calls = th[t].calls + 1 /\ th[t].calls < Calls[t]
      /\ \A u \in Threads \ {t} : th'[u] = th[u]
  BY DEF LogInv, LoggerTypeOK, TestPolicy, At
<1>5. UNCHANGED <<p, ssp, mutex, text, file>>
  BY DEF TestPolicy
<1>6. (MutexHeld /\ StreamMade /\ StreamClean /\ LineSoFar)'
  BY <1>3, <1>4, <1>5 DEF LogInv, MutexHeld, StreamMade, StreamClean, LineSoFar, Inside
<1>7. CallState'
  BY <1>3, <1>4 DEF LogInv, CallState, Before
<1>8. LinesUnmixed'
  BY <1>5 DEF LogInv, LinesUnmixed
<1> QED BY <1>2, <1>6, <1>7, <1>8 DEF LogInv

\* A step from one point before the lock to another that leaves the stream alone.
LEMMA EarlyStep ==
  ASSUME LogInv, NEW t \in Threads, NEW l \in Before, th[t].pc \in Before, Goto(t, l),
         l = "lock" => ssp # None,
         UNCHANGED <<status, ssp, mutex, text, file>>, p' \in Threads \union {None}
  PROVE  LogInv'
<1>1. /\ th' \in [Threads -> LogThread]
      /\ th'[t].pc = l /\ th'[t].calls = th[t].calls /\ th'[t].part = th[t].part
      /\ \A u \in Threads \ {t} : th'[u] = th[u]
  BY GotoFacts DEF LogInv, LoggerTypeOK, Before, PCs
<1>2. LoggerTypeOK'
  BY <1>1 DEF LogInv, LoggerTypeOK
<1>3. (MutexHeld /\ StreamMade /\ StreamClean /\ LineSoFar)'
  BY <1>1 DEF LogInv, MutexHeld, StreamMade, StreamClean, LineSoFar, Inside, Before
<1>4. CallState'
  BY <1>1 DEF LogInv, CallState, Before
<1>5. LinesUnmixed'
  BY DEF LogInv, LinesUnmixed
<1> QED BY <1>2, <1>3, <1>4, <1>5 DEF LogInv

\* The policy does not matter to the line.
LEMMA SetPolicyStep == ASSUME LogInv, NEW t \in Threads, SetPolicy(t) PROVE LogInv'
BY EarlyStep DEF SetPolicy, At, Before

\* The type of the policy is looked at.
LEMMA CheckTypeStep == ASSUME LogInv, NEW t \in Threads, CheckType(t) PROVE LogInv'
BY EarlyStep DEF CheckType, At, Before, LogInv, LoggerTypeOK

\* A thread that finds a stream goes to the lock.
LEMMA TestStreamStep == ASSUME LogInv, NEW t \in Threads, TestStream(t) PROVE LogInv'
<1>1. Goto(t, IF ssp = None THEN "setssp" ELSE "lock") /\ th[t].pc = "testssp"
  BY DEF TestStream, At
<1>2. UNCHANGED <<status, ssp, mutex, text, file>> /\ p' \in Threads \union {None}
  BY DEF TestStream, LogInv, LoggerTypeOK
<1>3. CASE ssp = None
  BY <1>1, <1>2, <1>3, EarlyStep DEF Before
<1>4. CASE ssp # None
  BY <1>1, <1>2, <1>4, EarlyStep DEF Before
<1> QED BY <1>3, <1>4

\* A new stream is empty, whoever is at work on the old one.
LEMMA SetStreamStep == ASSUME LogInv, NEW t \in Threads, SetStream(t) PROVE LogInv'
<1>1. /\ th' \in [Threads -> LogThread]
      /\ th'[t].pc = "lock" /\ th'[t].calls = th[t].calls /\ th'[t].part = th[t].part
      /\ \A u \in Threads \ {t} : th'[u] = th[u]
  BY GotoFacts DEF LogInv, LoggerTypeOK, SetStream, PCs
<1>2. th[t].pc = "setssp" /\ UNCHANGED <<status, p, mutex, file>> /\ ssp' = t
  BY DEF SetStream, At
<1>3. text' \in [Threads -> Seq(Piece)] /\ text'[t] = <<>>
  BY DEF SetStream, LogInv, LoggerTypeOK
<1>4. LoggerTypeOK'
  BY <1>1, <1>2, <1>3 DEF LogInv, LoggerTypeOK
<1>5. (MutexHeld /\ StreamMade /\ StreamClean)'
  BY <1>1, <1>2, <1>3, LoggerAssumption DEF LogInv, MutexHeld, StreamMade, StreamClean, Inside
<1>6. LineSoFar'
  <2> SUFFICES ASSUME NEW u \in Threads, th'[u].pc \in {"print", "write"}
               PROVE  \E j \in 0..th'[u].part : <<>> = Stretch(u, th'[u].calls, j, th'[u].part)
    BY <1>2, <1>3, ZenonT(30) DEF LineSoFar, Stretch
  <2>1. th'[u].part \in Nat
    BY <1>1, LoggerAssumption DEF LogThread
  <2> QED BY <2>1, StretchEmpty
<1>7. CallState'
  BY <1>1, <1>2 DEF LogInv, CallState, Before
<1>8. LinesUnmixed'
  BY <1>2 DEF LogInv, LinesUnmixed
<1> QED BY <1>4, <1>5, <1>6, <1>7, <1>8 DEF LogInv

\* The stream is empty when the mutex is taken: the line begins with no parts.
LEMMA LockStep == ASSUME LogInv, NEW t \in Threads, Lock(t) PROVE LogInv'
<1>1. /\ th' \in [Threads -> LogThread]
      /\ th'[t].pc = "print" /\ th'[t].calls = th[t].calls /\ th'[t].part = th[t].part
      /\ \A u \in Threads \ {t} : th'[u] = th[u]
  BY GotoFacts DEF LogInv, LoggerTypeOK, Lock, PCs
<1>2. th[t].pc = "lock" /\ mutex = None /\ mutex' = t /\ UNCHANGED <<status, p, ssp, text, file>>
  BY DEF Lock, At
<1>3. LoggerTypeOK'
  BY <1>1, <1>2 DEF LogInv, LoggerTypeOK
<1>4. \A u \in Threads : th[u].pc \notin Inside
  BY <1>2, LoggerAssumption DEF LogInv, MutexHeld
<1>5. ssp # None /\ text[ssp] = <<>> /\ th[t].part = 0
  BY <1>2, <1>4 DEF LogInv, StreamMade, StreamClean, CallState, Inside, Before
<1>6. (MutexHeld /\ StreamMade /\ StreamClean)'
  BY <1>1, <1>2, <1>4, <1>5 DEF LogInv, MutexHeld, StreamMade, StreamClean, Inside
<1>7. text'[ssp'] = Stretch(t, th'[t].calls, 0, th'[t].part)
  BY <1>1, <1>2, <1>5, StretchEmpty
<1>8. LineSoFar'
  BY <1>1, <1>4, <1>5, <1>7 DEF LineSoFar, Inside
<1>9. CallState'
  BY <1>1, <1>2, <1>5, LoggerAssumption DEF LogInv, CallState, Before
<1>10. LinesUnmixed'
  BY <1>2 DEF LogInv, LinesUnmixed
<1> QED BY <1>3, <1>6, <1>8, <1>9, <1>10 DEF LogInv

\* One more part of the line.
LEMMA PrintStep == ASSUME LogInv, NEW t \in Threads, PrintPart(t) PROVE LogInv'
<1> DEFINE k == th[t].part
           n == th[t].calls
           l == IF k = Args + 1 THEN "write" ELSE "print"
           e == [by |-> t, no |-> n, part |-> k]
<1>1. /\ th[t].pc = "print" /\ n \in Nat /\ k \in 0..Args + 1 /\ ssp \in Threads
      /\ text \in [Threads -> Seq(Piece)] /\ th \in [Threads -> LogThread]
  <2>1. th[t].pc = "print"
    BY DEF PrintPart, At
  <2>2. n \in Nat /\ k \in 0..Args + 2 /\ ssp \in Threads
    BY <2>1, LogFacts DEF Inside
  <2>3. k <= Args + 1
    BY <2>1 DEF LogInv, CallState
  <2> QED BY <2>1, <2>2, <2>3, LoggerAssumption DEF LogInv, LoggerTypeOK
<1>2. UNCHANGED <<status, p, ssp, mutex, file>>
  BY DEF PrintPart
<1>3. text' = [text EXCEPT ![ssp] = Append(text[ssp], e)]
  BY DEF PrintPart
<1>4. e \in Piece
  BY <1>1, LoggerAssumption DEF Piece
<1>5. text' \in [Threads -> Seq(Piece)] /\ text'[ssp] = Append(text[ssp], e)
  <2>1. Append(text[ssp], e) \in Seq(Piece)
    BY <1>1, <1>4
  <2> QED BY <1>1, <1>3, <2>1
<1>6. /\ th'[t] = [pc |-> l, calls |-> n, part |-> k + 1]
      /\ th' \in [Threads -> LogThread]
      /\ \A u \in Threads \ {t} : th'[u] = th[u]
  <2>1. [pc |-> l, calls |-> n, part |-> k + 1] \in LogThread
    BY <1>1, LoggerAssumption DEF LogThread, PCs
  <2>2. th' = [th EXCEPT ![t] = [pc |-> l, calls |-> n, part |-> k + 1]]
    BY DEF PrintPart
  <2> QED BY <1>1, <2>1, <2>2
<1>7. LoggerTypeOK'
  BY <1>2, <1>5, <1>6 DEF LogInv, LoggerTypeOK
<1>8. l \in {"print", "write"} /\ th'[t].pc = l /\ th'[t].calls = n /\ th'[t].part = k + 1
  BY <1>6
<1>9. (MutexHeld /\ StreamMade /\ StreamClean)'
  BY <1>1, <1>2, <1>6, <1>8 DEF LogInv, MutexHeld, StreamMade, StreamClean, Inside
<1>10. \A u \in Threads \ {t} : th[u].pc \notin Inside
  BY <1>1 DEF LogInv, MutexHeld, Inside
<1>11. PICK j \in 0..k : text[ssp] = Stretch(t, n, j, k)
  BY <1>1 DEF LogInv, LineSoFar
<1>12. text'[ssp'] = Stretch(t, n, j, k + 1) /\ j \in 0..(k + 1)
  <2>1. k \in Nat /\ j \in 0..(k + 1)
    BY <1>1, LoggerAssumption
  <2>2. Append(Stretch(t, n, j, k), e) = Stretch(t, n, j, k + 1)
    BY <2>1, <1>1, StretchAppend
  <2>3. text'[ssp'] = Append(text[ssp], e)
    BY <1>2, <1>5
  <2> QED BY <1>11, <2>1, <2>2, <2>3
<1>13. LineSoFar'
  BY <1>6, <1>8, <1>10, <1>12 DEF LineSoFar, Inside
<1>14. CallState'
  <2>1. n <= Calls[t] /\ n >= 1
    BY <1>1 DEF LogInv, CallState
  <2>2. (k = Args + 1 => l = "write" /\ k + 1 = Whole) /\ (k # Args + 1 => l = "print" /\ k + 1 <= Args + 1)
    BY <1>1, LoggerAssumption DEF Whole
  <2> HIDE DEF k, l, n
  <2> QED BY <1>6, <1>8, <2>1, <2>2 DEF LogInv, CallState, Before
<1>15. LinesUnmixed'
  BY <1>2 DEF LogInv, LinesUnmixed
<1> QED BY <1>7, <1>9, <1>13, <1>14, <1>15 DEF LogInv

\* The line goes into the file.
LEMMA WriteStep == ASSUME LogInv, NEW t \in Threads, Write(t) PROVE LogInv'
<1>1. /\ th' \in [Threads -> LogThread]
      /\ th'[t].pc = "clear" /\ th'[t].calls = th[t].calls /\ th'[t].part = th[t].part
      /\ \A u \in Threads \ {t} : th'[u] = th[u]
  BY GotoFacts DEF LogInv, LoggerTypeOK, Write, PCs
<1>2. th[t].pc = "write" /\ UNCHANGED <<status, p, ssp, mutex, text>>
  BY DEF Write, At
<1>3. /\ ssp \in Threads /\ th[t].part = Whole
      /\ th[t].calls \in 1..Calls[t] /\ file \in Seq(Seq(Piece)) /\ text[ssp] \in Seq(Piece)
  BY <1>2, LogFacts, LoggerAssumption DEF LogInv, LoggerTypeOK, CallState, Inside
<1>4. file' = Append(file, text[ssp])
  BY DEF Write
<1>5. LoggerTypeOK'
  <2>1. file' \in Seq(Seq(Piece))
    BY <1>3, <1>4
  <2> QED BY <1>1, <1>2, <2>1 DEF LogInv, LoggerTypeOK
<1>6. (MutexHeld /\ StreamMade /\ StreamClean /\ LineSoFar)'
  BY <1>1, <1>2 DEF LogInv, MutexHeld, StreamMade, StreamClean, LineSoFar, Inside
<1>7. CallState'
  BY <1>1, <1>2 DEF LogInv, CallState, Before
<1>8. PICK j \in 0..Whole : text[ssp] = Stretch(t, th[t].calls, j, Whole)
  BY <1>2, <1>3 DEF LogInv, LineSoFar
<1>9. LinesUnmixed'
  <2> SUFFICES ASSUME NEW i \in DOMAIN file'
               PROVE  \E u \in Threads : \E n \in 1..Calls[u], m \in 0..Whole :
                        file'[i] = Stretch(u, n, m, Whole)
    BY DEF LinesUnmixed
  <2>1. CASE i \in DOMAIN file
    <3>1. file'[i] = file[i]
      BY <1>3, <1>4, <2>1
    <3> QED BY <2>1, <3>1 DEF LogInv, LinesUnmixed
  <2>2. CASE i \notin DOMAIN file
    <3>1. file'[i] = text[ssp]
      BY <1>3, <1>4, <2>2
    <3> QED BY <1>3, <1>8, <3>1
  <2> QED BY <2>1, <2>2
<1> QED BY <1>5, <1>6, <1>7, <1>9 DEF LogInv

\* The text of the current stream goes.
LEMMA ClearStep == ASSUME LogInv, NEW t \in Threads, Clear(t) PROVE LogInv'
<1>1. /\ th' \in [Threads -> LogThread]
      /\ th'[t].pc = "unlock" /\ th'[t].calls = th[t].calls /\ th'[t].part = th[t].part
      /\ \A u \in Threads \ {t} : th'[u] = th[u]
  BY GotoFacts DEF LogInv, LoggerTypeOK, Clear, PCs
<1>2. th[t].pc = "clear" /\ UNCHANGED <<status, p, ssp, mutex, file>>
  BY DEF Clear, At
<1>3. ssp \in Threads /\ \A u \in Threads \ {t} : th[u].pc \notin Inside
  BY <1>2, LogFacts DEF LogInv, MutexHeld, Inside
<1>4. text' \in [Threads -> Seq(Piece)] /\ text'[ssp] = <<>>
  BY <1>3 DEF Clear, LogInv, LoggerTypeOK
<1>5. LoggerTypeOK'
  BY <1>1, <1>2, <1>4 DEF LogInv, LoggerTypeOK
<1>6. (MutexHeld /\ StreamMade /\ StreamClean /\ LineSoFar)'
  BY <1>1, <1>2, <1>3, <1>4 DEF LogInv, MutexHeld, StreamMade, StreamClean, LineSoFar, Inside
<1>7. CallState'
  BY <1>1, <1>2 DEF LogInv, CallState, Before
<1>8. LinesUnmixed'
  BY <1>2 DEF LogInv, LinesUnmixed
<1> QED BY <1>5, <1>6, <1>7, <1>8 DEF LogInv

\* The mutex is given back over an empty stream.
LEMMA UnlockStep == ASSUME LogInv, NEW t \in Threads, Unlock(t) PROVE LogInv'
<1>1. /\ th' \in [Threads -> LogThread]
      /\ th'[t].pc = "idle" /\ th'[t].calls = th[t].calls /\ th'[t].part = th[t].part
      /\ \A u \in Threads \ {t} : th'[u] = th[u]
  BY GotoFacts DEF LogInv, LoggerTypeOK, Unlock, PCs
<1>2. th[t].pc = "unlock" /\ mutex' = None /\ UNCHANGED <<status, p, ssp, text, file>>
  BY DEF Unlock, At
<1>3. \A u \in Threads \ {t} : th[u].pc \notin Inside
  BY <1>2 DEF LogInv, MutexHeld, Inside
<1>4. LoggerTypeOK'
  BY <1>1, <1>2 DEF LogInv, LoggerTypeOK
<1>5. (MutexHeld /\ StreamMade /\ StreamClean /\ LineSoFar)'
  BY <1>1, <1>2, <1>3, LoggerAssumption
     DEF LogInv, MutexHeld, StreamMade, StreamClean, LineSoFar, Inside
<1>6. CallState'
  BY <1>1, <1>2 DEF LogInv, CallState, Before
<1>7. LinesUnmixed'
  BY <1>2 DEF LogInv, LinesUnmixed
<1> QED BY <1>4, <1>5, <1>6, <1>7 DEF LogInv

\* Nothing but the status changes.
LEMMA RaceCrashStep == ASSUME LogInv, RaceCrash PROVE LogInv'
BY DEF LogInv, RaceCrash, LoggerTypeOK, MutexHeld, StreamMade, StreamClean, LineSoFar, CallState,
   LinesUnmixed

\* So does a step of something else.
LEMMA LogStutter == ASSUME LogInv, UNCHANGED vars PROVE LogInv'
<1>1. LoggerTypeOK' /\ MutexHeld' /\ StreamMade' /\ StreamClean'
  BY DEF LogInv, vars, LoggerTypeOK, MutexHeld, StreamMade, StreamClean
<1>2. LineSoFar' /\ CallState' /\ LinesUnmixed'
  BY DEF LogInv, vars, LineSoFar, CallState, LinesUnmixed
<1> QED BY <1>1, <1>2 DEF LogInv

\* Every step keeps the invariant.
LEMMA LogNext == LogInv /\ [Next]_vars => LogInv'
<1> SUFFICES ASSUME LogInv, [Next]_vars PROVE LogInv'
  OBVIOUS
<1>1. ASSUME NEW t \in Threads, PrintLog(t) PROVE LogInv'
  BY <1>1, TestPolicyStep, SetPolicyStep, CheckTypeStep, TestStreamStep, SetStreamStep, LockStep,
     PrintStep, WriteStep, ClearStep, UnlockStep DEF PrintLog, Continue
<1>2. CASE RaceCrash
  BY <1>2, RaceCrashStep
<1>3. CASE UNCHANGED vars
  BY <1>3, LogStutter
<1> QED BY <1>1, <1>2, <1>3 DEF Next

-----------------------------------------------------------------------------
(* The theorems.                                                           *)

\* What holds between any two steps of any number of threads that log.
THEOREM LogInvariant == Spec => []LogInv
BY LogInit, LogNext, PTL DEF Spec

\* The variables of the logger keep their types.
THEOREM LoggerTypes == Spec => []LoggerTypeOK
<1>1. LogInv => LoggerTypeOK
  BY DEF LogInv
<1> QED BY LogInvariant, <1>1, PTL

\* PrintLog puts a line together under write_mutex (logger.hpp:160-196): no line of the log
\* has pieces of two calls in it, whatever the unlocked first calls do to the stream.
THEOREM LinesNeverMix == Spec => []LinesUnmixed
<1>1. LogInv => LinesUnmixed
  BY DEF LogInv
<1> QED BY LogInvariant, <1>1, PTL

\* write_mutex keeps all threads but one out of the line.
THEOREM LogMutualExclusion ==
  Spec => [](\A t, u \in Threads : th[t].pc \in Inside /\ th[u].pc \in Inside => t = u)
<1>1. LogInv => \A t, u \in Threads : th[t].pc \in Inside /\ th[u].pc \in Inside => t = u
  BY DEF LogInv, MutexHeld
<1> QED BY LogInvariant, <1>1, PTL

-----------------------------------------------------------------------------
(* Sums over the threads.                                                  *)

\* A set of numbers has a least one.
LEMMA LeastIn ==
  ASSUME NEW S \in SUBSET Nat, S # {}
  PROVE  \E x \in S : \A y \in S : x <= y
<1>1. PICK x \in S : \A y \in S : ~ (<<y, x>> \in OpToRel(<, Nat))
  BY WFMin, NatLessThanWellFounded
<1>2. ASSUME NEW y \in S PROVE x <= y
  <2>1. <<y, x>> \in Nat \X Nat
    OBVIOUS
  <2>2. ~ (<<y, x>> \in {ss \in Nat \X Nat : ss[1] < ss[2]})
    BY <1>1 DEF OpToRel
  <2> QED BY <2>1, <2>2
<1> QED BY <1>2

Small(T, n) == {s \in SUBSET T : Cardinality(s) <= n}

\* f adds up what g gives the members of a subset of T of at most n members.
AddsUpTo(f, g, T, n) ==
  f = [s \in Small(T, n) |->
         IF s = {} THEN 0 ELSE g[CHOOSE x \in s : TRUE] + f[s \ {CHOOSE x \in s : TRUE}]]

\* A set that loses the member that is chosen from it.
LEMMA OneLess ==
  ASSUME NEW T, IsFiniteSet(T), NEW s \in SUBSET T, s # {}
  PROVE  LET x == CHOOSE x \in s : TRUE IN
         /\ x \in s /\ s \ {x} \in SUBSET T
         /\ Cardinality(s) \in Nat /\ Cardinality(s \ {x}) \in Nat
         /\ Cardinality(s \ {x}) = Cardinality(s) - 1
<1> DEFINE x == CHOOSE x \in s : TRUE
<1>1. x \in s
  OBVIOUS
<1>2. IsFiniteSet(s) /\ IsFiniteSet(s \ {x})
  BY FS_Subset
<1>3. Cardinality(s) \in Nat /\ Cardinality(s \ {x}) \in Nat
  BY <1>2, FS_CardinalityType
<1>4. Cardinality(s \ {x}) = Cardinality(s) - 1
  BY <1>1, <1>2, FS_RemoveElement
<1> QED
  BY <1>1, <1>3, <1>4

LEMMA AddsStep ==
  ASSUME NEW f, NEW g, NEW T, NEW n, AddsUpTo(f, g, T, n), NEW s \in Small(T, n)
  PROVE  f[s] = IF s = {} THEN 0 ELSE g[CHOOSE x \in s : TRUE] + f[s \ {CHOOSE x \in s : TRUE}]
<1> DEFINE h == [r \in Small(T, n) |->
                   IF r = {} THEN 0 ELSE g[CHOOSE x \in r : TRUE] + f[r \ {CHOOSE x \in r : TRUE}]]
<1>1. f = h
  BY DEF AddsUpTo
<1>2. h[s] = IF s = {} THEN 0 ELSE g[CHOOSE x \in s : TRUE] + f[s \ {CHOOSE x \in s : TRUE}]
  OBVIOUS
<1> QED
  BY <1>1, <1>2, Zenon

\* There is such a function: it is made for larger and larger subsets.
LEMMA AddsExists ==
  ASSUME NEW g, NEW T, IsFiniteSet(T), NEW n \in Nat
  PROVE  \E f : AddsUpTo(f, g, T, n)
<1> DEFINE S == {k \in Nat : ~ \E f : AddsUpTo(f, g, T, k)}
<1>1. ASSUME S # {}
      PROVE  FALSE
  <2>1. PICK m \in S : \A y \in S : m <= y
    BY <1>1, LeastIn
  <2>2. CASE m = 0
    <3> DEFINE e == [s \in Small(T, 0) |-> 0]
    <3>1. \A s \in Small(T, 0) : s = {}
      <4> SUFFICES ASSUME NEW s \in SUBSET T, Cardinality(s) <= 0, s # {} PROVE FALSE
        BY DEF Small
      <4>1. IsFiniteSet(s)
        BY FS_Subset
      <4>2. Cardinality(s) \in Nat /\ Cardinality(s) # 0
        BY <4>1, FS_CardinalityType, FS_EmptySet
      <4> QED
        BY <4>2
    <3>2. AddsUpTo(e, g, T, 0)
      <4>1. e = [s \in Small(T, 0) |->
                   IF s = {} THEN 0 ELSE g[CHOOSE x \in s : TRUE] + e[s \ {CHOOSE x \in s : TRUE}]]
        BY <3>1
      <4> HIDE DEF e
      <4> QED
        BY <4>1 DEF AddsUpTo
    <3> QED
      BY <2>1, <2>2, <3>2
  <2>3. CASE m # 0
    <3>1. m \in Nat /\ m - 1 \in Nat /\ m - 1 \notin S
      BY <2>1, <2>3
    <3>2. PICK f : AddsUpTo(f, g, T, m - 1)
      BY <3>1
    <3> DEFINE h == [s \in Small(T, m) |->
                       IF s = {} THEN 0
                       ELSE g[CHOOSE x \in s : TRUE] + f[s \ {CHOOSE x \in s : TRUE}]]
               hh == [s \in Small(T, m) |->
                       IF s = {} THEN 0
                       ELSE g[CHOOSE x \in s : TRUE] + h[s \ {CHOOSE x \in s : TRUE}]]
    <3>3. ASSUME NEW s \in Small(T, m)
          PROVE  h[s] = hh[s]
      <4>1. CASE s = {}
        BY <4>1
      <4>2. CASE s # {}
        <5>1. PICK r : r = s \ {CHOOSE x \in s : TRUE}
          OBVIOUS
        <5>2. r \in Small(T, m - 1) /\ r \in Small(T, m)
          BY <3>1, <4>2, <5>1, OneLess DEF Small
        <5>3. f[r] = IF r = {} THEN 0 ELSE g[CHOOSE x \in r : TRUE] + f[r \ {CHOOSE x \in r : TRUE}]
          BY <3>2, <5>2, AddsStep
        <5>4. h[r] = f[r]
          BY <5>2, <5>3
        <5> HIDE DEF h
        <5>5. h[s] = g[CHOOSE x \in s : TRUE] + f[r]
          BY <4>2, <5>1 DEF h
        <5>6. hh[s] = g[CHOOSE x \in s : TRUE] + h[r]
          BY <4>2, <5>1
        <5> QED
          BY <5>4, <5>5, <5>6
      <4> QED
        BY <4>1, <4>2
    <3>4. h = hh
      BY <3>3
    <3>5. AddsUpTo(h, g, T, m)
      <4> HIDE DEF h
      <4> QED
        BY <3>4 DEF AddsUpTo
    <3> QED
      BY <2>1, <3>5
  <2> QED
    BY <2>2, <2>3
<1> QED
  BY <1>1

\* f adds up what g gives the members of a subset of T.
Adds(f, g, T) ==
  f = [s \in SUBSET T |->
         IF s = {} THEN 0 ELSE g[CHOOSE x \in s : TRUE] + f[s \ {CHOOSE x \in s : TRUE}]]

LEMMA SumExists ==
  ASSUME NEW g, NEW T, IsFiniteSet(T)
  PROVE  \E f : Adds(f, g, T)
<1>1. Cardinality(T) \in Nat
  BY FS_CardinalityType
<1>2. Small(T, Cardinality(T)) = SUBSET T
  BY FS_Subset DEF Small
<1>3. PICK f : AddsUpTo(f, g, T, Cardinality(T))
  BY <1>1, AddsExists
<1>4. Adds(f, g, T)
  BY <1>2, <1>3, Zenon DEF AddsUpTo, Adds
<1> QED
  BY <1>4

\* The sum of s: one member's and that of the others.
Sum(f, g, s) ==
  IF s = {} THEN 0 ELSE g[CHOOSE x \in s : TRUE] + f[s \ {CHOOSE x \in s : TRUE}]

LEMMA SumStep ==
  ASSUME NEW f, NEW g, NEW T, Adds(f, g, T), NEW s \in SUBSET T
  PROVE  f[s] = Sum(f, g, s)
<1> DEFINE h == [r \in SUBSET T |->
                   IF r = {} THEN 0 ELSE g[CHOOSE x \in r : TRUE] + f[r \ {CHOOSE x \in r : TRUE}]]
<1>1. f = h
  BY DEF Adds
<1>2. h[s] = IF s = {} THEN 0 ELSE g[CHOOSE x \in s : TRUE] + f[s \ {CHOOSE x \in s : TRUE}]
  OBVIOUS
<1> QED
  BY <1>1, <1>2, Zenon DEF Sum

\* h counts d more for t than g does, and the same for every other.
Differs(h, g, T, t, d) == \A x \in T : h[x] = g[x] + (IF x = t THEN d ELSE 0)

\* If t counts d more, the sum of every set that t is in is d more.
LEMMA SumChange ==
  ASSUME NEW T, NEW g \in [T -> Int], NEW h \in [T -> Int], NEW t, NEW d \in Int,
         NEW f, NEW e, IsFiniteSet(T), Adds(f, g, T), Adds(e, h, T),
         Differs(h, g, T, t, d)
  PROVE  \A s \in SUBSET T : f[s] \in Int /\ e[s] = f[s] + (IF t \in s THEN d ELSE 0)
<1> DEFINE Good(s) == f[s] \in Int /\ e[s] = f[s] + (IF t \in s THEN d ELSE 0)
           B == {n \in Nat : \E s \in SUBSET T : Cardinality(s) = n /\ ~Good(s)}
<1>1. ASSUME B # {}
      PROVE  FALSE
  <2>1. PICK m \in B : \A y \in B : m <= y
    BY <1>1, LeastIn
  <2>2. PICK s \in SUBSET T : Cardinality(s) = m /\ ~Good(s)
    BY <2>1
  <2>3. f[s] = Sum(f, g, s) /\ e[s] = Sum(e, h, s)
    BY SumStep
  <2>5. CASE s = {}
    BY <2>2, <2>3, <2>5 DEF Sum
  <2>6. CASE s # {}
    <3>1. PICK x : x = CHOOSE y \in s : TRUE
      OBVIOUS
    <3>2. PICK r : r = s \ {x}
      OBVIOUS
    <3>3. /\ x \in s /\ x \in T /\ r \in SUBSET T /\ m \in Nat
          /\ Cardinality(r) \in Nat /\ Cardinality(r) = m - 1
      BY <2>1, <2>2, <2>6, <3>1, <3>2, OneLess
    <3>4. Good(r)
      BY <2>1, <3>3
    <3>5. f[s] = g[x] + f[r] /\ e[s] = h[x] + e[r]
      BY <2>3, <2>6, <3>1, <3>2 DEF Sum
    <3>6. g[x] \in Int /\ h[x] = g[x] + (IF x = t THEN d ELSE 0)
      BY <3>3 DEF Differs
    <3>7. t \in r <=> t \in s /\ x # t
      BY <3>2
    <3>8. f[s] \in Int
      BY <3>4, <3>5, <3>6
    <3>9. e[s] = f[s] + (IF t \in s THEN d ELSE 0)
      <4>1. CASE x = t
        BY <3>3, <3>4, <3>5, <3>6, <3>7, <4>1
      <4>2. CASE x # t
        BY <3>4, <3>5, <3>6, <3>7, <4>2
      <4> QED
        BY <4>1, <4>2
    <3> QED
      BY <2>2, <3>8, <3>9
  <2> QED
    BY <2>5, <2>6
<1>2. ASSUME NEW s \in SUBSET T
      PROVE  Good(s)
  <2>1. Cardinality(s) \in Nat
    BY FS_Subset, FS_CardinalityType
  <2> QED
    BY <1>1, <2>1
<1> QED
  BY <1>2

\* A sum of nothing but zeros.
LEMMA SumOfZeros ==
  ASSUME NEW T, IsFiniteSet(T), NEW g, \A x \in T : g[x] = 0, NEW f, Adds(f, g, T)
  PROVE  \A s \in SUBSET T : f[s] = 0
<1> DEFINE B == {n \in Nat : \E s \in SUBSET T : Cardinality(s) = n /\ f[s] # 0}
<1>1. ASSUME B # {}
      PROVE  FALSE
  <2>1. PICK m \in B : \A y \in B : m <= y
    BY <1>1, LeastIn
  <2>2. PICK s \in SUBSET T : Cardinality(s) = m /\ f[s] # 0
    BY <2>1
  <2>3. f[s] = IF s = {} THEN 0 ELSE g[CHOOSE x \in s : TRUE] + f[s \ {CHOOSE x \in s : TRUE}]
    BY SumStep DEF Sum
  <2>4. s # {}
    BY <2>2, <2>3
  <2>5. PICK x : x = CHOOSE y \in s : TRUE
    OBVIOUS
  <2>6. PICK r : r = s \ {x}
    OBVIOUS
  <2>7. /\ x \in T /\ r \in SUBSET T /\ m \in Nat
        /\ Cardinality(r) \in Nat /\ Cardinality(r) = m - 1
    BY <2>1, <2>2, <2>4, <2>5, <2>6, OneLess
  <2>8. f[r] = 0
    BY <2>1, <2>7
  <2> QED
    BY <2>2, <2>3, <2>4, <2>5, <2>6, <2>7, <2>8
<1>2. ASSUME NEW s \in SUBSET T
      PROVE  f[s] = 0
  <2>1. Cardinality(s) \in Nat
    BY FS_Subset, FS_CardinalityType
  <2> QED
    BY <1>1, <2>1
<1> QED
  BY <1>2

-----------------------------------------------------------------------------
(* The lines in the file.                                                  *)

Count == [t \in Threads |-> Begun(t)]

\* How many lines there are to be.
LEMMA CountIsSum ==
  ASSUME IsFiniteSet(Threads)
  PROVE  \E f : Adds(f, Count, Threads) /\ MapThenSumSet(Begun, Threads) = f[Threads]
<1> DEFINE IsSum(f) == f = [s \in SUBSET Threads |->
                  IF s = {} THEN 0
                  ELSE Begun(CHOOSE x \in s : TRUE) + f[s \ {CHOOSE x \in s : TRUE}]]
           F == CHOOSE f : IsSum(f)
<1>1. PICK g : Adds(g, Count, Threads)
  BY SumExists
<1>2. \A s \in SUBSET Threads : s # {} => Count[CHOOSE x \in s : TRUE] = Begun(CHOOSE x \in s : TRUE)
  BY DEF Count
<1>3. \A f : Adds(f, Count, Threads) <=> IsSum(f)
  BY <1>2 DEF Adds
<1>4. MapThenSumSet(Begun, Threads) = F[Threads]
  BY DEF MapThenSumSet, MapThenFoldSet
<1> HIDE DEF IsSum
<1>5. IsSum(F)
  BY <1>1, <1>3
<1> HIDE DEF F
<1> QED
  BY <1>3, <1>4, <1>5

LEMMA CountIsSumNext ==
  ASSUME IsFiniteSet(Threads)
  PROVE  \E f : Adds(f, Count', Threads) /\ MapThenSumSet(Begun, Threads)' = f[Threads]
<1> DEFINE IsSum(f) == f = [s \in SUBSET Threads |->
                  IF s = {} THEN 0
                  ELSE Begun(CHOOSE x \in s : TRUE)' + f[s \ {CHOOSE x \in s : TRUE}]]
           F == CHOOSE f : IsSum(f)
<1>1. PICK g : Adds(g, Count', Threads)
  BY SumExists
<1>2. \A s \in SUBSET Threads : s # {} => Count'[CHOOSE x \in s : TRUE] = Begun(CHOOSE x \in s : TRUE)'
  BY DEF Count
<1>3. \A f : Adds(f, Count', Threads) <=> IsSum(f)
  BY <1>2 DEF Adds
<1>4. MapThenSumSet(Begun, Threads)' = F[Threads]
  BY DEF MapThenSumSet, MapThenFoldSet
<1> HIDE DEF IsSum
<1>5. IsSum(F)
  BY <1>1, <1>3
<1> HIDE DEF F
<1> QED
  BY <1>3, <1>4, <1>5

\* A call counts from its write on.
LEMMA BegunFacts ==
  ASSUME LogInv
  PROVE  Count \in [Threads -> Int]
<1>1. ASSUME NEW t \in Threads
      PROVE  Begun(t) \in Int
  <2>1. th[t].calls \in Nat
    BY LogFacts
  <2>2. th[t].calls - 0 \in Int /\ th[t].calls - 1 \in Int
    BY <2>1
  <2> QED
    BY <2>2 DEF Begun
<1> QED
  BY <1>1 DEF Count

\* The write makes the count one more, and no other step changes it.
LEMMA CountNext ==
  ASSUME LogInv, [Next]_vars
  PROVE  \/ file' = file /\ Count' = Count
         \/ \E t \in Threads : /\ file' = Append(file, text[ssp])
                               /\ \A u \in Threads : Count'[u] = Count[u] + (IF u = t THEN 1 ELSE 0)
<1>0. th \in [Threads -> LogThread]
  BY DEF LogInv, LoggerTypeOK
<1>1. ASSUME NEW t \in Threads, NEW l \in PCs, Goto(t, l),
             th[t].pc \in PCs \ {"idle", "clear", "unlock"} <=> l \in PCs \ {"idle", "clear", "unlock"}
      PROVE  Count' = Count
  <2>1. /\ th'[t].pc = l /\ th'[t].calls = th[t].calls
        /\ \A u \in Threads \ {t} : th'[u] = th[u]
    BY <1>0, <1>1, GotoFacts
  <2>2. ASSUME NEW u \in Threads
        PROVE  Begun(u)' = Begun(u)
    BY <1>1, <2>1 DEF Begun
  <2> QED
    BY <2>2 DEF Count
<1>2. ASSUME NEW t \in Threads, TestPolicy(t)
      PROVE  file' = file /\ Count' = Count
  <2>1. /\ th[t].pc = "idle" /\ th'[t].pc \in {"setp", "testssp"} /\ th'[t].calls = th[t].calls + 1
        /\ \A u \in Threads \ {t} : th'[u] = th[u]
    BY <1>0, <1>2 DEF TestPolicy, At
  <2>2. Begun(t)' = Begun(t)
    <3>1. th[t].calls \in Nat
      BY LogFacts
    <3> QED
      BY <2>1, <3>1 DEF Begun, PCs
  <2>3. ASSUME NEW u \in Threads
        PROVE  Begun(u)' = Begun(u)
    BY <2>1, <2>2 DEF Begun
  <2> QED
    BY <1>2, <2>3 DEF Count, TestPolicy
<1>3. ASSUME NEW t \in Threads, SetPolicy(t) \/ CheckType(t) \/ TestStream(t) \/ SetStream(t) \/ Lock(t)
                                \/ Clear(t) \/ Unlock(t)
      PROVE  file' = file /\ Count' = Count
  <2>1. CASE SetPolicy(t) \/ CheckType(t) \/ SetStream(t) \/ Lock(t)
    <3>1. \E l \in {"typeid", "testssp", "lock", "print"} : Goto(t, l)
      BY <2>1 DEF SetPolicy, CheckType, SetStream, Lock
    <3>2. th[t].pc \in {"setp", "typeid", "setssp", "lock"} /\ file' = file
      BY <2>1 DEF SetPolicy, CheckType, SetStream, Lock, At
    <3> QED
      BY <1>1, <3>1, <3>2 DEF PCs
  <2>2. CASE TestStream(t)
    <3>1. \E l \in {"setssp", "lock"} : Goto(t, l)
      BY <2>2 DEF TestStream
    <3>2. th[t].pc = "testssp" /\ file' = file
      BY <2>2 DEF TestStream, At
    <3> QED
      BY <1>1, <3>1, <3>2 DEF PCs
  <2>3. CASE Clear(t) \/ Unlock(t)
    <3>1. \E l \in {"unlock", "idle"} : Goto(t, l)
      BY <2>3 DEF Clear, Unlock
    <3>2. th[t].pc \in {"clear", "unlock"} /\ file' = file
      BY <2>3 DEF Clear, Unlock, At
    <3> QED
      BY <1>1, <3>1, <3>2 DEF PCs
  <2> QED
    BY <1>3, <2>1, <2>2, <2>3
<1>4. ASSUME NEW t \in Threads, PrintPart(t)
      PROVE  file' = file /\ Count' = Count
  <2>1. /\ th[t].pc = "print" /\ th'[t].pc \in {"write", "print"} /\ th'[t].calls = th[t].calls
        /\ \A u \in Threads \ {t} : th'[u] = th[u]
    BY <1>0, <1>4 DEF PrintPart, At
  <2>2. ASSUME NEW u \in Threads
        PROVE  Begun(u)' = Begun(u)
    BY <2>1 DEF Begun, PCs
  <2> QED
    BY <1>4, <2>2 DEF Count, PrintPart
<1>5. ASSUME NEW t \in Threads, Write(t)
      PROVE  /\ file' = Append(file, text[ssp])
             /\ \A u \in Threads : Count'[u] = Count[u] + (IF u = t THEN 1 ELSE 0)
  <2>1. /\ th[t].pc = "write" /\ th'[t].pc = "clear" /\ th'[t].calls = th[t].calls
        /\ \A u \in Threads \ {t} : th'[u] = th[u]
    BY <1>0, <1>5, GotoFacts DEF Write, At, PCs
  <2>2. Begun(t)' = Begun(t) + 1
    <3>1. th[t].calls \in Nat
      BY LogFacts
    <3> QED
      BY <2>1, <3>1 DEF Begun, PCs
  <2>3. ASSUME NEW u \in Threads, u # t
        PROVE  Begun(u)' = Begun(u) /\ Begun(u) \in Int
    <3>1. th[u].calls \in Nat
      BY LogFacts
    <3> QED
      BY <2>1, <2>3, <3>1 DEF Begun
  <2>4. \A u \in Threads : Count[u] = Begun(u) /\ Count'[u] = Begun(u)'
    BY DEF Count
  <2>5. \A u \in Threads : Count'[u] = Count[u] + (IF u = t THEN 1 ELSE 0)
    BY <2>2, <2>3, <2>4
  <2> QED
    BY <1>5, <2>5 DEF Write
<1>6. CASE RaceCrash \/ UNCHANGED vars
  <2>1. UNCHANGED <<file, th>>
    BY <1>6 DEF RaceCrash, vars
  <2> QED
    BY <2>1 DEF Count, Begun
<1> QED
  BY <1>2, <1>3, <1>4, <1>5, <1>6 DEF Next, PrintLog, Continue

\* Each call that has come past its write has put one line into the file, for any number of
\* threads, calls and arguments: the unlocked first calls neither lose a line nor write one
\* twice.
THEOREM EachCallOnce ==
  ASSUME IsFiniteSet(Threads)
  PROVE  Spec => []OneLineEach
<1>1. Init => OneLineEach
  <2> SUFFICES ASSUME Init PROVE OneLineEach
    OBVIOUS
  <2>1. PICK f : Adds(f, Count, Threads) /\ MapThenSumSet(Begun, Threads) = f[Threads]
    BY CountIsSum
  <2>2. \A t \in Threads : Count[t] = 0
    BY DEF Init, Count, Begun
  <2>3. f[Threads] = 0
    BY <2>1, <2>2, SumOfZeros
  <2>4. Len(file) = 0
    BY DEF Init
  <2> QED
    BY <2>1, <2>3, <2>4 DEF OneLineEach
<1>2. LogInv /\ LogInv' /\ OneLineEach /\ [Next]_vars => OneLineEach'
  <2> SUFFICES ASSUME LogInv, LogInv', OneLineEach, [Next]_vars PROVE OneLineEach'
    OBVIOUS
  <2>1. PICK f : Adds(f, Count, Threads) /\ MapThenSumSet(Begun, Threads) = f[Threads]
    BY CountIsSum
  <2>2. PICK e : Adds(e, Count', Threads) /\ MapThenSumSet(Begun, Threads)' = e[Threads]
    BY CountIsSumNext
  <2>3. PICK g \in [Threads -> Int] : g = Count
    BY BegunFacts
  <2>4. PICK h \in [Threads -> Int] : h = Count'
    <3>1. \A u \in Threads : Count'[u] \in Int
      BY <2>3, CountNext
    <3> QED
      BY <3>1 DEF Count
  <2>5. Adds(f, g, Threads) /\ Adds(e, h, Threads)
    BY <2>1, <2>2, <2>3, <2>4
  <2>6. CASE file' = file /\ Count' = Count
    <3>1. Differs(h, g, Threads, None, 0)
      BY <2>3, <2>4, <2>6 DEF Differs
    <3>2. e[Threads] = f[Threads]
      <4>1. \A s \in SUBSET Threads : f[s] \in Int /\ e[s] = f[s] + (IF None \in s THEN 0 ELSE 0)
        BY <2>5, <3>1, SumChange
      <4> QED
        BY <4>1
    <3> QED
      BY <2>1, <2>2, <2>6, <3>2 DEF OneLineEach
  <2>7. ASSUME NEW t \in Threads, file' = Append(file, text[ssp]),
               \A u \in Threads : Count'[u] = Count[u] + (IF u = t THEN 1 ELSE 0)
        PROVE  OneLineEach'
    <3>1. Differs(h, g, Threads, t, 1)
      BY <2>3, <2>4, <2>7 DEF Differs
    <3>2. e[Threads] = f[Threads] + 1
      <4>1. \A s \in SUBSET Threads : f[s] \in Int /\ e[s] = f[s] + (IF t \in s THEN 1 ELSE 0)
        BY <2>5, <3>1, SumChange
      <4> QED
        BY <2>7, <4>1
    <3>3. Len(file') = Len(file) + 1
      <4>1. file \in Seq(Seq(Piece))
        BY DEF LogInv, LoggerTypeOK
      <4> QED
        BY <2>7, <4>1
    <3> QED
      BY <2>1, <2>2, <3>2, <3>3 DEF OneLineEach
  <2> QED
    BY <2>6, <2>7, CountNext
<1> QED
  BY <1>1, <1>2, LogInvariant, PTL DEF Spec

-----------------------------------------------------------------------------
(* The lines that have lost their front.                                   *)

Broken == {i \in DOMAIN file : Len(file[i]) < Whole}

\* The threads that are about to replace the stream.
Late == {t \in Threads : th[t].pc = "setssp"}

\* The line that is being put together has lost its front.
Cut == \E t \in Threads : th[t].pc \in {"print", "write"} /\ Len(text[ssp]) < th[t].part

CutLines == IF Cut THEN 1 ELSE 0

\* Each line that has lost its front has cost one of the threads that came before the stream was
\* there, and the thread that made the first stream cost none.
BrokenInv ==
  /\ ssp = None => file = <<>>
  /\ ssp # None => Cardinality(Broken) + CutLines + Cardinality(Late) < Cardinality(Threads)

\* The sets are finite.
LEMMA BrokenFinite ==
  ASSUME LogInv, IsFiniteSet(Threads)
  PROVE  /\ IsFiniteSet(Broken) /\ Cardinality(Broken) \in Nat
         /\ IsFiniteSet(Late) /\ Cardinality(Late) \in Nat
         /\ Cardinality(Late) <= Cardinality(Threads) /\ Cardinality(Threads) \in Nat
         /\ CutLines \in 0..1
<1>1. file \in Seq(Seq(Piece))
  BY DEF LogInv, LoggerTypeOK
<1>2. PICK n \in Nat : DOMAIN file = 1..n
  BY <1>1
<1>3. IsFiniteSet(1..n)
  BY FS_Interval
<1>4. Broken \subseteq 1..n
  BY <1>2 DEF Broken
<1>5. IsFiniteSet(Broken) /\ Cardinality(Broken) \in Nat
  BY <1>3, <1>4, FS_Subset, FS_CardinalityType
<1>6. Late \subseteq Threads
  BY DEF Late
<1>7. IsFiniteSet(Late) /\ Cardinality(Late) \in Nat /\ Cardinality(Late) <= Cardinality(Threads)
  BY <1>6, FS_Subset, FS_CardinalityType
<1> QED
  BY <1>5, <1>7, FS_CardinalityType DEF CutLines

\* A step that writes no line, replaces no stream and cuts no line.
LEMMA BrokenStill ==
  ASSUME LogInv, LogInv', BrokenInv, IsFiniteSet(Threads), UNCHANGED <<file, ssp>>,
         ssp # None => Late' \subseteq Late, ssp # None => (Cut' => Cut)
  PROVE  BrokenInv'
<1>1. Broken' = Broken
  BY DEF Broken
<1>2. CASE ssp = None
  BY <1>2 DEF BrokenInv
<1>3. CASE ssp # None
  <2>1. PICK b \in Nat : b = Cardinality(Broken)
    BY BrokenFinite
  <2>2. PICK l \in Nat : l = Cardinality(Late)
    BY BrokenFinite
  <2>3. PICK k \in Nat : k = Cardinality(Late')
    <3>1. IsFiniteSet(Late')
      BY <1>3, BrokenFinite, FS_Subset
    <3> QED
      BY <3>1, FS_CardinalityType
  <2>4. k <= l
    BY <1>3, <2>2, <2>3, BrokenFinite, FS_Subset
  <2>5. PICK n \in Nat : n = Cardinality(Threads)
    BY BrokenFinite
  <2>6. PICK c \in Nat, d \in Nat : c = CutLines /\ d = CutLines' /\ d <= c
    BY <1>3 DEF CutLines
  <2>7. b + c + l < n
    BY <1>3, <2>1, <2>2, <2>5, <2>6 DEF BrokenInv
  <2>8. b + d + k < n
    <3>1. d <= c
      BY <2>6
    <3> QED
      BY <2>4, <2>7, <3>1
  <2> QED
    BY <1>1, <1>3, <2>1, <2>3, <2>5, <2>6, <2>8 DEF BrokenInv
<1> QED
  BY <1>2, <1>3

\* The stream is replaced.
LEMMA BrokenReplace ==
  ASSUME LogInv, LogInv', BrokenInv, IsFiniteSet(Threads), NEW t \in Threads, SetStream(t)
  PROVE  BrokenInv'
<1>1. /\ th[t].pc = "setssp" /\ th'[t].pc = "lock" /\ \A u \in Threads \ {t} : th'[u] = th[u]
      /\ ssp' = t /\ t # None /\ file' = file
  BY GotoFacts, LoggerAssumption DEF LogInv, LoggerTypeOK, SetStream, At, PCs
<1>2. Late' = Late \ {t} /\ t \in Late /\ Broken' = Broken
  BY <1>1 DEF Late, Broken
<1>3. PICK b \in Nat : b = Cardinality(Broken)
  BY BrokenFinite
<1>4. PICK l \in Nat : l = Cardinality(Late)
  BY BrokenFinite
<1>5. Cardinality(Late') = l - 1
  BY <1>2, <1>4, BrokenFinite, FS_RemoveElement
<1>6. PICK n \in Nat : n = Cardinality(Threads) /\ l <= n
  BY <1>4, BrokenFinite
<1>7. PICK c \in Nat, d \in Nat : c = CutLines /\ d = CutLines' /\ d <= 1
  BY DEF CutLines
<1>8. CASE ssp = None
  <2>1. Broken = {}
    BY <1>8 DEF BrokenInv, Broken
  <2>2. b = 0
    BY <1>3, <2>1, FS_EmptySet
  <2>3. ~Cut'
    <3>1. \A u \in Threads : th[u].pc \notin {"print", "write"}
      BY <1>8 DEF LogInv, StreamMade, Inside
    <3>2. \A u \in Threads : th'[u].pc \notin {"print", "write"}
      BY <1>1, <3>1
    <3> QED
      BY <3>2 DEF Cut
  <2>4. d = 0
    BY <1>7, <2>3 DEF CutLines
  <2>5. b + d + (l - 1) < n
    BY <1>6, <2>2, <2>4
  <2> QED
    BY <1>1, <1>2, <1>3, <1>5, <1>6, <1>7, <2>5 DEF BrokenInv
<1>9. CASE ssp # None
  <2>1. b + c + l < n
    BY <1>3, <1>4, <1>6, <1>7, <1>9 DEF BrokenInv
  <2>2. b + d + (l - 1) < n
    <3>1. d <= 1
      BY <1>7
    <3> QED
      BY <2>1, <3>1
  <2> QED
    BY <1>1, <1>2, <1>3, <1>5, <1>6, <1>7, <2>2 DEF BrokenInv
<1> QED
  BY <1>8, <1>9

\* A line is written: if it has lost its front, it was the one being put together.
LEMMA BrokenWrite ==
  ASSUME LogInv, LogInv', BrokenInv, IsFiniteSet(Threads), NEW t \in Threads, Write(t)
  PROVE  BrokenInv'
<1>1. /\ th[t].pc = "write" /\ th'[t].pc = "clear" /\ \A u \in Threads \ {t} : th'[u] = th[u]
      /\ ssp' = ssp /\ text' = text
  BY GotoFacts DEF LogInv, LoggerTypeOK, Write, At, PCs
<1>2. ssp \in Threads /\ ssp # None /\ th[t].part = Whole
  BY <1>1, LogFacts, LoggerAssumption DEF LogInv, CallState, Inside
<1>3. \A u \in Threads \ {t} : th[u].pc \notin Inside
  BY <1>1 DEF LogInv, MutexHeld, Inside
<1>4. ~Cut' /\ Late' = Late
  BY <1>1, <1>3 DEF Cut, Late, Inside
<1>5. PICK m \in Nat : m = Len(file) /\ DOMAIN file = 1..m /\ DOMAIN file' = 1..m + 1
                       /\ file'[m + 1] = text[ssp] /\ \A i \in 1..m : file'[i] = file[i]
  <2>1. PICK s \in Seq(Seq(Piece)) : s = file
    BY DEF LogInv, LoggerTypeOK
  <2>2. PICK e \in Seq(Piece) : e = text[ssp]
    BY <1>2 DEF LogInv, LoggerTypeOK
  <2>3. file' = Append(s, e)
    BY <2>1, <2>2 DEF Write
  <2> QED
    BY <2>1, <2>2, <2>3
<1>6. PICK b \in Nat : b = Cardinality(Broken)
  BY BrokenFinite
<1>7. PICK l \in Nat : l = Cardinality(Late)
  BY BrokenFinite
<1>8. PICK n \in Nat : n = Cardinality(Threads)
  BY BrokenFinite
<1>9. PICK c \in 0..1 : c = CutLines
  BY DEF CutLines
<1>10. b + c + l < n
  BY <1>2, <1>6, <1>7, <1>8, <1>9 DEF BrokenInv
<1>11. CutLines' = 0
  BY <1>4 DEF CutLines
<1>12. CASE Len(text[ssp]) < Whole
  <2>1. c = 1
    BY <1>1, <1>2, <1>9, <1>12 DEF Cut, CutLines
  <2>2. Broken' = Broken \union {m + 1}
    BY <1>5, <1>12 DEF Broken
  <2>3. m + 1 \notin Broken
    BY <1>5 DEF Broken
  <2>4. Cardinality(Broken') = b + 1
    BY <1>6, <2>2, <2>3, BrokenFinite, FS_AddElement
  <2>5. b + 1 + 0 + l < n
    BY <1>10, <2>1
  <2> QED
    BY <1>1, <1>2, <1>4, <1>7, <1>8, <1>11, <2>4, <2>5 DEF BrokenInv
<1>13. CASE ~(Len(text[ssp]) < Whole)
  <2>1. Broken' = Broken
    BY <1>5, <1>13 DEF Broken
  <2>2. b + 0 + l < n
    BY <1>9, <1>10
  <2> QED
    BY <1>1, <1>2, <1>4, <1>6, <1>7, <1>8, <1>11, <2>1, <2>2 DEF BrokenInv
<1> QED
  BY <1>12, <1>13

LEMMA BrokenNext ==
  ASSUME LogInv, LogInv', BrokenInv, IsFiniteSet(Threads), [Next]_vars
  PROVE  BrokenInv'
<1>0. th \in [Threads -> LogThread] /\ text \in [Threads -> Seq(Piece)]
  BY DEF LogInv, LoggerTypeOK
<1>1. ASSUME NEW t \in Threads, TestPolicy(t) \/ SetPolicy(t) \/ CheckType(t) \/ TestStream(t)
                                \/ Lock(t) \/ Clear(t) \/ Unlock(t)
      PROVE  BrokenInv'
  <2>1. UNCHANGED <<file, ssp>> /\ \A u \in Threads \ {t} : th'[u] = th[u]
    BY <1>0, <1>1 DEF TestPolicy, SetPolicy, CheckType, TestStream, Lock, Clear, Unlock, Goto
  <2>2. /\ ssp # None => th'[t].pc # "setssp"
        /\ th'[t].pc \in {"print", "write"} => Lock(t)
    <3>1. CASE TestPolicy(t)
      BY <1>0, <3>1 DEF TestPolicy
    <3>2. CASE SetPolicy(t)
      BY <1>0, <3>2, GotoFacts DEF SetPolicy, PCs
    <3>3. CASE CheckType(t)
      BY <1>0, <3>3, GotoFacts DEF CheckType, PCs
    <3>4. CASE TestStream(t)
      BY <1>0, <3>4, GotoFacts DEF TestStream, PCs
    <3>5. CASE Lock(t)
      BY <1>0, <3>5, GotoFacts DEF Lock, PCs
    <3>6. CASE Clear(t)
      BY <1>0, <3>6, GotoFacts DEF Clear, PCs
    <3>7. CASE Unlock(t)
      BY <1>0, <3>7, GotoFacts DEF Unlock, PCs
    <3> QED
      BY <1>1, <3>1, <3>2, <3>3, <3>4, <3>5, <3>6, <3>7
  <2>3. ssp # None => Late' \subseteq Late
    BY <2>1, <2>2 DEF Late
  <2>4. ASSUME NEW u \in Threads, u # t, th'[u].pc \in {"print", "write"}, ssp # None,
               Len(text'[ssp]) < th'[u].part
        PROVE  Cut
    <3>1. th[u].pc \in {"print", "write"} /\ th'[u].part = th[u].part
      BY <2>1, <2>4
    <3>2. text' = text
      <4>1. ~Clear(t)
        BY <3>1, <2>4 DEF Clear, At, LogInv, MutexHeld, Inside
      <4> QED
        BY <1>1, <4>1 DEF TestPolicy, SetPolicy, CheckType, TestStream, Lock, Unlock
    <3> QED
      BY <2>1, <2>4, <3>1, <3>2 DEF Cut
  <2>5. ASSUME th'[t].pc \in {"print", "write"}, Lock(t), ssp # None
        PROVE  ~(Len(text'[ssp]) < th'[t].part)
    <3>1. th'[t].part = th[t].part /\ th[t].pc = "lock" /\ text' = text
      BY <1>0, <2>5, GotoFacts DEF Lock, At, PCs
    <3>2. th[t].part = 0
      BY <3>1 DEF LogInv, CallState, Before
    <3>3. Len(text[ssp]) \in Nat
      BY <1>0, <2>5 DEF LogInv, LoggerTypeOK
    <3> QED
      BY <3>1, <3>2, <3>3
  <2>6. ssp # None => (Cut' => Cut)
    BY <2>1, <2>2, <2>4, <2>5 DEF Cut
  <2> QED
    BY <2>1, <2>3, <2>6, BrokenStill
<1>2. ASSUME NEW t \in Threads, PrintPart(t)
      PROVE  BrokenInv'
  <2>1. /\ UNCHANGED <<file, ssp>> /\ \A u \in Threads \ {t} : th'[u] = th[u]
        /\ th[t].pc = "print" /\ th'[t].pc \in {"print", "write"} /\ th'[t].part = th[t].part + 1
    BY <1>0, <1>2 DEF PrintPart, At
  <2>2. Late' \subseteq Late
    BY <2>1 DEF Late
  <2>3. ssp \in Threads /\ \A u \in Threads \ {t} : th[u].pc \notin Inside
    BY <2>1, LogFacts DEF LogInv, MutexHeld, Inside
  <2>4. Len(text'[ssp]) = Len(text[ssp]) + 1 /\ Len(text[ssp]) \in Nat
    <3>1. PICK s \in Seq(Piece) : s = text[ssp]
      BY <1>0, <2>3
    <3>2. text'[ssp] = Append(s, [by |-> t, no |-> th[t].calls, part |-> th[t].part])
      BY <1>0, <1>2, <2>3, <3>1 DEF PrintPart
    <3> QED
      BY <3>1, <3>2
  <2>5. th[t].part \in Nat
    BY <1>0, LoggerAssumption DEF LogThread
  <2>6. Cut' => Cut
    BY <2>1, <2>3, <2>4, <2>5 DEF Cut, Inside
  <2> QED
    BY <2>1, <2>2, <2>6, BrokenStill
<1>3. CASE RaceCrash \/ UNCHANGED vars
  <2>1. UNCHANGED <<file, ssp, th, text>>
    BY <1>3 DEF RaceCrash, vars
  <2> QED
    BY <2>1, BrokenStill DEF Late, Cut
<1> QED
  BY <1>1, <1>2, <1>3, BrokenReplace, BrokenWrite DEF Next, PrintLog, Continue

\* Lines without their front are fewer than the threads, however many calls each makes: the
\* price of the unlocked first calls alone.
THEOREM FewLinesBroken ==
  ASSUME IsFiniteSet(Threads), Threads # {}
  PROVE  Spec => []FewBroken
<1>1. Init => BrokenInv
  BY DEF Init, BrokenInv
<1>2. LogInv /\ LogInv' /\ BrokenInv /\ [Next]_vars => BrokenInv'
  BY BrokenNext
<1>3. LogInv /\ BrokenInv => FewBroken
  <2> SUFFICES ASSUME LogInv, BrokenInv PROVE Cardinality(Broken) < Cardinality(Threads)
    BY DEF FewBroken, Broken
  <2>1. PICK b \in Nat, l \in Nat, n \in Nat, c \in 0..1 :
          b = Cardinality(Broken) /\ l = Cardinality(Late) /\ n = Cardinality(Threads) /\ c = CutLines
    BY BrokenFinite
  <2>2. CASE ssp = None
    <3>1. Broken = {}
      BY <2>2 DEF BrokenInv, Broken
    <3>2. b = 0 /\ n # 0
      BY <2>1, <3>1, FS_EmptySet
    <3> QED
      BY <2>1, <3>2
  <2>3. CASE ssp # None
    <3>1. b + c + l < n
      BY <2>1, <2>3 DEF BrokenInv
    <3> QED
      BY <2>1, <3>1
  <2> QED
    BY <2>2, <2>3
<1> QED
  BY <1>1, <1>2, <1>3, LogInvariant, PTL DEF Spec
=============================================================================
