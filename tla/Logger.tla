------------------------------- MODULE Logger -------------------------------
(***************************************************************************)
(* The logger of qiaqia_server (server/logger.hpp), a Logger<FilePolicy>   *)
(* that every worker calls from its handler.  The policy p, which holds    *)
(* the file open, and the stream ssp, in which a line is put together, are *)
(* made by the first call; the tests for it are outside write_mutex.       *)
(*                                                                         *)
(* A step is one access to p, ssp or the mutex.  A line is a sequence of   *)
(* pieces: part 0 is the time, part 1 the severity, part i + 1 the i-th    *)
(* argument.                                                               *)
(* Operators marked "Mutant" are no part of the model.                     *)
(***************************************************************************)
EXTENDS Integers, Sequences, FiniteSets, FiniteSetsExt

CONSTANTS
  Threads,  \* the threads that log
  Args,     \* the number of arguments of LOG_INFO
  Calls,    \* bound: how often each thread logs
  None

ASSUME LoggerAssumption ==
  /\ Args \in Nat
  /\ Calls \in [Threads -> Nat]
  /\ None \notin Threads

VARIABLES
  status,   \* of the process
  p, ssp,   \* the shared pointers: the thread that made the object, or None
  mutex,    \* write_mutex: the thread that holds it
  text,     \* per stream: what has been put into it
  file,     \* the lines of qiaqia.log
  th        \* per thread: where it is, its calls so far, the part it prints next

vars == <<status, p, ssp, mutex, text, file, th>>

PCs == {"idle", "setp", "typeid", "testssp", "setssp", "lock", "print", "write", "clear", "unlock"}

Piece == [by: Threads, no: Nat, part: Nat]
LogThread == [pc: PCs, calls: Nat, part: 0..Args + 2]

LoggerTypeOK ==
  /\ status \in {"running", "killed"}
  /\ p \in Threads \union {None}
  /\ ssp \in Threads \union {None}
  /\ mutex \in Threads \union {None}
  /\ text \in [Threads -> Seq(Piece)]
  /\ file \in Seq(Seq(Piece))
  /\ th \in [Threads -> LogThread]

Init ==
  /\ status = "running"
  /\ p = None /\ ssp = None /\ mutex = None
  /\ text = [t \in Threads |-> <<>>]
  /\ file = <<>>
  /\ th = [t \in Threads |-> [pc |-> "idle", calls |-> 0, part |-> 0]]

At(t, l) == status = "running" /\ th[t].pc = l
Goto(t, l) == th' = [th EXCEPT ![t].pc = l]

-----------------------------------------------------------------------------
(* PrintLog: what comes before the lock.                                   *)

TestPolicy(t) ==
  /\ At(t, "idle") /\ th[t].calls < Calls[t]
  /\ th' = [th EXCEPT ![t] = [pc |-> IF p = None THEN "setp" ELSE "testssp",
                              calls |-> th[t].calls + 1, part |-> 0]]
  /\ UNCHANGED <<status, p, ssp, mutex, text, file>>

\* A policy that is there already is dropped; its file is closed, the new one appends to it.
SetPolicy(t) ==
  /\ At(t, "setp")
  /\ p' = t
  /\ Goto(t, "typeid")
  /\ UNCHANGED <<status, ssp, mutex, text, file>>

\* typeid(*p) is FilePolicy here, and is_terminal stays false.
CheckType(t) ==
  /\ At(t, "typeid")
  /\ Goto(t, "testssp")
  /\ UNCHANGED <<status, p, ssp, mutex, text, file>>

\* Mutant: every call makes a stream of its own.
AlwaysMakes(t) ==
  /\ At(t, "testssp")
  /\ Goto(t, "setssp")
  /\ UNCHANGED <<status, p, ssp, mutex, text, file>>

TestStream(t) ==
  /\ At(t, "testssp")
  /\ Goto(t, IF ssp = None THEN "setssp" ELSE "lock")
  /\ UNCHANGED <<status, p, ssp, mutex, text, file>>

\* A stream that is there already is dropped, with what another thread has put into it.
SetStream(t) ==
  /\ At(t, "setssp")
  /\ ssp' = t
  /\ text' = [text EXCEPT ![t] = <<>>]
  /\ Goto(t, "lock")
  /\ UNCHANGED <<status, p, mutex, file>>

-----------------------------------------------------------------------------
(* PrintLog: the line.  ssp is looked at anew by every step.               *)

Lock(t) ==
  /\ At(t, "lock") /\ mutex = None
  /\ mutex' = t
  /\ Goto(t, "print")
  /\ UNCHANGED <<status, p, ssp, text, file>>

\* Mutant: one argument too many.
PrintsOneMore(t) ==
  /\ At(t, "print")
  /\ text' = [text EXCEPT ![ssp] = Append(@, [by |-> t, no |-> th[t].calls, part |-> th[t].part])]
  /\ th' = [th EXCEPT ![t] = [pc |-> IF th[t].part > Args + 1 THEN "write" ELSE "print",
                              calls |-> th[t].calls, part |-> th[t].part + 1]]
  /\ UNCHANGED <<status, p, ssp, mutex, file>>

PrintPart(t) ==
  /\ At(t, "print")
  /\ text' = [text EXCEPT ![ssp] = Append(@, [by |-> t, no |-> th[t].calls, part |-> th[t].part])]
  /\ th' = [th EXCEPT ![t] = [pc |-> IF th[t].part = Args + 1 THEN "write" ELSE "print",
                              calls |-> th[t].calls, part |-> th[t].part + 1]]
  /\ UNCHANGED <<status, p, ssp, mutex, file>>

\* Mutant: the write is repeated.
WritesTwice(t) ==
  /\ At(t, "write")
  /\ file' = file \o <<text[ssp], text[ssp]>>
  /\ Goto(t, "clear")
  /\ UNCHANGED <<status, p, ssp, mutex, text>>

Write(t) ==
  /\ At(t, "write")
  /\ file' = Append(file, text[ssp])
  /\ Goto(t, "clear")
  /\ UNCHANGED <<status, p, ssp, mutex, text>>

\* Mutant: ssp->clear(), which resets the flags of the stream and not its text.
ClearFlags(t) ==
  /\ At(t, "clear")
  /\ Goto(t, "unlock")
  /\ UNCHANGED <<status, p, ssp, mutex, text, file>>

Clear(t) ==
  /\ At(t, "clear")
  /\ text' = [text EXCEPT ![ssp] = <<>>]
  /\ Goto(t, "unlock")
  /\ UNCHANGED <<status, p, ssp, mutex, file>>

\* Mutant: a return without the unlock.
StaysLocked(t) ==
  /\ At(t, "unlock")
  /\ Goto(t, "idle")
  /\ UNCHANGED <<status, p, ssp, mutex, text, file>>

Unlock(t) ==
  /\ At(t, "unlock")
  /\ mutex' = None
  /\ Goto(t, "idle")
  /\ UNCHANGED <<status, p, ssp, text, file>>

-----------------------------------------------------------------------------
\* One thread replaces a shared pointer while another replaces or follows it: the other
\* outcomes are the steps above, this one is a crash.
UsesPolicy(t) == th[t].pc \in {"setp", "typeid", "write"}
UsesStream(t) == th[t].pc \in {"setssp", "print", "write", "clear"}

RaceCrash ==
  /\ status = "running"
  /\ \E t, u \in Threads : /\ t # u
                           /\ \/ th[t].pc = "setp" /\ UsesPolicy(u)
                              \/ th[t].pc = "setssp" /\ UsesStream(u)
  /\ status' = "killed"
  /\ UNCHANGED <<p, ssp, mutex, text, file, th>>

\* The rest of a call of PrintLog that has begun.
Continue(t) ==
  \/ SetPolicy(t) \/ CheckType(t) \/ TestStream(t) \/ SetStream(t)
  \/ Lock(t) \/ PrintPart(t) \/ Write(t) \/ Clear(t) \/ Unlock(t)

PrintLog(t) == TestPolicy(t) \/ Continue(t)

Next == (\E t \in Threads : PrintLog(t)) \/ RaceCrash

Spec == Init /\ [][Next]_vars

\* A thread goes on with a call it has begun.  With boundedly many calls this gets every
\* thread the lock, which std::mutex does not promise for unboundedly many.
FairSpec == Spec /\ \A t \in Threads : WF_vars(Continue(t))

-----------------------------------------------------------------------------
(* What the log shows.                                                     *)

Whole == Args + 2

\* The parts j..k-1 of the n-th line of thread t.
Stretch(t, n, j, k) == [i \in 1..(k - j) |-> [by |-> t, no |-> n, part |-> j + i - 1]]

\* Every line of the file comes from one call, in order and to its end: the stream may be
\* replaced while a line is put together, so its front can be missing, but no line has
\* pieces of another call in it or is followed by them.
LinesUnmixed ==
  \A i \in DOMAIN file : \E t \in Threads : \E n \in 1..Calls[t], j \in 0..Whole :
    file[i] = Stretch(t, n, j, Whole)

Begun(t) == th[t].calls - IF th[t].pc \in PCs \ {"idle", "clear", "unlock"} THEN 1 ELSE 0

\* Each call that has come past its write has put one line into the file: the races before
\* the lock neither lose a line nor write one twice.
OneLineEach == Len(file) = MapThenSumSet(Begun, Threads)

\* Lines with a front part missing are the price of the unlocked first calls alone: fewer
\* than there are threads, however long they log.
FewBroken == Cardinality({i \in DOMAIN file : Len(file[i]) < Whole}) < Cardinality(Threads)

\* Every call returns, unless the process dies in the unlocked part.
CallsReturn == \A t \in Threads : th[t].pc # "idle" ~> th[t].pc = "idle" \/ status = "killed"

\* "init p and ssp only once", as the comment in PrintLog says (logger.hpp:148).
InitOnce == [][(p # None => p' = p) /\ (ssp # None => ssp' = ssp)]_vars
=============================================================================
