----------------------------- MODULE MCStartup -----------------------------
(* Instances of the start of both programs for TLC. *)
EXTENDS Startup

With(n, v, r) == [kind |-> "long=", name |-> n, val |-> v, raw |-> r]
Named(n, r) == [kind |-> "long", name |-> n, raw |-> r]
Lettered(ls, r) == [kind |-> "short", letters |-> ls, raw |-> r]
Plain(v) == [kind |-> "word", raw |-> v]

Typed ==
  {With("port", "9000", "--port=9000"), With("workerNum", "two", "--workerNum=two"),
   Named("port", "--port"), Named("host", "--host"), Named("help", "--help"),
   Lettered(<<"p">>, "-p"), Lettered(<<"w">>, "-w"), Lettered(<<"?", "p">>, "-?p"),
   Lettered(<<"p", "w">>, "-pw"),
   [kind |-> "dash", raw |-> "-"], Plain("2"), Plain("0")}

Ints == [v \in {"0", "2", "3"} |-> CASE v = "0" -> 0 [] v = "2" -> 2 [] v = "3" -> 3]
=============================================================================
