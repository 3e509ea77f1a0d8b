----------------------------- MODULE MCCommands -----------------------------
(* Instances of the way of a line for TLC. *)
EXTENDS Commands

\* Every line of up to four of these symbols.
Short == SeqOf({" ", ">", "#", "!", "a", "b", "exit"}, 4)

\* A word that is compared as a whole, alone or with something before or behind it.
Whole == {f \o <<w>> \o g : f \in SeqOf({" ", "a"}, 1), g \in SeqOf({" ", "a"}, 1),
                            w \in {"exit", "clear", "$ show users", "$ show blocked"}}

\* Private messages and block commands of some length.
Addressed == {<<">", " ">> \o n \o <<" ">> \o m :
                n \in {<<"a">>, <<"b">>, <<"b", "a">>}, m \in SeqOf({" ", "a", "b"}, 4)}
Blocks == {<<"#", " ">> \o m : m \in SeqOf({" ", "!", "a", "b"}, 4)}

\* Private messages with brackets, at the places the receiver looks at and at others.
Brackets == {<<">", " ", "b", " ">> \o [i \in 1..k |-> "a"] \o m :
               k \in {0, 1, 15}, m \in SeqOf({"[", "]", "a"}, 3)}

AllLines == Short \union Whole \union Addressed \union Blocks \union Brackets

\* A message to b of one word.
OneWord == {<<">", " ", "b", " ", "a">>}

SenderNicks == {<<"a">>, <<"a", "]">>}
OnlineNicks == {<<>>, <<"a">>, <<"b">>, <<"b", "a">>}
=============================================================================
