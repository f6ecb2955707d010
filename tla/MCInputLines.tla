--------------------------- MODULE MCInputLines ----------------------------
(* Constants of InputLines for TLC.                                        *)
EXTENDS InputLines

ToUpper == [ch \in {"a", "r", " ", "@"} |->
               CASE ch = "a" -> "A" [] ch = "r" -> "R" [] OTHER -> ch]

\* Every word of one or two letters is a command.
ShortCommands ==
    [away        |-> <<"A">>,
     here        |-> <<"R">>,
     request     |-> <<"A", "A">>,
     accept      |-> <<"A", "R">>,
     decline     |-> <<"R", "A">>,
     discontinue |-> <<"R", "R">>]

\* Memory holds a '\0' where the name ends, or one character before it.
Bytes == DOMAIN ToUpper \cup {"?"}

Leftovers == {<<>>, <<"?">>}
=============================================================================
