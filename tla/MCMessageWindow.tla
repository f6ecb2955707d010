-------------------------- MODULE MCMessageWindow --------------------------
(* Constants of MessageWindow for TLC: rows of four characters and the     *)
(* '\0'.  The messages fit on a row, fill it but for the '\0', fill it with *)
(* the blank in place of the '\0', take several rows, and have words one   *)
(* character too long, at the end and before it.                           *)
EXTENDS MessageWindow

Chars == {" ", "u", "a", "b", "c", "d", "e", "f", "1", "2", "3", "4"}

Headers == {<<"u", " ">>}

Texts ==
    {<<>>,
     <<"a">>,
     <<"b", "b">>,
     <<"c", "c", " ", "c">>,
     <<"d", "d", "d", "d", " ", "d", " ", "d", "d", " ">>,
     <<"e", "e", "e", "e", "e">>,
     <<"f", " ", " ", "f", "f", "f", "f", "f", " ", "f">>}

ConsoleTexts == {<<"1">>, <<"2", "3", "4">>}
=============================================================================
