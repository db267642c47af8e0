------------------------------ MODULE MCScreen -------------------------------
(***************************************************************************)
(* Screen with characters one by one, the special ones included, and       *)
(* words that fit in the rest of a line, in a line, or in none.            *)
(***************************************************************************)
EXTENDS Screen

TwoWidths == <<1, 2>>
TwoHeights == <<2, 2>>

SomeStrings ==
  {<<c>> : c \in {"a", " ", "newline", "return", "tab", "backspace"}}
    \union {<<"a", "a", " ", "a", "a">>, <<" ", "a", "a", "a">>, <<"a", "newline", "a", "a">>,
            <<"tab", "a">>}

=============================================================================
