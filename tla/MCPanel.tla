------------------------------- MODULE MCPanel --------------------------------
(* Panel with two passwords and a text that ends in one of them after "=". *)
EXTENDS Panel

MCCardPasswords == {<<"old">>, <<"new">>}
MCTexts == MCCardPasswords \cup {Empty, <<"x", "new">>}
MCSpeeds == {0, 255}
===============================================================================
