------------------------------ MODULE MCStrings -------------------------------
(* Strings for TLC: three variables, and blocks to spare for leaks. *)
EXTENDS Strings

MCTexts == {<<>>, <<"a">>}

=============================================================================
