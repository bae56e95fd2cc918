-------------------------- MODULE MCPrintfNomalloc --------------------------
(***************************************************************************)
(* Formats of up to six characters, with a character of each kind the      *)
(* parser tells apart; numbers of three and five bits, so that decimal     *)
(* numbers have one or two digits and a number fetched with the wrong      *)
(* length is another number.                                               *)
(***************************************************************************)
EXTENDS PrintfNomalloc

MCAlphabet == {"a", "%", "l", "z", "-", "*", "0", "1", "3", "d", "i", "u", "x", "X", "p", "c", "s"}

MCStrings == {<<>>, <<"a", "b">>}

MCWidths == {-1, 0, 4}
=============================================================================
