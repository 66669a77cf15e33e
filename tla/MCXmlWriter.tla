------------------------------ MODULE MCXmlWriter ------------------------------
(***************************************************************************)
(* Buffers from one in which one tag just fits to one that holds three     *)
(* nested ones; a quote is one cell, "q".                                  *)
(***************************************************************************)
EXTENDS XmlWriter

FewLetters == {"a", "b", "t", "v", "x"}
FewChars == FewLetters \cup {" ", "<", ">", "/", "=", "q"}
Sizes == [tags |-> {7, 12, 17, 22}, raw |-> {11}]
TwoNames == {<<"a">>, <<"b", "b">>}
FewAttributes == {<<<<"x">>, <<>>>>, <<<<"x">>, <<"v">>>>}
FewTexts == {<<>>, <<"t", "t", "t">>}
===============================================================================
