----------------------------- MODULE MCXmlReader -----------------------------
(***************************************************************************)
(* Texts for XmlReader: every short text over all kinds of characters, and *)
(* the documents of a small grammar together with their tokens.            *)
(***************************************************************************)
EXTENDS XmlPieces

Digits == {"1"}
Blanks == {" "}
FewLetters == {"r", "v"}
Chars == FewLetters \cup Digits \cup Blanks \cup Marks \cup {"."}

CONSTANT Longest       \* of the arbitrary ends of a text

\* Texts that lead to every state of the automaton, and go on in any way.
Openings ==
  {<<>>, <<"<", "r">>, <<"<", "r", " ">>, <<"<", "r", " ", "v">>,
   <<"<", "r", " ", "v", "=", Quote>>, <<"<", "r", " ", "v", "=", Quote, "r">>,
   <<"<", "r", ">">>, <<"<", "r", ">", "<", "/">>, <<"<", "r", ">", "v">>,
   <<"<", "r", ">", "<", "v", "/", ">">>, <<"<", "!", "-">>, <<"<", "!", "-", "-", "r">>}

ArbitraryTexts ==
  {s \o t : s \in Openings, t \in UNION {[1..n -> Chars] : n \in 0..Longest}}

Values == {<<>>, <<">">>, <<"<", "/">>, <<"r", " ", "=">>}
Attributes == {Attribute(n, v) : n \in FewLetters, v \in Values}
AttributeLists ==
  {<<>>} \cup {<<a>> : a \in Attributes} \cup {<<a, b, Blank>> : a, b \in Attributes}
EmptyTags == {Tag(<<>>, <<"r", "1">>, as, <<"/">>) : as \in AttributeLists}
Declarations == {Tag(<<"?">>, <<"v">>, <<a, Blank>>, <<"?">>) : a \in Attributes}
Comments == {Comment(c) : c \in {<<"-">>, <<">">>, <<"r", "-", ">">>, <<"-", " ", "-", "r">>,
                                 <<"<", "r", ">">>}}

FewTags == {Tag(<<>>, <<"r">>, as, <<"/">>) :
              as \in {<<>>, <<Attribute("v", <<>>)>>, <<Attribute("v", <<">">>), Blank>>}}
Children == {<<>>} \cup {<<a>> : a \in FewTags \cup Comments}
            \cup {<<a, Blank, b>> : a, b \in FewTags \cup Comments}
TreeElements == {Element(<<"v">>, t, cs) : t \in {<<>>, <<" ">>}, cs \in Children}

TextElements == {Element(<<"v">>, <<"1", "r", " ">>, cs) : cs \in Children}
FewElements == {Element(<<"v">>, <<>>, cs) : cs \in {<<>>} \cup {<<a>> : a \in FewTags \cup Comments}}

Trees == TreeElements \cup TextElements
         \cup {Element(<<"r">>, <<>>, <<a, b>>) : a \in FewElements, b \in FewElements \cup FewTags}

Pieces ==
  EmptyTags \cup Declarations \cup Comments \cup Trees
  \cup {Joined(<<a, Blank, b>>) : a \in Declarations \cup Comments, b \in EmptyTags \cup FewTags}
  \cup {Joined(<<a, b, a, b>>) : a \in Declarations, b \in Trees}

DocumentTexts == {Document(p) : p \in Pieces}

\* A hypothesis of TokensRight in XmlReaderProofs.
ASSUME DocumentsAreWritten == DocumentsWritten
===============================================================================
