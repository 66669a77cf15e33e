------------------------------ MODULE XmlPieces ------------------------------
(***************************************************************************)
(* Pieces of XML documents, for the instances that TLC checks: what is     *)
(* written, and the tokens it means with their places.                     *)
(***************************************************************************)
EXTENDS XmlReader, SequencesExt, FiniteSets

Piece(chars, tokens, places) == [chars |-> chars, tokens |-> tokens, places |-> places]
Blank == Piece(<<" ">>, <<>>, <<>>)

\* The places of a piece count from its own start.
Place(at, eq, end) == [at |-> at, eq |-> eq, end |-> end]
Moved(places, n) ==
  [k \in DOMAIN places |-> Place(places[k].at + n, places[k].eq + n, places[k].end + n)]
Then(p, q) ==
  Piece(p.chars \o q.chars, p.tokens \o q.tokens, p.places \o Moved(q.places, Len(p.chars)))
Joined(pieces) == FoldLeft(Then, Piece(<<>>, <<>>, <<>>), pieces)

Attribute(name, value) ==
  Piece(<<" ", name, "=", Quote>> \o value \o <<Quote>>,
        <<[kind |-> "ATTRIBUTE", name |-> <<name>>, value |-> value]>>,
        <<Place(1, 2, Len(value) + 4)>>)

StartOfTag(name) ==
  Piece(<<"<">> \o name, <<[kind |-> "TAG", name |-> name]>>, <<Place(1, 0, Len(name) + 1)>>)

\* <name attributes/> and <?name attributes?>
Tag(open, name, attributes, close) ==
  Joined(<<StartOfTag(open \o name)>> \o attributes
         \o <<Piece(close \o <<">">>, <<[kind |-> "TAG_ENDING"]>>, <<Place(0, 0, Len(close))>>)>>)

Comment(chars) ==
  Piece(<<"<", "!", "-", "-">> \o chars \o <<"-", "-", ">">>, <<[kind |-> "COMMENT"]>>,
        <<Place(1, 0, Len(chars) + 6)>>)

\* What has a letter in it is a text, from that letter on.
Text(chars) ==
  LET L == {n \in DOMAIN chars : chars[n] \in Alpha}
      first == CHOOSE n \in L : \A k \in L : n <= k
  IN IF L = {} THEN Piece(chars, <<>>, <<>>)
     ELSE Piece(chars, <<[kind |-> "TEXT"]>>, <<Place(first - 1, 0, Len(chars))>>)

\* <name>text children</name>
Element(name, chars, children) ==
  Joined(<<StartOfTag(name), Piece(<<">">>, <<>>, <<>>), Text(chars)>> \o children
         \o <<Piece(<<"<", "/">> \o name \o <<">">>, <<[kind |-> "TAG_ENDING"]>>,
                    <<Place(1, 0, Len(name) + 2)>>)>>)

\* A piece as a document: with the number of open elements.
Document(piece) ==
  LET ofKind(kind, k) == {j \in 1..k : piece.tokens[j].kind = kind}
      open(k) == Cardinality(ofKind("TAG", k)) - Cardinality(ofKind("TAG_ENDING", k))
  IN [text |-> piece.chars, tokens |-> piece.tokens,
      places |-> [k \in DOMAIN piece.places |->
                    [at |-> piece.places[k].at, eq |-> piece.places[k].eq,
                     end |-> piece.places[k].end, open |-> open(k)]]]
===============================================================================
