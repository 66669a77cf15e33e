--------------------------- MODULE XmlReaderProofs ---------------------------
(***************************************************************************)
(* What holds of xmlGetToken for texts of any length over any characters:  *)
(* the types, that depth never wraps, and that the names and values a      *)
(* caller fetches are where the reader has been; and for documents, that   *)
(* it gives their tokens.                                                  *)
(***************************************************************************)
EXTENDS XmlReader, TLAPS

(***************************************************************************)
(* What has been marked when the automaton is inside a name or a value.    *)
(* IN_ATTRIBUTE_VALUE has seen no quote since the value began.             *)
(***************************************************************************)
NameMarked == 0 <= span["name_start"] /\ span["name_start"] < span["name_end"]

Marked ==
  /\ parser_state = "IN_TAG_NAME" =>
       0 <= span["tag_start"] /\ span["tag_start"] < position
  /\ parser_state = "IN_ATTRIBUTE_NAME" =>
       0 <= span["name_start"] /\ span["name_start"] < position
  /\ parser_state \in {"WAIT_FOR_ATTRIBUTE_VALUE_QUOTE", "WAIT_FOR_ATTRIBUTE_VALUE"} =>
       NameMarked /\ span["name_end"] < position
  /\ parser_state = "IN_ATTRIBUTE_VALUE" =>
       /\ NameMarked
       /\ span["name_end"] < span["value_start"] /\ span["value_start"] < position
       /\ \A n \in span["value_start"] + 1..position : text[n] # Quote

MarkedStates ==
  {"IN_TAG_NAME", "IN_ATTRIBUTE_NAME", "WAIT_FOR_ATTRIBUTE_VALUE_QUOTE",
   "WAIT_FOR_ATTRIBUTE_VALUE", "IN_ATTRIBUTE_VALUE"}

IInv == TypeOK /\ DepthNeverWraps /\ Marked /\ SpansInText

LEMMA InitInv == Init => IInv
<1> SUFFICES ASSUME Init PROVE IInv
  OBVIOUS
<1>1. IsText(text) /\ Len(text) \in Nat
  BY TextAssumption DEF Init, InitReader, IsText
<1>2. TypeOK
  BY <1>1 DEF Init, InitReader, TypeOK, ParserStates, Tokens, Spans, Unset
<1> QED
  BY <1>2 DEF Init, InitReader, IInv, DepthNeverWraps, OpenStates, Marked, SpansInText
-------------------------------------------------------------------------------
(***************************************************************************)
(* The pieces of which the actions are made.                               *)
(***************************************************************************)
SpanType == [Spans -> Nat \cup {Unset}]

LEMMA MarkFacts ==
  ASSUME span \in SpanType, position \in Nat, NEW f \in Spans, Mark(f)
  PROVE  /\ span' \in SpanType
         /\ span'[f] = position
         /\ \A g \in Spans \ {f} : span'[g] = span[g]
BY DEF SpanType, Mark

LEMMA ReadFacts ==
  ASSUME TypeOK, NEW s, In(s)
  PROVE  /\ parser_state = s /\ pc = "scan"
         /\ Len(text) \in Nat /\ position \in Nat /\ position + 1 <= Len(text)
         /\ depth \in Int /\ seen \in Nat /\ span \in SpanType
         /\ \A f \in Spans : span[f] \in Int
BY DEF TypeOK, IsText, In, More, SpanType, Unset

LEMMA GoType ==
  ASSUME TypeOK, NEW s, In(s), NEW t \in ParserStates, Go(t), span' \in SpanType
  PROVE  TypeOK'
<1>1. IsText(text)'
  BY DEF TypeOK, Go
<1> QED
  BY <1>1, ReadFacts DEF TypeOK, Go, SpanType

LEMMA DeliverType ==
  ASSUME TypeOK, NEW s, In(s), NEW t \in ParserStates, NEW k \in Tokens, Deliver(k, t),
         span' \in SpanType, depth' \in Int
  PROVE  TypeOK'
<1>1. IsText(text)'
  BY DEF TypeOK, Deliver
<1> QED
  BY <1>1, ReadFacts DEF TypeOK, Deliver, SpanType

(***************************************************************************)
(* A character that marks nothing keeps the invariant when the automaton   *)
(* stays where it is, outside of a value, or goes where nothing has to be  *)
(* marked.                                                                 *)
(***************************************************************************)
LEMMA GoStep ==
  ASSUME IInv, NEW s, In(s), NEW t \in ParserStates, Go(t), SameSpan,
         t \in OpenStates => depth > 0,
         t \notin MarkedStates \/ (t = s /\ s # "IN_ATTRIBUTE_VALUE")
  PROVE  IInv'
<1>1. TypeOK'
  BY ReadFacts, GoType DEF IInv, SameSpan
<1>2. DepthNeverWraps'
  BY DEF IInv, Go, DepthNeverWraps
<1>3. Marked'
  BY ReadFacts DEF IInv, Go, SameSpan, Marked, NameMarked, MarkedStates, Spans
<1>4. SpansInText'
  BY ReadFacts DEF Go, IInv, SpansInText
<1> QED
  BY <1>1, <1>2, <1>3, <1>4 DEF IInv

\* The same for two characters.
LEMMA GoTwoStep ==
  ASSUME IInv, NEW s, In(s), NEW t \in ParserStates \ MarkedStates, GoTwo(t), SameSpan,
         t \notin OpenStates
  PROVE  IInv'
<1>1. TypeOK'
  <2>1. IsText(text)'
    BY DEF IInv, TypeOK, GoTwo
  <2> QED
    BY <2>1, ReadFacts DEF IInv, TypeOK, GoTwo, SameSpan, SpanType
<1>2. DepthNeverWraps'
  BY DEF IInv, GoTwo, DepthNeverWraps
<1>3. Marked'
  BY DEF GoTwo, Marked, MarkedStates
<1>4. SpansInText'
  BY ReadFacts DEF GoTwo, IInv, SpansInText
<1> QED
  BY <1>1, <1>2, <1>3, <1>4 DEF IInv

LEMMA ErrorStep ==
  ASSUME IInv, NEW s, In(s), XmlError, SameSpan, s # "IN_ATTRIBUTE_VALUE"
  PROVE  IInv'
<1>1. TypeOK'
  <2>1. IsText(text)'
    BY DEF IInv, TypeOK, XmlError
  <2> QED
    BY <2>1, ReadFacts DEF IInv, TypeOK, XmlError, SameSpan, SpanType, Tokens
<1>2. DepthNeverWraps'
  BY DEF IInv, XmlError, DepthNeverWraps
<1>3. Marked'
  BY ReadFacts DEF IInv, XmlError, SameSpan, Marked, NameMarked, Spans
<1>4. SpansInText'
  BY DEF XmlError, SpansInText
<1> QED
  BY <1>1, <1>2, <1>3, <1>4 DEF IInv

\* A token with nothing in it to fetch.
LEMMA DeliverStep ==
  ASSUME IInv, NEW s, In(s), NEW t \in ParserStates \ MarkedStates,
         NEW k \in Tokens \ {"TAG", "ATTRIBUTE"}, Deliver(k, t),
         span' \in SpanType, depth' \in Nat, t \in OpenStates => depth' > 0
  PROVE  IInv'
<1>1. TypeOK'
  BY ReadFacts, DeliverType DEF IInv
<1>2. DepthNeverWraps'
  BY DEF Deliver, DepthNeverWraps
<1>3. Marked'
  BY DEF Deliver, Marked, MarkedStates
<1>4. SpansInText'
  BY DEF Deliver, SpansInText
<1> QED
  BY <1>1, <1>2, <1>3, <1>4 DEF IInv
-------------------------------------------------------------------------------
(***************************************************************************)
(* The actions, by what they mark.                                         *)
(***************************************************************************)
LEMMA TagNameStart ==
  ASSUME IInv, NEW s, In(s), Go("IN_TAG_NAME"), Mark("tag_start")
  PROVE  IInv'
<1> USE DEF Spans
<1>1. TypeOK'
  BY ReadFacts, MarkFacts, GoType DEF IInv, ParserStates
<1>2. DepthNeverWraps'
  BY DEF IInv, Go, DepthNeverWraps, OpenStates
<1>3. Marked'
  BY ReadFacts, MarkFacts DEF IInv, Go, Marked
<1>4. SpansInText'
  BY ReadFacts DEF Go, IInv, SpansInText
<1> QED
  BY <1>1, <1>2, <1>3, <1>4 DEF IInv

LEMMA TagNameEndStep ==
  ASSUME IInv, In("IN_TAG_NAME"), TagNameEnd
  PROVE  IInv'
<1> USE DEF ParserStates, Tokens, Spans
<1>1. PICK s \in {"WAIT_FOR_TEXT_OR_TAG", "WAIT_FOR_ENDING", "WAIT_FOR_ATTRIBUTE_OR_ENDING"} :
        Deliver("TAG", s)
  BY DEF TagNameEnd
<1>2. Mark("tag_end") /\ depth' = depth + 1
  BY DEF TagNameEnd, Deeper
<1>3. TypeOK'
  BY <1>1, <1>2, ReadFacts, MarkFacts, DeliverType DEF IInv
<1>4. DepthNeverWraps'
  BY <1>2, ReadFacts DEF IInv, DepthNeverWraps
<1>5. Marked'
  BY <1>1 DEF Deliver, Marked
<1>6. SpansInText'
  BY <1>1, <1>2, ReadFacts, MarkFacts DEF IInv, Deliver, Marked, SpansInText, TagInText
<1> QED
  BY <1>3, <1>4, <1>5, <1>6 DEF IInv

LEMMA OpeningStep ==
  ASSUME IInv, Initial \/ WaitForTagName \/ InTagName \/ WaitForStartOrEndTag
  PROVE  IInv'
<1> USE DEF ParserStates, OpenStates, MarkedStates
<1>0. TypeOK /\ depth \in Nat
  BY DEF IInv, TypeOK, DepthNeverWraps
<1>1. CASE Initial
  BY <1>0, <1>1, GoStep, ErrorStep DEF Initial, AfterOpening
<1>2. CASE WaitForTagName
  BY <1>2, GoStep, ErrorStep, TagNameStart DEF WaitForTagName
<1>3. CASE InTagName
  BY <1>3, GoStep, ErrorStep, TagNameEndStep DEF InTagName
<1>4. CASE WaitForStartOrEndTag
  <2>1. In("WAIT_FOR_START_OR_END_TAG") /\ depth > 0
    BY <1>4 DEF WaitForStartOrEndTag, In, IInv, DepthNeverWraps
  <2> QED
    BY <1>4, <2>1, GoStep, TagNameStart DEF WaitForStartOrEndTag, In
<1> QED
  BY <1>1, <1>2, <1>3, <1>4

LEMMA AttributeNameStart ==
  ASSUME IInv, In("WAIT_FOR_ATTRIBUTE_OR_ENDING"), Go("IN_ATTRIBUTE_NAME"), Mark("name_start")
  PROVE  IInv'
<1> USE DEF Spans
<1>1. TypeOK'
  BY ReadFacts, MarkFacts, GoType DEF IInv, ParserStates
<1>2. DepthNeverWraps'
  BY DEF In, IInv, Go, DepthNeverWraps, OpenStates
<1>3. Marked'
  BY ReadFacts, MarkFacts DEF IInv, Go, Marked
<1>4. SpansInText'
  BY ReadFacts DEF Go, IInv, SpansInText
<1> QED
  BY <1>1, <1>2, <1>3, <1>4 DEF IInv

LEMMA AttributeNameEnd ==
  ASSUME IInv, In("IN_ATTRIBUTE_NAME"), Go("WAIT_FOR_ATTRIBUTE_VALUE_QUOTE"), Mark("name_end")
  PROVE  IInv'
<1> USE DEF Spans
<1>1. TypeOK'
  BY ReadFacts, MarkFacts, GoType DEF IInv, ParserStates
<1>2. DepthNeverWraps'
  BY DEF In, IInv, Go, DepthNeverWraps, OpenStates
<1>3. Marked'
  BY ReadFacts, MarkFacts DEF IInv, Go, Marked, NameMarked
<1>4. SpansInText'
  BY ReadFacts DEF Go, IInv, SpansInText
<1> QED
  BY <1>1, <1>2, <1>3, <1>4 DEF IInv

LEMMA QuoteStep ==
  ASSUME IInv, WaitForAttributeValueQuote
  PROVE  IInv'
<1> USE DEF Spans
<1>1. PICK t \in {"WAIT_FOR_ATTRIBUTE_VALUE_QUOTE", "WAIT_FOR_ATTRIBUTE_VALUE"} :
        /\ In("WAIT_FOR_ATTRIBUTE_VALUE_QUOTE") /\ SameSpan /\ Go(t)
  BY DEF WaitForAttributeValueQuote, In
<1>2. TypeOK'
  BY <1>1, ReadFacts, GoType DEF IInv, ParserStates, SameSpan
<1>3. DepthNeverWraps'
  BY <1>1 DEF In, IInv, Go, DepthNeverWraps, OpenStates
<1>4. Marked'
  BY <1>1, ReadFacts DEF IInv, Go, SameSpan, Marked, NameMarked
<1>5. SpansInText'
  BY <1>1, ReadFacts DEF Go, IInv, SpansInText
<1> QED
  BY <1>2, <1>3, <1>4, <1>5 DEF IInv

LEMMA ValueStart ==
  ASSUME IInv, In("WAIT_FOR_ATTRIBUTE_VALUE"), Char # Quote, Go("IN_ATTRIBUTE_VALUE"),
         Mark("value_start")
  PROVE  IInv'
<1> USE DEF Spans
<1>1. TypeOK'
  BY ReadFacts, MarkFacts, GoType DEF IInv, ParserStates
<1>2. DepthNeverWraps'
  BY DEF In, IInv, Go, DepthNeverWraps, OpenStates
<1>3. Marked'
  <2>1. NameMarked' /\ span["name_end"]' < position
    BY ReadFacts, MarkFacts DEF IInv, Marked, NameMarked
  <2>2. \A n \in span["value_start"]' + 1..position' : text'[n] # Quote
    BY ReadFacts, MarkFacts DEF IInv, Go, Char
  <2> QED
    BY <2>1, <2>2, ReadFacts, MarkFacts DEF IInv, Go, Marked
<1>4. SpansInText'
  BY ReadFacts DEF Go, IInv, SpansInText
<1> QED
  BY <1>1, <1>2, <1>3, <1>4 DEF IInv

LEMMA ValueContinues ==
  ASSUME IInv, In("IN_ATTRIBUTE_VALUE"), Char # Quote, Go("IN_ATTRIBUTE_VALUE"), SameSpan
  PROVE  IInv'
<1> USE DEF Spans
<1>1. TypeOK'
  BY ReadFacts, GoType DEF IInv, ParserStates, SameSpan
<1>2. DepthNeverWraps'
  BY DEF In, IInv, Go, DepthNeverWraps, OpenStates
<1>3. Marked'
  BY ReadFacts DEF IInv, Go, SameSpan, Marked, NameMarked, Char
<1>4. SpansInText'
  BY ReadFacts DEF Go, IInv, SpansInText
<1> QED
  BY <1>1, <1>2, <1>3, <1>4 DEF IInv

\* Both ways a value ends leave it marked, free of quotes.
LEMMA ValueEnd ==
  ASSUME IInv, NEW s \in {"WAIT_FOR_ATTRIBUTE_VALUE", "IN_ATTRIBUTE_VALUE"}, In(s),
         Deliver("ATTRIBUTE", "WAIT_FOR_ATTRIBUTE_OR_ENDING"), SameDepth,
         span' \in SpanType, AttributeInText'
  PROVE  IInv'
<1> USE DEF Spans
<1>1. TypeOK'
  BY ReadFacts, DeliverType DEF IInv, ParserStates, Tokens, SameDepth
<1>2. DepthNeverWraps'
  BY DEF In, IInv, SameDepth, DepthNeverWraps, OpenStates
<1>3. Marked'
  BY DEF Deliver, Marked
<1>4. SpansInText'
  BY DEF Deliver, SpansInText
<1> QED
  BY <1>1, <1>2, <1>3, <1>4 DEF IInv

LEMMA AttributeStep ==
  ASSUME IInv,
         \/ WaitForAttributeOrEnding \/ InAttributeName \/ WaitForAttributeValueQuote
         \/ WaitForAttributeValue \/ InAttributeValue
  PROVE  IInv'
<1> USE DEF Spans
<1>1. CASE WaitForAttributeOrEnding
  <2>1. In("WAIT_FOR_ATTRIBUTE_OR_ENDING") /\ depth > 0
        /\ parser_state = "WAIT_FOR_ATTRIBUTE_OR_ENDING"
    BY <1>1 DEF WaitForAttributeOrEnding, In, IInv, DepthNeverWraps, OpenStates
  <2> QED
    BY <1>1, <2>1, GoStep, ErrorStep, AttributeNameStart
    DEF WaitForAttributeOrEnding, ParserStates, MarkedStates
<1>2. CASE InAttributeName
  <2>1. In("IN_ATTRIBUTE_NAME") /\ depth > 0
    BY <1>2 DEF InAttributeName, In, IInv, DepthNeverWraps, OpenStates
  <2> QED
    BY <1>2, <2>1, GoStep, AttributeNameEnd DEF InAttributeName, ParserStates
<1>3. CASE WaitForAttributeValueQuote
  BY <1>3, QuoteStep
<1>4. CASE WaitForAttributeValue
  <2>1. CASE Char # Quote /\ Go("IN_ATTRIBUTE_VALUE") /\ Mark("value_start")
    BY <1>4, <2>1, ValueStart DEF WaitForAttributeValue
  <2>2. CASE /\ Deliver("ATTRIBUTE", "WAIT_FOR_ATTRIBUTE_OR_ENDING") /\ SameDepth
             /\ span' = [span EXCEPT !["value_start"] = position, !["value_end"] = position]
    <3>1. In("WAIT_FOR_ATTRIBUTE_VALUE")
      BY <1>4 DEF WaitForAttributeValue
    <3>2. /\ span' \in SpanType
          /\ span'["value_start"] = position /\ span'["value_end"] = position
          /\ span'["name_start"] = span["name_start"] /\ span'["name_end"] = span["name_end"]
      BY <2>2, <3>1, ReadFacts DEF IInv, SpanType
    <3>3. AttributeInText'
      <4>1. NameMarked /\ span["name_end"] < position
        BY <3>1, ReadFacts DEF IInv, Marked
      <4>2. text' = text /\ position' = position + 1
        BY <2>2 DEF Deliver
      <4>3. \A n \in span'["value_start"] + 1..span'["value_end"] : text'[n] # Quote
        BY <3>1, <3>2, ReadFacts DEF IInv
      <4> QED
        BY <3>1, <3>2, <4>1, <4>2, <4>3, ReadFacts DEF IInv, NameMarked, AttributeInText
    <3> QED
      BY <2>2, <3>1, <3>2, <3>3, ValueEnd
  <2> QED
    BY <1>4, <2>1, <2>2 DEF WaitForAttributeValue
<1>5. CASE InAttributeValue
  <2>1. CASE Char # Quote /\ Go("IN_ATTRIBUTE_VALUE") /\ SameSpan
    BY <1>5, <2>1, ValueContinues DEF InAttributeValue
  <2>2. CASE /\ Mark("value_end")
             /\ Deliver("ATTRIBUTE", "WAIT_FOR_ATTRIBUTE_OR_ENDING") /\ SameDepth
    <3>1. In("IN_ATTRIBUTE_VALUE")
      BY <1>5 DEF InAttributeValue
    <3>2. /\ span' \in SpanType /\ span'["value_end"] = position
          /\ \A g \in Spans \ {"value_end"} : span'[g] = span[g]
      BY <2>2, <3>1, ReadFacts, MarkFacts DEF IInv
    <3>3. AttributeInText'
      <4>1. /\ NameMarked /\ span["name_end"] < span["value_start"]
            /\ span["value_start"] < position
            /\ \A n \in span["value_start"] + 1..position : text[n] # Quote
        BY <3>1, ReadFacts DEF IInv, Marked
      <4>2. text' = text /\ position' = position + 1
        BY <2>2 DEF Deliver
      <4>3. \A n \in span'["value_start"] + 1..span'["value_end"] : text'[n] # Quote
        BY <3>2, <4>1, <4>2
      <4> QED
        BY <3>1, <3>2, <4>1, <4>2, <4>3, ReadFacts DEF IInv, NameMarked, AttributeInText
    <3> QED
      BY <2>2, <3>1, <3>2, <3>3, ValueEnd
  <2> QED
    BY <1>5, <2>1, <2>2 DEF InAttributeValue
<1> QED
  BY <1>1, <1>2, <1>3, <1>4, <1>5

LEMMA TextAndEndStep ==
  ASSUME IInv,
         WaitForTextOrTag \/ InText \/ WaitForEndTagName \/ InEndTagName \/ WaitForEnding
  PROVE  IInv'
<1> USE DEF ParserStates, OpenStates, MarkedStates
<1>0. TypeOK /\ depth \in Int /\ (parser_state \in OpenStates => depth > 0)
  BY DEF IInv, TypeOK, DepthNeverWraps
<1>1. CASE WaitForTextOrTag
  BY <1>0, <1>1, GoStep DEF WaitForTextOrTag, In
<1>2. CASE InText
  <2>1. CASE Go("IN_TEXT") /\ SameSpan
    BY <1>0, <1>2, <2>1, GoStep DEF InText, In
  <2>2. CASE Deliver("TEXT", "WAIT_FOR_START_OR_END_TAG") /\ SameDepth /\ SameSpan
    BY <1>0, <1>2, <2>2, ReadFacts, DeliverStep DEF InText, In, SameDepth, SameSpan, Tokens
  <2> QED
    BY <1>2, <2>1, <2>2 DEF InText
<1>3. CASE WaitForEndTagName
  <2>1. In("WAIT_FOR_END_TAG_NAME") /\ parser_state = "WAIT_FOR_END_TAG_NAME" /\ depth > 0
    BY <1>0, <1>3 DEF WaitForEndTagName, In
  <2>2. CASE Go(parser_state) /\ SameSpan
    BY <2>1, <2>2, GoStep
  <2>3. CASE Go("IN_END_TAG_NAME") /\ Mark("tag_start")
    <3>1. TypeOK'
      BY <1>0, <2>1, <2>3, ReadFacts, MarkFacts, GoType DEF Spans
    <3>2. DepthNeverWraps' /\ Marked' /\ SpansInText'
      BY <2>1, <2>3, ReadFacts DEF In, IInv, Go, DepthNeverWraps, Marked, SpansInText
    <3> QED
      BY <3>1, <3>2 DEF IInv
  <2> QED
    BY <1>3, <2>2, <2>3 DEF WaitForEndTagName
<1>4. CASE InEndTagName
  <2>1. In("IN_END_TAG_NAME") /\ depth > 0
    BY <1>0, <1>4 DEF InEndTagName, In
  <2>2. CASE Deliver("TAG_ENDING", "INITIAL") /\ Mark("tag_end") /\ Shallower
    <3>1. span' \in SpanType /\ depth' \in Nat
      BY <1>0, <2>1, <2>2, ReadFacts, MarkFacts DEF Shallower, Spans
    <3> QED
      BY <2>1, <2>2, <3>1, DeliverStep DEF Tokens
  <2> QED
    BY <1>4, <2>1, <2>2, GoStep DEF InEndTagName
<1>5. CASE WaitForEnding
  <2>1. In("WAIT_FOR_ENDING") /\ depth > 0
    BY <1>0, <1>5 DEF WaitForEnding, In
  <2>2. CASE Deliver("TAG_ENDING", "INITIAL") /\ SameSpan /\ Shallower
    <3>1. span' \in SpanType /\ depth' \in Nat
      BY <1>0, <2>1, <2>2, ReadFacts DEF Shallower, SameSpan
    <3> QED
      BY <2>1, <2>2, <3>1, DeliverStep DEF Tokens
  <2> QED
    BY <1>5, <2>1, <2>2, GoStep DEF WaitForEnding
<1> QED
  BY <1>1, <1>2, <1>3, <1>4, <1>5

LEMMA CommentStep ==
  ASSUME IInv, BeginCommentTag \/ BeginComment \/ InComment \/ EndCommentTag
  PROVE  IInv'
<1> USE DEF ParserStates, OpenStates, MarkedStates
<1>1. CASE BeginCommentTag
  BY <1>1, GoStep, GoTwoStep DEF BeginCommentTag, In
<1>2. CASE BeginComment
  BY <1>2, GoStep DEF BeginComment
<1>3. CASE InComment
  BY <1>3, GoStep DEF InComment
<1>4. CASE EndCommentTag
  <2>1. In("END_COMMENT_TAG") /\ SameSpan
    BY <1>4 DEF EndCommentTag
  <2>2. CASE /\ CommentEnds
             /\ parser_state' = "INITIAL" /\ position' = position + 2
             /\ token' = "COMMENT" /\ pc' = "caller" /\ seen' = seen + 1
             /\ SameDepth /\ UNCHANGED <<text, meaning>>
    <3>1. IsText(text)'
      BY <2>2 DEF IInv, TypeOK
    <3>2. TypeOK'
      BY <2>1, <2>2, <3>1, ReadFacts
      DEF IInv, TypeOK, SameDepth, SameSpan, SpanType, CommentEnds, Followed, Tokens
    <3>3. DepthNeverWraps' /\ Marked' /\ SpansInText'
      BY <2>2 DEF IInv, SameDepth, DepthNeverWraps, Marked, SpansInText
    <3> QED
      BY <3>2, <3>3 DEF IInv
  <2> QED
    BY <1>4, <2>1, <2>2, GoStep, GoTwoStep DEF EndCommentTag
<1> QED
  BY <1>1, <1>2, <1>3, <1>4
-------------------------------------------------------------------------------
\* The steps of the caller and the end of the text move nothing.
LEMMA CallerStep ==
  ASSUME IInv, EndOfText \/ NextToken \/ NoToken \/ Done \/ UNCHANGED vars
  PROVE  IInv'
<1>1. /\ UNCHANGED <<text, position, parser_state, depth, span, seen>>
      /\ token' \in Tokens /\ pc' \in {"scan", "caller", "done"}
      /\ (pc' = "caller" => token' = "NONE" \/ (pc = "caller" /\ token' = token))
  BY DEF IInv, TypeOK, Tokens, EndOfText, NextToken, NoToken, Done, vars
<1>2. TypeOK'
  <2>1. IsText(text)'
    BY <1>1 DEF IInv, TypeOK
  <2> QED
    BY <1>1, <2>1 DEF IInv, TypeOK
<1>3. DepthNeverWraps' /\ Marked'
  BY <1>1 DEF IInv, DepthNeverWraps, Marked, NameMarked
<1>4. SpansInText'
  BY <1>1 DEF IInv, SpansInText, TagInText, AttributeInText
<1> QED
  BY <1>2, <1>3, <1>4 DEF IInv

LEMMA NextInv == IInv /\ [Next]_vars => IInv'
<1> SUFFICES ASSUME IInv, [Next]_vars PROVE IInv'
  OBVIOUS
<1>1. CASE ReadChar
  BY <1>1, OpeningStep, AttributeStep, TextAndEndStep, CommentStep DEF ReadChar
<1>2. CASE EndOfText \/ NextToken \/ NoToken \/ Done \/ UNCHANGED vars
  BY <1>2, CallerStep
<1> QED
  BY <1>1, <1>2 DEF Next, GetToken

LEMMA Invariance == Spec => []IInv
BY InitInv, NextInv, PTL DEF Spec

(***************************************************************************)
(* For every text, the depth of xmlGetToken never wraps: an end of a tag   *)
(* is only accepted while one is open.                                     *)
(***************************************************************************)
THEOREM DepthSafe == Spec => []DepthNeverWraps
<1>1. IInv => DepthNeverWraps
  BY DEF IInv
<1> QED
  BY <1>1, Invariance, PTL

(***************************************************************************)
(* For every text, the name and value that xmlIsTag, xmlIsAttribute and    *)
(* xmlGetAttributeValue look at after a token lie before the reader, are   *)
(* set by this reader, and a value holds no quote.                         *)
(***************************************************************************)
THEOREM SpansSafe == Spec => []SpansInText
<1>1. IInv => SpansInText
  BY DEF IInv
<1> QED
  BY <1>1, Invariance, PTL
-------------------------------------------------------------------------------
(***************************************************************************)
(* Where the reader of a document stands: text may be a document of which  *)
(* the end is missing.  Token k, at place x, is the next one, and could    *)
(* come from offset p on, with `open' elements open; the reader is in      *)
(* state s at offset n.                                                    *)
(***************************************************************************)
Spot(t, p, where, k, x, open, s, n, sp) ==
  /\ s \in ParserStates
  /\ s = "INITIAL" => where = "between" /\ p <= n /\ n < x.at
  /\ s = "WAIT_FOR_TEXT_OR_TAG" =>
       where = "content" /\ p <= n /\ n <= x.at /\ (n = x.at => TextAt(t, k, x, open))
  /\ s = "IN_TEXT" => TextAt(t, k, x, open) /\ x.at < n /\ n <= x.end
  /\ s = "WAIT_FOR_TAG_NAME" => open = 0 /\ Markup(t, k, x, open) /\ n = x.at
  /\ s = "WAIT_FOR_START_OR_END_TAG" => 0 < open /\ Markup(t, k, x, open) /\ n = x.at
  /\ s = "IN_TAG_NAME" =>
       StartTag(t, k, x, open) /\ x.at < n /\ n <= x.end /\ sp["tag_start"] = x.at
  /\ s = "WAIT_FOR_END_TAG_NAME" => EndTag(t, k, x, open) /\ n = x.at + 1
  /\ s = "IN_END_TAG_NAME" => EndTag(t, k, x, open) /\ x.at + 1 < n /\ n <= x.end
  /\ s = "WAIT_FOR_ENDING" => EmptyTagEnd(t, k, x, open) /\ n = x.end
  /\ s = "WAIT_FOR_ATTRIBUTE_OR_ENDING" => where = "attributes" /\ p <= n /\ n <= x.at
  /\ s = "IN_ATTRIBUTE_NAME" =>
       AttributeAt(t, k, x, open) /\ x.at < n /\ n <= x.eq /\ sp["name_start"] = x.at
  /\ s \in {"WAIT_FOR_ATTRIBUTE_VALUE_QUOTE", "WAIT_FOR_ATTRIBUTE_VALUE", "IN_ATTRIBUTE_VALUE"} =>
       AttributeAt(t, k, x, open) /\ sp["name_start"] = x.at /\ sp["name_end"] = x.eq
  /\ s = "WAIT_FOR_ATTRIBUTE_VALUE_QUOTE" => n = x.eq + 1
  /\ s = "WAIT_FOR_ATTRIBUTE_VALUE" => n = x.eq + 2
  /\ s = "IN_ATTRIBUTE_VALUE" => x.eq + 2 < n /\ n <= x.end /\ sp["value_start"] = x.eq + 2
  /\ s \in {"BEGIN_COMMENT_TAG", "BEGIN_COMMENT", "IN_COMMENT", "END_COMMENT_TAG"} =>
       CommentTag(t, k, x, open)
  /\ s = "BEGIN_COMMENT_TAG" => n = x.at + 1
  /\ s = "BEGIN_COMMENT" => n = x.at + 3
  /\ s = "IN_COMMENT" => x.at + 3 < n /\ n < x.end - 1
  /\ s = "END_COMMENT_TAG" => x.at + 4 < n /\ n < x.end /\ At(t, n - 1) = "-"

NextSpot(d, s, n, sp) ==
  Spot(d.text, Offset(d, seen), Where(d, seen), d.tokens[seen + 1], d.places[seen + 1],
       Open(d, seen), s, n, sp)

Standing(d) ==
  /\ depth = Open(d, seen) /\ seen <= Len(d.tokens)
  /\ seen < Len(d.tokens) => NextSpot(d, parser_state, position, span)
  /\ seen = Len(d.tokens) =>
       parser_state = "INITIAL" /\ Offset(d, seen) <= position /\ position <= Len(d.text)

\* Two characters at once have taken the reader past the end that was cut off.
PastCut(d) == Len(text) < position /\ Len(text) < Len(d.text) /\ seen <= Len(d.tokens)

StartOf(d) ==
  /\ Written(d) /\ IsText(text) /\ Len(text) <= Len(d.text)
  /\ \A n \in 1..Len(text) : text[n] = d.text[n]

Told(d) ==
  pc = "caller" =>
    IF token # "NONE" THEN seen <= Len(d.tokens) /\ d.tokens[seen] = Returned
    ELSE Len(text) = Len(d.text) =>
           seen = Len(d.tokens) /\ depth = 0 /\ parser_state = "INITIAL"

Follows(d) == StartOf(d) /\ (Standing(d) \/ PastCut(d)) /\ Told(d)

\* What a step in the middle of a token can use.
LEMMA SpotFacts ==
  ASSUME NEW d, StartOf(d), Standing(d), TypeOK, pc = "scan", More
  PROVE  /\ seen \in Nat /\ position \in Nat /\ position + 1 \in 1..Len(text)
         /\ Len(d.tokens) \in Nat /\ Len(d.text) \in Nat /\ Len(text) <= Len(d.text)
         /\ Char = At(d.text, position) /\ depth = Open(d, seen)
         /\ (parser_state # "INITIAL" => seen < Len(d.tokens))
<1>1. seen \in Nat /\ position \in Nat /\ position < Len(text) /\ Len(text) \in Nat
  BY DEF TypeOK, More, IsText
<1>2. Len(d.tokens) \in Nat /\ Len(d.text) \in Nat /\ Len(text) <= Len(d.text)
  BY DEF StartOf, Written, IsText
<1>3. position + 1 \in 1..Len(text)
  BY <1>1
<1>4. Char = At(d.text, position)
  BY <1>3 DEF StartOf, Char, At
<1> QED
  BY <1>1, <1>2, <1>3, <1>4 DEF Standing

LEMMA PlaceFacts ==
  ASSUME NEW d, Written(d), NEW j \in Nat, j < Len(d.tokens)
  PROVE  LET x == d.places[j + 1] IN
         /\ x.at \in Nat /\ x.end \in 0..Len(d.text) - 1 /\ x.eq \in Nat /\ x.open \in Nat
         /\ Comes(d.text, Offset(d, j), Where(d, j), d.tokens[j + 1], x, Open(d, j))
<1>1. Len(d.tokens) \in Nat
  BY DEF Written, IsText
<1>2. j + 1 \in 1..Len(d.tokens) /\ (j + 1) - 1 = j
  BY <1>1
<1> QED
  BY <1>2 DEF Written

LEMMA OffsetFacts ==
  ASSUME NEW d, Written(d), NEW j \in 0..Len(d.tokens)
  PROVE  Offset(d, j) \in 0..Len(d.text) /\ Open(d, j) \in Nat
<1>1. Len(d.tokens) \in Nat /\ Len(d.text) \in Nat
  BY DEF Written, IsText
<1>2. CASE j = 0
  BY <1>1, <1>2 DEF Offset, Open
<1>3. CASE j # 0
  <2>1. j \in 1..Len(d.tokens)
    BY <1>1, <1>3
  <2>2. d.places[j].end \in 0..Len(d.text) - 1 /\ d.places[j].open \in Nat
    BY <2>1 DEF Written
  <2> QED
    BY <1>1, <1>3, <2>2 DEF Offset, Open
<1> QED
  BY <1>2, <1>3

\* The state in which a token leaves the reader.
StateAt(where) ==
  CASE where = "between" -> "INITIAL" [] where = "content" -> "WAIT_FOR_TEXT_OR_TAG"
    [] where = "markup" -> "WAIT_FOR_START_OR_END_TAG"
    [] where = "attributes" -> "WAIT_FOR_ATTRIBUTE_OR_ENDING"
    [] where = "closing" -> "WAIT_FOR_ENDING"

Wheres == {"between", "content", "markup", "attributes", "closing"}

LEMMA WhereFacts ==
  ASSUME NEW d, NEW j
  PROVE  Where(d, j) \in Wheres
BY DEF Where, Wheres

LEMMA FirstSpot ==
  ASSUME NEW t, NEW p \in Nat, NEW where \in Wheres, NEW k, NEW x, NEW open, NEW sp,
         x.at \in Nat, x.end \in Nat, Comes(t, p, where, k, x, open)
  PROVE  Spot(t, p, where, k, x, open, StateAt(where), p, sp)
<1>1. CASE where = "between"
  BY <1>1 DEF Comes, StateAt, Spot, ParserStates
<1>2. CASE where = "content"
  <2>1. \/ p < x.at
        \/ p <= x.at /\ TextAt(t, k, x, open)
    BY <1>2 DEF Comes
  <2> QED
    BY <1>2, <2>1 DEF StateAt, Spot, ParserStates
<1>3. CASE where = "markup"
  BY <1>3 DEF Comes, StateAt, Spot, ParserStates
<1>4. CASE where = "attributes"
  BY <1>4 DEF Comes, StateAt, Spot, ParserStates
<1>5. CASE where = "closing"
  BY <1>5 DEF Comes, StateAt, Spot, ParserStates
<1> QED
  BY <1>1, <1>2, <1>3, <1>4, <1>5 DEF Wheres

LEMMA SameStart ==
  ASSUME NEW d, StartOf(d), UNCHANGED text
  PROVE  StartOf(d)'
BY DEF StartOf

\* A character that is no end of a token.
LEMMA GoOnSpot ==
  ASSUME NEW d, StartOf(d), Standing(d), TypeOK, NEW r, In(r), NEW s, Go(s),
         seen < Len(d.tokens), NextSpot(d, s, position + 1, span')
  PROVE  Follows(d)'
<1>1. /\ parser_state' = s /\ position' = position + 1
      /\ UNCHANGED <<text, meaning, depth, token, pc, seen>> /\ pc = "scan"
  BY DEF Go, In
<1>2. StartOf(d)' /\ Told(d)'
  BY <1>1, SameStart DEF Told
<1>3. seen \in Nat /\ Len(d.tokens) \in Nat
  BY SpotFacts DEF In
<1>4. Standing(d)'
  BY <1>1, <1>3 DEF Standing, NextSpot
<1> QED
  BY <1>2, <1>4 DEF Follows

\* The two characters in a comment.
LEMMA GoTwoSpot ==
  ASSUME NEW d, StartOf(d), Standing(d), TypeOK, NEW r, In(r), NEW s, GoTwo(s),
         seen < Len(d.tokens), NextSpot(d, s, position + 2, span') \/ ~Followed,
         position + 1 < Len(d.text)
  PROVE  Follows(d)'
<1>1. /\ parser_state' = s /\ position' = position + 2
      /\ UNCHANGED <<text, meaning, depth, token, pc, seen>> /\ pc = "scan"
  BY DEF GoTwo, In
<1>2. StartOf(d)' /\ Told(d)'
  BY <1>1, SameStart DEF Told
<1>3. /\ seen \in Nat /\ Len(d.tokens) \in Nat /\ position + 1 \in 1..Len(text) /\ position \in Nat
      /\ Len(text) \in Nat /\ Len(d.text) \in Nat /\ Len(text) <= Len(d.text)
  BY SpotFacts DEF In, TypeOK, IsText
<1>4. CASE NextSpot(d, s, position + 2, span')
  <2>1. Standing(d)'
    BY <1>1, <1>3, <1>4 DEF Standing, NextSpot
  <2> QED
    BY <1>2, <2>1 DEF Follows
<1>5. CASE ~Followed
  <2>1. Len(text) < position + 2 /\ Len(text) < Len(d.text)
    BY <1>3, <1>5 DEF Followed
  <2>2. PastCut(d)'
    BY <1>1, <1>3, <2>1 DEF PastCut
  <2> QED
    BY <1>2, <2>2 DEF Follows
<1> QED
  BY <1>4, <1>5

\* The end of a token.
LEMMA TokenSpot ==
  ASSUME NEW d, StartOf(d), Standing(d), TypeOK, NEW r, In(r), seen < Len(d.tokens),
         parser_state' = StateAt(Where(d, seen + 1)), position' = Offset(d, seen + 1),
         depth' = Open(d, seen + 1), seen' = seen + 1, token' # "NONE",
         UNCHANGED <<text, meaning>>, d.tokens[seen + 1] = Returned'
  PROVE  Follows(d)'
<1> DEFINE j == seen + 1
           n == Len(d.tokens)
<1>1. seen \in Nat /\ n \in Nat /\ j \in 0..n /\ j \in Nat
  BY SpotFacts DEF In
<1>2. StartOf(d)' /\ Written(d)
  BY SameStart DEF StartOf
<1>3. Told(d)'
  BY <1>1 DEF Told
<1>4. CASE j < n
  <2>1. /\ Comes(d.text, Offset(d, j), Where(d, j), d.tokens[j + 1], d.places[j + 1], Open(d, j))
        /\ d.places[j + 1].at \in Nat /\ d.places[j + 1].end \in Nat
    BY <1>1, <1>2, <1>4, PlaceFacts
  <2>2. Offset(d, j) \in Nat /\ Where(d, j) \in Wheres
    BY <1>1, <1>2, OffsetFacts, WhereFacts
  <2> HIDE DEF j
  <2>3. Spot(d.text, Offset(d, j), Where(d, j), d.tokens[j + 1], d.places[j + 1], Open(d, j),
             StateAt(Where(d, j)), Offset(d, j), span')
    BY <2>1, <2>2, FirstSpot
  <2>4. Standing(d)'
    BY <1>1, <1>4, <2>3 DEF Standing, NextSpot, j
  <2> QED
    BY <1>2, <1>3, <2>4 DEF Follows
<1>5. CASE j = n
  <2>1. Where(d, j) = "between" /\ Offset(d, j) \in 0..Len(d.text)
    BY <1>1, <1>2, <1>5, OffsetFacts DEF Written
  <2>2. StateAt(Where(d, j)) = "INITIAL" /\ Offset(d, j) <= Len(d.text) /\ Offset(d, j) <= Offset(d, j)
    BY <2>1 DEF StateAt, Written, IsText
  <2>3. Standing(d)'
    BY <1>1, <1>5, <2>2 DEF Standing
  <2> QED
    BY <1>2, <1>3, <2>3 DEF Follows
<1> QED
  BY <1>1, <1>4, <1>5

LEMMA SliceIs ==
  ASSUME NEW t, IsText(t), NEW a \in Nat, NEW b \in Nat
  PROVE  SubSeq(t, a + 1, b) =
           [n \in 1..IF a + 1 <= b THEN b - (a + 1) + 1 ELSE 0 |-> t[n + (a + 1) - 1]]
BY DEF IsText

LEMMA SliceOfStart ==
  ASSUME NEW d, StartOf(d), NEW a \in Nat, NEW b \in Nat, b <= Len(text)
  PROVE  SubSeq(text, a + 1, b) = SubSeq(d.text, a + 1, b)
<1>1. Len(text) \in Nat /\ Len(d.text) \in Nat /\ Len(text) <= Len(d.text)
  BY DEF StartOf, Written, IsText
<1>2. SubSeq(text, a + 1, b) =
        [n \in 1..IF a + 1 <= b THEN b - (a + 1) + 1 ELSE 0 |-> text[n + (a + 1) - 1]]
  <2>1. IsText(text)
    BY DEF StartOf
  <2> QED
    BY ONLY <2>1, a \in Nat, b \in Nat DEF IsText
<1>3. SubSeq(d.text, a + 1, b) =
        [n \in 1..IF a + 1 <= b THEN b - (a + 1) + 1 ELSE 0 |-> d.text[n + (a + 1) - 1]]
  BY SliceIs DEF StartOf, Written
<1>4. \A n \in 1..Len(text) : text[n] = d.text[n]
  BY DEF StartOf
<1> QED
  BY <1>1, <1>2, <1>3, <1>4

(***************************************************************************)
(* One lemma for the states between tags, and one for each kind of token.  *)
(***************************************************************************)
LEMMA SpotNow ==
  ASSUME NEW d, StartOf(d), Standing(d), TypeOK, NEW s, In(s), seen < Len(d.tokens)
  PROVE  LET t == d.text
             k == d.tokens[seen + 1]
             x == d.places[seen + 1]
             w == Where(d, seen)
             p == Offset(d, seen)
         IN /\ Spot(t, p, w, k, x, depth, s, position, span)
            /\ Comes(t, p, w, k, x, depth)
            /\ x.at \in Nat /\ x.end \in Nat /\ x.eq \in Nat /\ x.open \in Nat /\ x.end < Len(t)
            /\ Len(t) \in Nat /\ p \in Nat /\ depth \in Nat /\ w \in Wheres
            /\ seen \in Nat /\ position \in Nat /\ position < Len(t) /\ Char = At(t, position)
            /\ Offset(d, seen + 1) = x.end + 1 /\ Open(d, seen + 1) = x.open
            /\ span \in SpanType
<1>1. parser_state = s /\ pc = "scan" /\ More /\ span \in SpanType
  BY ReadFacts DEF In
<1>2. /\ seen \in Nat /\ position \in Nat /\ position + 1 \in 1..Len(text) /\ Len(d.tokens) \in Nat
      /\ Len(d.text) \in Nat /\ Len(text) <= Len(d.text) /\ Char = At(d.text, position)
      /\ depth = Open(d, seen)
  BY <1>1, SpotFacts
<1>3. Written(d) /\ seen \in 0..Len(d.tokens) /\ Len(text) \in Nat
  BY <1>2 DEF StartOf, TypeOK, IsText
<1>4. Offset(d, seen) \in 0..Len(d.text) /\ Open(d, seen) \in Nat /\ Where(d, seen) \in Wheres
  BY <1>3, OffsetFacts, WhereFacts
<1>5. LET x == d.places[seen + 1] IN
      /\ x.at \in Nat /\ x.end \in 0..Len(d.text) - 1 /\ x.eq \in Nat /\ x.open \in Nat
      /\ Comes(d.text, Offset(d, seen), Where(d, seen), d.tokens[seen + 1], x, Open(d, seen))
  BY <1>2, <1>3, PlaceFacts
<1>6. Offset(d, seen + 1) = d.places[seen + 1].end + 1 /\ Open(d, seen + 1) = d.places[seen + 1].open
  BY <1>2 DEF Offset, Open
<1>7. Spot(d.text, Offset(d, seen), Where(d, seen), d.tokens[seen + 1], d.places[seen + 1], depth,
           s, position, span)
  BY <1>1, <1>2 DEF Standing, NextSpot
<1>8. position < Len(d.text) /\ d.places[seen + 1].end \in Nat /\ d.places[seen + 1].end < Len(d.text)
  <2>1. position < Len(d.text)
    BY ONLY <1>2, <1>3
  <2>2. d.places[seen + 1].end \in 0..Len(d.text) - 1
    BY <1>5
  <2>3. Len(d.text) \in Nat
    BY <1>2
  <2> QED
    BY ONLY <2>1, <2>2, <2>3
<1>9. depth \in Nat /\ Offset(d, seen) \in Nat
  BY <1>2, <1>4
<1>10. Comes(d.text, Offset(d, seen), Where(d, seen), d.tokens[seen + 1], d.places[seen + 1], depth)
  BY <1>2, <1>5
<1> QED
  BY <1>1, <1>2, <1>4, <1>5, <1>6, <1>7, <1>8, <1>9, <1>10

LEMMA TagNameSpot ==
  ASSUME NEW d, StartOf(d), Standing(d), TypeOK, InTagName
  PROVE  Follows(d)'
<1> DEFINE t == d.text
           k == d.tokens[seen + 1]
           x == d.places[seen + 1]
           w == Where(d, seen)
           p == Offset(d, seen)
           n == position
<1>1. In("IN_TAG_NAME") /\ seen < Len(d.tokens)
  BY SpotFacts DEF InTagName, In
<1>2. /\ Spot(t, p, w, k, x, depth, "IN_TAG_NAME", n, span)
      /\ x.at \in Nat /\ x.end \in Nat /\ n \in Nat /\ Char = At(t, n) /\ depth = Open(d, seen)
      /\ Offset(d, seen + 1) = x.end + 1 /\ Open(d, seen + 1) = x.open /\ seen \in Nat
      /\ span \in SpanType /\ depth \in Nat
  BY <1>1, SpotNow, SpotFacts DEF In
<1>3. StartTag(t, k, x, depth) /\ x.at < n /\ n <= x.end /\ span["tag_start"] = x.at
  BY <1>2 DEF Spot
<1>4. CASE n < x.end
  <2>1. Char \in Alpha \cup Digit
    <3>1. n \in x.at + 1..x.end - 1
      BY <1>2, <1>3, <1>4
    <3> QED
      BY <1>2, <1>3, <3>1 DEF StartTag, Only
  <2>2. Go("IN_TAG_NAME") /\ SameSpan
    BY <2>1, CharacterAssumption DEF InTagName, TagNameEnd, Marks
  <2>3. Spot(t, p, w, k, x, depth, "IN_TAG_NAME", n + 1, span')
    BY <1>2, <1>3, <1>4, <2>2 DEF Spot, SameSpan, ParserStates
  <2> QED
    BY <1>1, <1>2, <2>2, <2>3, GoOnSpot DEF NextSpot
<1>5. CASE n = x.end
  <2>1. Char \in Space \cup {">", "/"}
    BY <1>2, <1>3, <1>5 DEF StartTag
  <2>2. TagNameEnd
    BY <2>1, CharacterAssumption DEF InTagName, Marks
  <2>3. /\ position' = n + 1 /\ token' = "TAG" /\ seen' = seen + 1 /\ depth' = depth + 1
        /\ UNCHANGED <<text, meaning>> /\ Mark("tag_end")
        /\ parser_state' = IF Char = ">" THEN "WAIT_FOR_TEXT_OR_TAG"
                           ELSE IF Char = "/" THEN "WAIT_FOR_ENDING"
                           ELSE "WAIT_FOR_ATTRIBUTE_OR_ENDING"
    BY <2>2 DEF TagNameEnd, Deliver, Deeper
  <2>4. k = [kind |-> "TAG", name |-> SubSeq(t, x.at + 1, x.end)] /\ x.open = depth + 1
    BY <1>3 DEF StartTag
  <2>5. parser_state' = StateAt(Where(d, seen + 1))
    <3>1. seen + 1 # 0 /\ k.kind = "TAG" /\ Char = At(t, x.end)
      BY <1>2, <1>5, <2>4
    <3> QED
      BY <2>3, <3>1 DEF Where, StateAt
  <2>6. Returned' = k
    <3>1. span'["tag_start"] = x.at /\ span'["tag_end"] = x.end
      BY <1>2, <1>3, <1>5, <2>3, MarkFacts DEF Spans
    <3>2. IsText(text) /\ IsText(t) /\ Len(text) <= Len(t) /\ x.end <= Len(text)
      BY <1>1, <1>2, <1>5, SpotFacts, ReadFacts DEF StartOf, Written
    <3>3. SubSeq(text, x.at + 1, x.end) = SubSeq(t, x.at + 1, x.end)
      BY <1>2, <3>2, SliceOfStart
    <3> QED
      BY <2>3, <2>4, <3>1, <3>3 DEF Returned, Slice
  <2> QED
    BY <1>1, <1>2, <1>5, <2>3, <2>4, <2>5, <2>6, TokenSpot
<1> QED
  BY <1>2, <1>3, <1>4, <1>5

\* All tokens have been returned, and what is left are blanks.
LEMMA BlankAtEnd ==
  ASSUME NEW d, StartOf(d), Standing(d), TypeOK, Initial, seen = Len(d.tokens)
  PROVE  Follows(d)'
<1>1. In("INITIAL") /\ pc = "scan"
  BY DEF Initial, In
<1>2. /\ seen \in Nat /\ position \in Nat /\ position + 1 \in 1..Len(text) /\ Len(text) <= Len(d.text)
      /\ Len(text) \in Nat /\ Len(d.text) \in Nat /\ Char = At(d.text, position)
  BY <1>1, SpotFacts DEF In, TypeOK, IsText
<1>3. Offset(d, seen) <= position /\ Offset(d, seen) \in Nat
  BY <1>2, OffsetFacts DEF Standing, StartOf
<1>4. Char \in Space
  <2>1. position \in Offset(d, seen)..Len(d.text) - 1
    BY <1>2, <1>3
  <2> QED
    BY <1>2, <2>1 DEF StartOf, Written, Only
<1>5. Go("INITIAL")
  BY <1>4, CharacterAssumption DEF Initial, Marks
<1>6. StartOf(d)' /\ Told(d)' /\ Standing(d)'
  <2>1. /\ parser_state' = "INITIAL" /\ position' = position + 1
        /\ UNCHANGED <<text, depth, seen, pc>>
    BY <1>5 DEF Go
  <2> QED
    BY <1>1, <1>2, <1>3, <2>1, SameStart DEF Standing, Told
<1> QED
  BY <1>6 DEF Follows

LEMMA InitialSpot ==
  ASSUME NEW d, StartOf(d), Standing(d), TypeOK, Initial, seen < Len(d.tokens)
  PROVE  Follows(d)'
<1> DEFINE t == d.text
           k == d.tokens[seen + 1]
           x == d.places[seen + 1]
           w == Where(d, seen)
           p == Offset(d, seen)
           n == position
<1>1. In("INITIAL") /\ seen < Len(d.tokens)
  BY SpotFacts DEF Initial, In
<1>2. /\ Spot(t, p, w, k, x, depth, "INITIAL", n, span) /\ Comes(t, p, w, k, x, depth)
      /\ x.at \in Nat /\ x.end \in Nat /\ x.eq \in Nat /\ n \in Nat /\ Char = At(t, n)
      /\ depth = Open(d, seen) /\ depth \in Nat /\ p \in Nat /\ seen \in Nat /\ span \in SpanType
      /\ Offset(d, seen + 1) = x.end + 1 /\ Open(d, seen + 1) = x.open
  BY <1>1, SpotNow, SpotFacts DEF In
<1>3. w = "between" /\ p <= n /\ n < x.at
  BY <1>2 DEF Spot
<1>4. Only(t, p, x.at - 1, Space) /\ At(t, x.at - 1) = "<" /\ Markup(t, k, x, depth)
  BY <1>2, <1>3 DEF Comes
<1>5. CASE n < x.at - 1
  <2>1. Char \in Space
    <3>1. n \in p..(x.at - 1) - 1
      BY <1>2, <1>3, <1>5
    <3> QED
      BY <1>2, <1>4, <3>1 DEF Only
  <2>2. Go("INITIAL") /\ SameSpan
    BY <2>1, CharacterAssumption DEF Initial, Marks
  <2>3. Spot(t, p, w, k, x, depth, "INITIAL", n + 1, span')
    <3>1. n + 1 < x.at /\ p <= n + 1
      BY ONLY <1>2, <1>3, <1>5
    <3> QED
      BY <1>3, <3>1 DEF Spot, ParserStates
  <2> QED
    BY <1>1, <1>2, <2>2, <2>3, GoOnSpot DEF NextSpot
<1>6. CASE n = x.at - 1
  <2>1. Char = "<"
    BY <1>2, <1>4, <1>6
  <2>2. Go(AfterOpening) /\ SameSpan
    BY <2>1, CharacterAssumption DEF Initial, Marks
  <2>3. Spot(t, p, w, k, x, depth, AfterOpening, n + 1, span')
    <3>1. n + 1 = x.at
      BY <1>2, <1>6
    <3>2. CASE depth = 0
      BY <1>4, <3>1, <3>2 DEF Spot, ParserStates, AfterOpening
    <3>3. CASE depth # 0
      <4>1. 0 < depth
        BY <1>2, <3>3
      <4> QED
        BY <1>4, <3>1, <3>3, <4>1 DEF Spot, ParserStates, AfterOpening
    <3> QED
      BY <3>2, <3>3
  <2> QED
    BY <1>1, <1>2, <2>2, <2>3, GoOnSpot DEF NextSpot
<1>7. n < x.at - 1 \/ n = x.at - 1
  BY ONLY <1>2, <1>3
<1> QED
  BY <1>5, <1>6, <1>7

LEMMA TagNameStartSpot ==
  ASSUME NEW d, StartOf(d), Standing(d), TypeOK, WaitForTagName
  PROVE  Follows(d)'
<1> DEFINE t == d.text
           k == d.tokens[seen + 1]
           x == d.places[seen + 1]
           w == Where(d, seen)
           p == Offset(d, seen)
           n == position
<1>1. In("WAIT_FOR_TAG_NAME") /\ seen < Len(d.tokens)
  BY SpotFacts DEF WaitForTagName, In
<1>2. /\ Spot(t, p, w, k, x, depth, "WAIT_FOR_TAG_NAME", n, span) /\ Comes(t, p, w, k, x, depth)
      /\ x.at \in Nat /\ x.end \in Nat /\ x.eq \in Nat /\ n \in Nat /\ Char = At(t, n)
      /\ depth = Open(d, seen) /\ depth \in Nat /\ p \in Nat /\ seen \in Nat /\ span \in SpanType
      /\ Offset(d, seen + 1) = x.end + 1 /\ Open(d, seen + 1) = x.open
  BY <1>1, SpotNow, SpotFacts DEF In
<1>3. depth = 0 /\ Markup(t, k, x, depth) /\ n = x.at
  BY <1>2 DEF Spot
<1>4. CASE StartTag(t, k, x, depth)
  <2>1. Char \in Alpha \cup {"?"} /\ x.at < x.end
    BY <1>2, <1>3, <1>4 DEF StartTag
  <2>2. Go("IN_TAG_NAME") /\ Mark("tag_start")
    BY <2>1, CharacterAssumption DEF WaitForTagName, Marks
  <2>3. Spot(t, p, w, k, x, depth, "IN_TAG_NAME", n + 1, span')
    BY <1>2, <1>3, <1>4, <2>1, <2>2, MarkFacts DEF Spot, ParserStates, Spans
  <2> QED
    BY <1>1, <1>2, <2>2, <2>3, GoOnSpot DEF NextSpot
<1>5. CASE CommentTag(t, k, x, depth)
  <2>1. Char = "!"
    BY <1>2, <1>3, <1>5 DEF CommentTag
  <2>2. Go("BEGIN_COMMENT_TAG")
    BY <2>1, CharacterAssumption DEF WaitForTagName, Marks
  <2>3. Spot(t, p, w, k, x, depth, "BEGIN_COMMENT_TAG", n + 1, span')
    BY <1>2, <1>3, <1>5 DEF Spot, ParserStates
  <2> QED
    BY <1>1, <1>2, <2>2, <2>3, GoOnSpot DEF NextSpot
<1> QED
  BY <1>3, <1>4, <1>5 DEF Markup, EndTag

LEMMA MarkupSpot ==
  ASSUME NEW d, StartOf(d), Standing(d), TypeOK, WaitForStartOrEndTag
  PROVE  Follows(d)'
<1> DEFINE t == d.text
           k == d.tokens[seen + 1]
           x == d.places[seen + 1]
           w == Where(d, seen)
           p == Offset(d, seen)
           n == position
<1>1. In("WAIT_FOR_START_OR_END_TAG") /\ seen < Len(d.tokens)
  BY SpotFacts DEF WaitForStartOrEndTag, In
<1>2. /\ Spot(t, p, w, k, x, depth, "WAIT_FOR_START_OR_END_TAG", n, span) /\ Comes(t, p, w, k, x, depth)
      /\ x.at \in Nat /\ x.end \in Nat /\ x.eq \in Nat /\ n \in Nat /\ Char = At(t, n)
      /\ depth = Open(d, seen) /\ depth \in Nat /\ p \in Nat /\ seen \in Nat /\ span \in SpanType
      /\ Offset(d, seen + 1) = x.end + 1 /\ Open(d, seen + 1) = x.open
  BY <1>1, SpotNow, SpotFacts DEF In
<1>3. 0 < depth /\ Markup(t, k, x, depth) /\ n = x.at
  BY <1>2 DEF Spot
<1>4. CASE StartTag(t, k, x, depth)
  <2>1. Char \in Alpha /\ x.at < x.end
    BY <1>2, <1>3, <1>4 DEF StartTag
  <2>2. Go("IN_TAG_NAME") /\ Mark("tag_start")
    BY <2>1 DEF WaitForStartOrEndTag
  <2>3. Spot(t, p, w, k, x, depth, "IN_TAG_NAME", n + 1, span')
    BY <1>2, <1>3, <1>4, <2>1, <2>2, MarkFacts DEF Spot, ParserStates, Spans
  <2> QED
    BY <1>1, <1>2, <2>2, <2>3, GoOnSpot DEF NextSpot
<1>5. CASE EndTag(t, k, x, depth)
  <2>1. Char = "/"
    BY <1>2, <1>3, <1>5 DEF EndTag
  <2>2. Go("WAIT_FOR_END_TAG_NAME")
    BY <2>1, CharacterAssumption DEF WaitForStartOrEndTag, Marks
  <2>3. Spot(t, p, w, k, x, depth, "WAIT_FOR_END_TAG_NAME", n + 1, span')
    BY <1>2, <1>3, <1>5 DEF Spot, ParserStates
  <2> QED
    BY <1>1, <1>2, <2>2, <2>3, GoOnSpot DEF NextSpot
<1>6. CASE CommentTag(t, k, x, depth)
  <2>1. Char = "!"
    BY <1>2, <1>3, <1>6 DEF CommentTag
  <2>2. Go("BEGIN_COMMENT_TAG")
    BY <2>1, CharacterAssumption DEF WaitForStartOrEndTag, Marks
  <2>3. Spot(t, p, w, k, x, depth, "BEGIN_COMMENT_TAG", n + 1, span')
    BY <1>2, <1>3, <1>6 DEF Spot, ParserStates
  <2> QED
    BY <1>1, <1>2, <2>2, <2>3, GoOnSpot DEF NextSpot
<1> QED
  BY <1>3, <1>4, <1>5, <1>6 DEF Markup

LEMMA EndTagNameSpot ==
  ASSUME NEW d, StartOf(d), Standing(d), TypeOK, WaitForEndTagName
  PROVE  Follows(d)'
<1> DEFINE t == d.text
           k == d.tokens[seen + 1]
           x == d.places[seen + 1]
           w == Where(d, seen)
           p == Offset(d, seen)
           n == position
<1>1. In("WAIT_FOR_END_TAG_NAME") /\ seen < Len(d.tokens)
  BY SpotFacts DEF WaitForEndTagName, In
<1>2. /\ Spot(t, p, w, k, x, depth, "WAIT_FOR_END_TAG_NAME", n, span) /\ Comes(t, p, w, k, x, depth)
      /\ x.at \in Nat /\ x.end \in Nat /\ x.eq \in Nat /\ n \in Nat /\ Char = At(t, n)
      /\ depth = Open(d, seen) /\ depth \in Nat /\ p \in Nat /\ seen \in Nat /\ span \in SpanType
      /\ Offset(d, seen + 1) = x.end + 1 /\ Open(d, seen + 1) = x.open
  BY <1>1, SpotNow, SpotFacts DEF In
<1>3. EndTag(t, k, x, depth) /\ n = x.at + 1
  BY <1>2 DEF Spot
<1>4. Char \in Alpha /\ x.at + 1 < x.end
  BY <1>2, <1>3 DEF EndTag
<1>5. Go("IN_END_TAG_NAME")
  BY <1>4 DEF WaitForEndTagName
<1>6. Spot(t, p, w, k, x, depth, "IN_END_TAG_NAME", n + 1, span')
  BY <1>2, <1>3, <1>4 DEF Spot, ParserStates
<1> QED
  BY <1>1, <1>2, <1>5, <1>6, GoOnSpot DEF NextSpot

LEMMA InEndTagNameSpot ==
  ASSUME NEW d, StartOf(d), Standing(d), TypeOK, InEndTagName
  PROVE  Follows(d)'
<1> DEFINE t == d.text
           k == d.tokens[seen + 1]
           x == d.places[seen + 1]
           w == Where(d, seen)
           p == Offset(d, seen)
           n == position
<1>1. In("IN_END_TAG_NAME") /\ seen < Len(d.tokens)
  BY SpotFacts DEF InEndTagName, In
<1>2. /\ Spot(t, p, w, k, x, depth, "IN_END_TAG_NAME", n, span) /\ Comes(t, p, w, k, x, depth)
      /\ x.at \in Nat /\ x.end \in Nat /\ x.eq \in Nat /\ n \in Nat /\ Char = At(t, n)
      /\ depth = Open(d, seen) /\ depth \in Nat /\ p \in Nat /\ seen \in Nat /\ span \in SpanType
      /\ Offset(d, seen + 1) = x.end + 1 /\ Open(d, seen + 1) = x.open
  BY <1>1, SpotNow, SpotFacts DEF In
<1>3. EndTag(t, k, x, depth) /\ x.at + 1 < n /\ n <= x.end
  BY <1>2 DEF Spot
<1>4. CASE n < x.end
  <2>1. Char # ">"
    <3>1. n \in x.at + 2..x.end - 1
      BY <1>2, <1>3, <1>4
    <3> QED
      BY <1>2, <1>3, <3>1 DEF EndTag, None
  <2>2. Go("IN_END_TAG_NAME")
    BY <2>1 DEF InEndTagName
  <2>3. Spot(t, p, w, k, x, depth, "IN_END_TAG_NAME", n + 1, span')
    BY <1>2, <1>3, <1>4 DEF Spot, ParserStates
  <2> QED
    BY <1>1, <1>2, <2>2, <2>3, GoOnSpot DEF NextSpot
<1>5. CASE n = x.end
  <2>1. Char = ">"
    BY <1>2, <1>3, <1>5 DEF EndTag
  <2>2. Deliver("TAG_ENDING", "INITIAL") /\ Shallower
    BY <2>1 DEF InEndTagName
  <2>3. /\ position' = n + 1 /\ token' = "TAG_ENDING" /\ seen' = seen + 1 /\ depth' = depth - 1
        /\ UNCHANGED <<text, meaning>> /\ parser_state' = "INITIAL"
    BY <2>2 DEF Deliver, Shallower
  <2>4. k = [kind |-> "TAG_ENDING"] /\ x.open = depth - 1
    BY <1>3 DEF EndTag
  <2>5. parser_state' = StateAt(Where(d, seen + 1)) /\ Returned' = k
    <3>1. seen + 1 # 0 /\ k.kind = "TAG_ENDING"
      BY <1>2, <2>4
    <3> QED
      BY <2>3, <2>4, <3>1 DEF Where, StateAt, Returned
  <2> QED
    BY <1>1, <1>2, <1>5, <2>3, <2>4, <2>5, TokenSpot
<1> QED
  BY <1>2, <1>3, <1>4, <1>5

LEMMA EndingSpot ==
  ASSUME NEW d, StartOf(d), Standing(d), TypeOK, WaitForEnding
  PROVE  Follows(d)'
<1> DEFINE t == d.text
           k == d.tokens[seen + 1]
           x == d.places[seen + 1]
           w == Where(d, seen)
           p == Offset(d, seen)
           n == position
<1>1. In("WAIT_FOR_ENDING") /\ seen < Len(d.tokens)
  BY SpotFacts DEF WaitForEnding, In
<1>2. /\ Spot(t, p, w, k, x, depth, "WAIT_FOR_ENDING", n, span) /\ Comes(t, p, w, k, x, depth)
      /\ x.at \in Nat /\ x.end \in Nat /\ x.eq \in Nat /\ n \in Nat /\ Char = At(t, n)
      /\ depth = Open(d, seen) /\ depth \in Nat /\ p \in Nat /\ seen \in Nat /\ span \in SpanType
      /\ Offset(d, seen + 1) = x.end + 1 /\ Open(d, seen + 1) = x.open
  BY <1>1, SpotNow, SpotFacts DEF In
<1>3. EmptyTagEnd(t, k, x, depth) /\ n = x.end
  BY <1>2 DEF Spot
<1>4. Char = ">"
  BY <1>2, <1>3 DEF EmptyTagEnd
<1>5. Deliver("TAG_ENDING", "INITIAL") /\ Shallower
  BY <1>4 DEF WaitForEnding
<1>6. /\ position' = n + 1 /\ token' = "TAG_ENDING" /\ seen' = seen + 1 /\ depth' = depth - 1
      /\ UNCHANGED <<text, meaning>> /\ parser_state' = "INITIAL"
  BY <1>5 DEF Deliver, Shallower
<1>7. k = [kind |-> "TAG_ENDING"] /\ x.open = depth - 1
  BY <1>3 DEF EmptyTagEnd
<1>8. parser_state' = StateAt(Where(d, seen + 1)) /\ Returned' = k
  <2>1. seen + 1 # 0 /\ k.kind = "TAG_ENDING"
    BY <1>2, <1>7
  <2> QED
    BY <1>6, <1>7, <2>1 DEF Where, StateAt, Returned
<1> QED
  BY <1>1, <1>2, <1>3, <1>6, <1>7, <1>8, TokenSpot

LEMMA TextOrTagSpot ==
  ASSUME NEW d, StartOf(d), Standing(d), TypeOK, WaitForTextOrTag
  PROVE  Follows(d)'
<1> DEFINE t == d.text
           k == d.tokens[seen + 1]
           x == d.places[seen + 1]
           w == Where(d, seen)
           p == Offset(d, seen)
           n == position
<1>1. In("WAIT_FOR_TEXT_OR_TAG") /\ seen < Len(d.tokens)
  BY SpotFacts DEF WaitForTextOrTag, In
<1>2. /\ Spot(t, p, w, k, x, depth, "WAIT_FOR_TEXT_OR_TAG", n, span) /\ Comes(t, p, w, k, x, depth)
      /\ x.at \in Nat /\ x.end \in Nat /\ x.eq \in Nat /\ n \in Nat /\ Char = At(t, n)
      /\ depth = Open(d, seen) /\ depth \in Nat /\ p \in Nat /\ seen \in Nat /\ span \in SpanType
      /\ Offset(d, seen + 1) = x.end + 1 /\ Open(d, seen + 1) = x.open
  BY <1>1, SpotNow, SpotFacts DEF In
<1>3. w = "content" /\ p <= n /\ n <= x.at /\ (n = x.at => TextAt(t, k, x, depth))
  BY <1>2 DEF Spot
<1>4. CASE n = x.at
  <2>1. TextAt(t, k, x, depth) /\ Char \in Alpha /\ x.at < x.end
    BY <1>2, <1>3, <1>4 DEF TextAt
  <2>2. Go("IN_TEXT")
    BY <2>1 DEF WaitForTextOrTag
  <2>3. Spot(t, p, w, k, x, depth, "IN_TEXT", n + 1, span')
    BY <1>2, <1>4, <2>1 DEF Spot, ParserStates
  <2> QED
    BY <1>1, <1>2, <2>2, <2>3, GoOnSpot DEF NextSpot
<1>5. CASE /\ n < x.at /\ None(t, p, x.at, Alpha \cup {"<"}) /\ TextAt(t, k, x, depth)
  <2>1. Char \notin Alpha \cup {"<"}
    <3>1. n \in p..x.at - 1
      BY <1>2, <1>3, <1>5
    <3> QED
      BY <1>2, <1>5, <3>1 DEF None
  <2>2. Go("WAIT_FOR_TEXT_OR_TAG")
    BY <1>1, <2>1 DEF WaitForTextOrTag, In
  <2>3. Spot(t, p, w, k, x, depth, "WAIT_FOR_TEXT_OR_TAG", n + 1, span')
    BY <1>2, <1>3, <1>5 DEF Spot, ParserStates
  <2> QED
    BY <1>1, <1>2, <2>2, <2>3, GoOnSpot DEF NextSpot
<1>6. CASE /\ n < x.at /\ None(t, p, x.at - 1, Alpha \cup {"<"}) /\ At(t, x.at - 1) = "<"
           /\ 0 < depth /\ Markup(t, k, x, depth)
  <2>1. CASE n = x.at - 1
    <3>1. Char = "<" /\ Char \notin Alpha
      BY <1>2, <1>6, <2>1, CharacterAssumption DEF Marks
    <3>2. Go("WAIT_FOR_START_OR_END_TAG")
      BY <3>1 DEF WaitForTextOrTag
    <3>3. Spot(t, p, w, k, x, depth, "WAIT_FOR_START_OR_END_TAG", n + 1, span')
      BY <1>2, <1>6, <2>1 DEF Spot, ParserStates
    <3> QED
      BY <1>1, <1>2, <3>2, <3>3, GoOnSpot DEF NextSpot
  <2>2. CASE n < x.at - 1
    <3>1. Char \notin Alpha \cup {"<"}
      <4>1. n \in p..(x.at - 1) - 1
        BY <1>2, <1>3, <2>2
      <4> QED
        BY <1>2, <1>6, <4>1 DEF None
    <3>2. Go("WAIT_FOR_TEXT_OR_TAG")
      BY <1>1, <3>1 DEF WaitForTextOrTag, In
    <3>3. Spot(t, p, w, k, x, depth, "WAIT_FOR_TEXT_OR_TAG", n + 1, span')
      BY <1>2, <1>3, <2>2 DEF Spot, ParserStates
    <3> QED
      BY <1>1, <1>2, <3>2, <3>3, GoOnSpot DEF NextSpot
  <2> QED
    BY <1>2, <1>6, <2>1, <2>2
<1> QED
  BY <1>2, <1>3, <1>4, <1>5, <1>6 DEF Comes

LEMMA TextSpot ==
  ASSUME NEW d, StartOf(d), Standing(d), TypeOK, InText
  PROVE  Follows(d)'
<1> DEFINE t == d.text
           k == d.tokens[seen + 1]
           x == d.places[seen + 1]
           w == Where(d, seen)
           p == Offset(d, seen)
           n == position
<1>1. In("IN_TEXT") /\ seen < Len(d.tokens)
  BY SpotFacts DEF InText, In
<1>2. /\ Spot(t, p, w, k, x, depth, "IN_TEXT", n, span) /\ Comes(t, p, w, k, x, depth)
      /\ x.at \in Nat /\ x.end \in Nat /\ x.eq \in Nat /\ n \in Nat /\ Char = At(t, n)
      /\ depth = Open(d, seen) /\ depth \in Nat /\ p \in Nat /\ seen \in Nat /\ span \in SpanType
      /\ Offset(d, seen + 1) = x.end + 1 /\ Open(d, seen + 1) = x.open
  BY <1>1, SpotNow, SpotFacts DEF In
<1>3. TextAt(t, k, x, depth) /\ x.at < n /\ n <= x.end
  BY <1>2 DEF Spot
<1>4. CASE n < x.end
  <2>1. Char # "<"
    <3>1. n \in x.at..x.end - 1
      BY <1>2, <1>3, <1>4
    <3> QED
      BY <1>2, <1>3, <3>1 DEF TextAt, None
  <2>2. Go("IN_TEXT")
    BY <2>1 DEF InText
  <2>3. Spot(t, p, w, k, x, depth, "IN_TEXT", n + 1, span')
    BY <1>2, <1>3, <1>4 DEF Spot, ParserStates
  <2> QED
    BY <1>1, <1>2, <2>2, <2>3, GoOnSpot DEF NextSpot
<1>5. CASE n = x.end
  <2>1. Char = "<"
    BY <1>2, <1>3, <1>5 DEF TextAt
  <2>2. Deliver("TEXT", "WAIT_FOR_START_OR_END_TAG") /\ SameDepth
    BY <2>1 DEF InText
  <2>3. /\ position' = n + 1 /\ token' = "TEXT" /\ seen' = seen + 1 /\ depth' = depth
        /\ UNCHANGED <<text, meaning>> /\ parser_state' = "WAIT_FOR_START_OR_END_TAG"
    BY <2>2 DEF Deliver, SameDepth
  <2>4. k = [kind |-> "TEXT"] /\ x.open = depth
    BY <1>3 DEF TextAt
  <2>5. parser_state' = StateAt(Where(d, seen + 1)) /\ Returned' = k
    <3>1. seen + 1 # 0 /\ k.kind = "TEXT"
      BY <1>2, <2>4
    <3> QED
      BY <2>3, <2>4, <3>1 DEF Where, StateAt, Returned
  <2> QED
    BY <1>1, <1>2, <1>5, <2>3, <2>4, <2>5, TokenSpot
<1> QED
  BY <1>2, <1>3, <1>4, <1>5

LEMMA AttributeOrEndingSpot ==
  ASSUME NEW d, StartOf(d), Standing(d), TypeOK, WaitForAttributeOrEnding
  PROVE  Follows(d)'
<1> DEFINE t == d.text
           k == d.tokens[seen + 1]
           x == d.places[seen + 1]
           w == Where(d, seen)
           p == Offset(d, seen)
           n == position
<1>1. In("WAIT_FOR_ATTRIBUTE_OR_ENDING") /\ seen < Len(d.tokens)
  BY SpotFacts DEF WaitForAttributeOrEnding, In
<1>2. /\ Spot(t, p, w, k, x, depth, "WAIT_FOR_ATTRIBUTE_OR_ENDING", n, span) /\ Comes(t, p, w, k, x, depth)
      /\ x.at \in Nat /\ x.end \in Nat /\ x.eq \in Nat /\ n \in Nat /\ Char = At(t, n)
      /\ depth = Open(d, seen) /\ depth \in Nat /\ p \in Nat /\ seen \in Nat /\ span \in SpanType
      /\ Offset(d, seen + 1) = x.end + 1 /\ Open(d, seen + 1) = x.open
  BY <1>1, SpotNow, SpotFacts DEF In
<1>3. w = "attributes" /\ p <= n /\ n <= x.at
  BY <1>2 DEF Spot
<1>4. /\ Only(t, p, x.at, Space)
      /\ \/ AttributeAt(t, k, x, depth)
         \/ At(t, x.at) \in {"/", "?"} /\ x.end = x.at + 1 /\ EmptyTagEnd(t, k, x, depth)
  BY <1>2, <1>3 DEF Comes
<1>5. CASE n < x.at
  <2>1. Char \in Space
    <3>1. n \in p..x.at - 1
      BY <1>2, <1>3, <1>5
    <3> QED
      BY <1>2, <1>4, <3>1 DEF Only
  <2>2. Go("WAIT_FOR_ATTRIBUTE_OR_ENDING") /\ SameSpan
    BY <1>1, <2>1, CharacterAssumption DEF WaitForAttributeOrEnding, In, Marks
  <2>3. Spot(t, p, w, k, x, depth, "WAIT_FOR_ATTRIBUTE_OR_ENDING", n + 1, span')
    BY <1>2, <1>3, <1>5 DEF Spot, ParserStates
  <2> QED
    BY <1>1, <1>2, <2>2, <2>3, GoOnSpot DEF NextSpot
<1>6. CASE n = x.at /\ AttributeAt(t, k, x, depth)
  <2>1. Char \in Alpha /\ x.at < x.eq
    BY <1>2, <1>6 DEF AttributeAt
  <2>2. Go("IN_ATTRIBUTE_NAME") /\ Mark("name_start")
    BY <2>1, CharacterAssumption DEF WaitForAttributeOrEnding, Marks
  <2>3. span'["name_start"] = x.at
    BY <1>2, <1>6, <2>2, MarkFacts DEF Spans
  <2>4. Spot(t, p, w, k, x, depth, "IN_ATTRIBUTE_NAME", n + 1, span')
    BY <1>2, <1>6, <2>1, <2>3 DEF Spot, ParserStates
  <2> QED
    BY <1>1, <1>2, <2>2, <2>4, GoOnSpot DEF NextSpot
<1>7. CASE /\ n = x.at /\ At(t, x.at) \in {"/", "?"} /\ x.end = x.at + 1
           /\ EmptyTagEnd(t, k, x, depth)
  <2>1. Char \in {"/", "?"}
    BY <1>2, <1>7
  <2>2. Go("WAIT_FOR_ENDING") /\ SameSpan
    BY <2>1, CharacterAssumption DEF WaitForAttributeOrEnding, Marks
  <2>3. Spot(t, p, w, k, x, depth, "WAIT_FOR_ENDING", n + 1, span')
    BY <1>2, <1>7 DEF Spot, ParserStates
  <2> QED
    BY <1>1, <1>2, <2>2, <2>3, GoOnSpot DEF NextSpot
<1> QED
  BY <1>2, <1>3, <1>4, <1>5, <1>6, <1>7

LEMMA AttributeNameSpot ==
  ASSUME NEW d, StartOf(d), Standing(d), TypeOK, InAttributeName
  PROVE  Follows(d)'
<1> DEFINE t == d.text
           k == d.tokens[seen + 1]
           x == d.places[seen + 1]
           w == Where(d, seen)
           p == Offset(d, seen)
           n == position
<1>1. In("IN_ATTRIBUTE_NAME") /\ seen < Len(d.tokens)
  BY SpotFacts DEF InAttributeName, In
<1>2. /\ Spot(t, p, w, k, x, depth, "IN_ATTRIBUTE_NAME", n, span) /\ Comes(t, p, w, k, x, depth)
      /\ x.at \in Nat /\ x.end \in Nat /\ x.eq \in Nat /\ n \in Nat /\ Char = At(t, n)
      /\ depth = Open(d, seen) /\ depth \in Nat /\ p \in Nat /\ seen \in Nat /\ span \in SpanType
      /\ Offset(d, seen + 1) = x.end + 1 /\ Open(d, seen + 1) = x.open
  BY <1>1, SpotNow, SpotFacts DEF In
<1>3. AttributeAt(t, k, x, depth) /\ x.at < n /\ n <= x.eq /\ span["name_start"] = x.at
  BY <1>2 DEF Spot
<1>4. CASE n < x.eq
  <2>1. Char # "="
    <3>1. n \in x.at..x.eq - 1
      BY <1>2, <1>3, <1>4
    <3> QED
      BY <1>2, <1>3, <3>1 DEF AttributeAt, None
  <2>2. Go("IN_ATTRIBUTE_NAME") /\ SameSpan
    BY <2>1 DEF InAttributeName
  <2>3. Spot(t, p, w, k, x, depth, "IN_ATTRIBUTE_NAME", n + 1, span')
    BY <1>2, <1>3, <1>4, <2>2 DEF Spot, ParserStates, SameSpan
  <2> QED
    BY <1>1, <1>2, <2>2, <2>3, GoOnSpot DEF NextSpot
<1>5. CASE n = x.eq
  <2>1. Char = "="
    BY <1>2, <1>3, <1>5 DEF AttributeAt
  <2>2. Go("WAIT_FOR_ATTRIBUTE_VALUE_QUOTE") /\ Mark("name_end")
    BY <2>1 DEF InAttributeName
  <2>3. span'["name_start"] = x.at /\ span'["name_end"] = x.eq
    BY <1>2, <1>3, <1>5, <2>2, MarkFacts DEF Spans
  <2>4. Spot(t, p, w, k, x, depth, "WAIT_FOR_ATTRIBUTE_VALUE_QUOTE", n + 1, span')
    BY <1>2, <1>3, <1>5, <2>3 DEF Spot, ParserStates
  <2> QED
    BY <1>1, <1>2, <2>2, <2>4, GoOnSpot DEF NextSpot
<1> QED
  BY <1>2, <1>3, <1>4, <1>5

LEMMA QuoteSpot ==
  ASSUME NEW d, StartOf(d), Standing(d), TypeOK, WaitForAttributeValueQuote
  PROVE  Follows(d)'
<1> DEFINE t == d.text
           k == d.tokens[seen + 1]
           x == d.places[seen + 1]
           w == Where(d, seen)
           p == Offset(d, seen)
           n == position
<1>1. In("WAIT_FOR_ATTRIBUTE_VALUE_QUOTE") /\ seen < Len(d.tokens)
  BY SpotFacts DEF WaitForAttributeValueQuote, In
<1>2. /\ Spot(t, p, w, k, x, depth, "WAIT_FOR_ATTRIBUTE_VALUE_QUOTE", n, span) /\ Comes(t, p, w, k, x, depth)
      /\ x.at \in Nat /\ x.end \in Nat /\ x.eq \in Nat /\ n \in Nat /\ Char = At(t, n)
      /\ depth = Open(d, seen) /\ depth \in Nat /\ p \in Nat /\ seen \in Nat /\ span \in SpanType
      /\ Offset(d, seen + 1) = x.end + 1 /\ Open(d, seen + 1) = x.open
  BY <1>1, SpotNow, SpotFacts DEF In
<1>3. /\ AttributeAt(t, k, x, depth) /\ n = x.eq + 1
      /\ span["name_start"] = x.at /\ span["name_end"] = x.eq
  BY <1>2 DEF Spot
<1>4. Char = Quote /\ n + 1 = x.eq + 2
  BY <1>2, <1>3 DEF AttributeAt
<1>5. Go("WAIT_FOR_ATTRIBUTE_VALUE") /\ SameSpan
  BY <1>4 DEF WaitForAttributeValueQuote
<1>6. Spot(t, p, w, k, x, depth, "WAIT_FOR_ATTRIBUTE_VALUE", n + 1, span')
  BY <1>3, <1>4, <1>5 DEF Spot, ParserStates, SameSpan
<1> QED
  BY <1>1, <1>2, <1>5, <1>6, GoOnSpot DEF NextSpot

LEMMA ValueStartSpot ==
  ASSUME NEW d, StartOf(d), Standing(d), TypeOK, WaitForAttributeValue
  PROVE  Follows(d)'
<1> DEFINE t == d.text
           k == d.tokens[seen + 1]
           x == d.places[seen + 1]
           w == Where(d, seen)
           p == Offset(d, seen)
           n == position
<1>1. In("WAIT_FOR_ATTRIBUTE_VALUE") /\ seen < Len(d.tokens)
  BY SpotFacts DEF WaitForAttributeValue, In
<1>2. /\ Spot(t, p, w, k, x, depth, "WAIT_FOR_ATTRIBUTE_VALUE", n, span) /\ Comes(t, p, w, k, x, depth)
      /\ x.at \in Nat /\ x.end \in Nat /\ x.eq \in Nat /\ n \in Nat /\ Char = At(t, n)
      /\ depth = Open(d, seen) /\ depth \in Nat /\ p \in Nat /\ seen \in Nat /\ span \in SpanType
      /\ Offset(d, seen + 1) = x.end + 1 /\ Open(d, seen + 1) = x.open
  BY <1>1, SpotNow, SpotFacts DEF In
<1>3. /\ AttributeAt(t, k, x, depth) /\ n = x.eq + 2
      /\ span["name_start"] = x.at /\ span["name_end"] = x.eq
  BY <1>2 DEF Spot
<1>4. CASE n < x.end
  <2>1. Char # Quote
    <3>1. n \in x.eq + 2..x.end - 1
      BY <1>2, <1>3, <1>4
    <3> QED
      BY <1>2, <1>3, <3>1 DEF AttributeAt, None
  <2>2. Go("IN_ATTRIBUTE_VALUE") /\ Mark("value_start")
    BY <2>1 DEF WaitForAttributeValue
  <2>3. /\ span'["name_start"] = x.at /\ span'["name_end"] = x.eq
        /\ span'["value_start"] = x.eq + 2
    BY <1>2, <1>3, <2>2, MarkFacts DEF Spans
  <2>4. Spot(t, p, w, k, x, depth, "IN_ATTRIBUTE_VALUE", n + 1, span')
    BY <1>2, <1>3, <1>4, <2>3 DEF Spot, ParserStates
  <2> QED
    BY <1>1, <1>2, <2>2, <2>4, GoOnSpot DEF NextSpot
<1>5. CASE n = x.end
  <2>1. Char = Quote
    BY <1>2, <1>3, <1>5 DEF AttributeAt
  <2>2. /\ Deliver("ATTRIBUTE", "WAIT_FOR_ATTRIBUTE_OR_ENDING") /\ SameDepth
        /\ span' = [span EXCEPT !["value_start"] = n, !["value_end"] = n]
    BY <2>1 DEF WaitForAttributeValue
  <2>3. /\ span'["name_start"] = x.at /\ span'["name_end"] = x.eq
        /\ span'["value_start"] = x.eq + 2 /\ span'["value_end"] = x.end
    BY <1>2, <1>3, <1>5, <2>2 DEF SpanType, Spans
  <2>4. /\ position' = n + 1 /\ token' = "ATTRIBUTE" /\ seen' = seen + 1 /\ depth' = depth
        /\ UNCHANGED <<text, meaning>> /\ parser_state' = "WAIT_FOR_ATTRIBUTE_OR_ENDING"
    BY <2>2 DEF Deliver, SameDepth
  <2>5. /\ k = [kind |-> "ATTRIBUTE", name |-> SubSeq(t, x.at + 1, x.eq),
                value |-> SubSeq(t, x.eq + 3, x.end)]
        /\ x.open = depth
    BY <1>3 DEF AttributeAt
  <2>6. parser_state' = StateAt(Where(d, seen + 1))
    <3>1. seen + 1 # 0 /\ k.kind = "ATTRIBUTE"
      BY <1>2, <2>5
    <3> QED
      BY <2>4, <3>1 DEF Where, StateAt
  <2>7. Returned' = k
    <3>1. position + 1 <= Len(text) /\ Len(text) \in Nat
      BY <1>1, ReadFacts
    <3>2. x.eq + 2 <= x.end
      BY <1>3 DEF AttributeAt
    <3>3. x.eq <= Len(text) /\ x.end <= Len(text) /\ (x.eq + 2) + 1 = x.eq + 3 /\ x.eq + 2 \in Nat
      <4>1. \A a, b, l \in Nat : a + 2 <= b /\ b + 1 <= l =>
               a <= l /\ b <= l /\ (a + 2) + 1 = a + 3 /\ a + 2 \in Nat
        OBVIOUS
      <4>2. x.eq \in Nat /\ x.end \in Nat /\ x.end + 1 <= Len(text)
        BY <1>2, <1>5, <3>1
      <4> QED
        BY <3>1, <3>2, <4>1, <4>2
    <3>4. SubSeq(text, x.at + 1, x.eq) = SubSeq(t, x.at + 1, x.eq)
      BY <1>2, <3>3, SliceOfStart
    <3>5. SubSeq(text, (x.eq + 2) + 1, x.end) = SubSeq(t, (x.eq + 2) + 1, x.end)
      BY <1>2, <3>3, SliceOfStart
    <3>6. Slice("name_start", "name_end")' = SubSeq(t, x.at + 1, x.eq)
      BY <2>4, <2>3, <3>4 DEF Slice
    <3>7. Slice("value_start", "value_end")' = SubSeq(t, x.eq + 3, x.end)
      BY <2>4, <2>3, <3>3, <3>5 DEF Slice
    <3> QED
      BY <2>4, <2>5, <3>6, <3>7 DEF Returned
  <2> QED
    BY <1>1, <1>2, <1>5, <2>4, <2>5, <2>6, <2>7, TokenSpot
<1>6. n <= x.end
  BY <1>3 DEF AttributeAt
<1> QED
  BY <1>2, <1>4, <1>5, <1>6

LEMMA ValueSpot ==
  ASSUME NEW d, StartOf(d), Standing(d), TypeOK, InAttributeValue
  PROVE  Follows(d)'
<1> DEFINE t == d.text
           k == d.tokens[seen + 1]
           x == d.places[seen + 1]
           w == Where(d, seen)
           p == Offset(d, seen)
           n == position
<1>1. In("IN_ATTRIBUTE_VALUE") /\ seen < Len(d.tokens)
  BY SpotFacts DEF InAttributeValue, In
<1>2. /\ Spot(t, p, w, k, x, depth, "IN_ATTRIBUTE_VALUE", n, span) /\ Comes(t, p, w, k, x, depth)
      /\ x.at \in Nat /\ x.end \in Nat /\ x.eq \in Nat /\ n \in Nat /\ Char = At(t, n)
      /\ depth = Open(d, seen) /\ depth \in Nat /\ p \in Nat /\ seen \in Nat /\ span \in SpanType
      /\ Offset(d, seen + 1) = x.end + 1 /\ Open(d, seen + 1) = x.open
  BY <1>1, SpotNow, SpotFacts DEF In
<1>3. /\ AttributeAt(t, k, x, depth) /\ x.eq + 2 < n /\ n <= x.end
      /\ span["name_start"] = x.at /\ span["name_end"] = x.eq /\ span["value_start"] = x.eq + 2
  BY <1>2 DEF Spot
<1>4. CASE n < x.end
  <2>1. Char # Quote
    <3>1. n \in x.eq + 2..x.end - 1
      BY <1>2, <1>3, <1>4
    <3> QED
      BY <1>2, <1>3, <3>1 DEF AttributeAt, None
  <2>2. Go("IN_ATTRIBUTE_VALUE") /\ SameSpan
    BY <2>1 DEF InAttributeValue
  <2>3. Spot(t, p, w, k, x, depth, "IN_ATTRIBUTE_VALUE", n + 1, span')
    BY <1>2, <1>3, <1>4, <2>2 DEF Spot, ParserStates, SameSpan
  <2> QED
    BY <1>1, <1>2, <2>2, <2>3, GoOnSpot DEF NextSpot
<1>5. CASE n = x.end
  <2>1. Char = Quote
    BY <1>2, <1>3, <1>5 DEF AttributeAt
  <2>2. /\ Deliver("ATTRIBUTE", "WAIT_FOR_ATTRIBUTE_OR_ENDING") /\ SameDepth
        /\ Mark("value_end")
    BY <2>1 DEF InAttributeValue
  <2>3. /\ span'["name_start"] = x.at /\ span'["name_end"] = x.eq
        /\ span'["value_start"] = x.eq + 2 /\ span'["value_end"] = x.end
    BY <1>2, <1>3, <1>5, <2>2, MarkFacts DEF Spans
  <2>4. /\ position' = n + 1 /\ token' = "ATTRIBUTE" /\ seen' = seen + 1 /\ depth' = depth
        /\ UNCHANGED <<text, meaning>> /\ parser_state' = "WAIT_FOR_ATTRIBUTE_OR_ENDING"
    BY <2>2 DEF Deliver, SameDepth
  <2>5. /\ k = [kind |-> "ATTRIBUTE", name |-> SubSeq(t, x.at + 1, x.eq),
                value |-> SubSeq(t, x.eq + 3, x.end)]
        /\ x.open = depth
    BY <1>3 DEF AttributeAt
  <2>6. parser_state' = StateAt(Where(d, seen + 1))
    <3>1. seen + 1 # 0 /\ k.kind = "ATTRIBUTE"
      BY <1>2, <2>5
    <3> QED
      BY <2>4, <3>1 DEF Where, StateAt
  <2>7. Returned' = k
    <3>1. position + 1 <= Len(text) /\ Len(text) \in Nat
      BY <1>1, ReadFacts
    <3>2. x.eq + 2 <= x.end
      BY <1>3 DEF AttributeAt
    <3>3. x.eq <= Len(text) /\ x.end <= Len(text) /\ (x.eq + 2) + 1 = x.eq + 3 /\ x.eq + 2 \in Nat
      <4>1. \A a, b, l \in Nat : a + 2 <= b /\ b + 1 <= l =>
               a <= l /\ b <= l /\ (a + 2) + 1 = a + 3 /\ a + 2 \in Nat
        OBVIOUS
      <4>2. x.eq \in Nat /\ x.end \in Nat /\ x.end + 1 <= Len(text)
        BY <1>2, <1>5, <3>1
      <4> QED
        BY <3>1, <3>2, <4>1, <4>2
    <3>4. SubSeq(text, x.at + 1, x.eq) = SubSeq(t, x.at + 1, x.eq)
      BY <1>2, <3>3, SliceOfStart
    <3>5. SubSeq(text, (x.eq + 2) + 1, x.end) = SubSeq(t, (x.eq + 2) + 1, x.end)
      BY <1>2, <3>3, SliceOfStart
    <3>6. Slice("name_start", "name_end")' = SubSeq(t, x.at + 1, x.eq)
      BY <2>4, <2>3, <3>4 DEF Slice
    <3>7. Slice("value_start", "value_end")' = SubSeq(t, x.eq + 3, x.end)
      BY <2>4, <2>3, <3>3, <3>5 DEF Slice
    <3> QED
      BY <2>4, <2>5, <3>6, <3>7 DEF Returned
  <2> QED
    BY <1>1, <1>2, <1>5, <2>4, <2>5, <2>6, <2>7, TokenSpot
<1> QED
  BY <1>2, <1>3, <1>4, <1>5

LEMMA NextCharIs ==
  ASSUME NEW d, StartOf(d), position \in Nat, Followed
  PROVE  NextChar = At(d.text, position + 1)
<1>1. position + 2 \in 1..Len(text) /\ (position + 1) + 1 = position + 2
  BY DEF Followed, StartOf, IsText
<1> QED
  BY <1>1 DEF NextChar, At, StartOf

\* The numbers in a comment.
LEMMA CommentNumbers ==
  \A a, e, n \in Nat : a + 5 < e =>
    /\ n = a + 1 => n + 1 = a + 2 /\ n + 2 = a + 3 /\ n + 1 < e
    /\ n = a + 3 => a + 3 < n + 1 /\ n + 1 < e - 1
    /\ a + 3 < n /\ n < e - 1 =>
         /\ a + 4 < n + 1 /\ n + 1 < e /\ (n + 1) - 1 = n
         /\ n # e - 2 => a + 3 < n + 1 /\ n + 1 < e - 1
    /\ a + 4 < n /\ n < e =>
         /\ (n - 1) + 1 = n /\ a + 3 < n + 1
         /\ n # e - 1 => n - 1 \in a + 4..e - 3 /\ (n # e - 2 => n + 1 < e - 1)
         /\ n = e - 1 => n + 1 = e /\ n + 2 = e + 1
OBVIOUS

LEMMA CommentTagSpot ==
  ASSUME NEW d, StartOf(d), Standing(d), TypeOK, BeginCommentTag
  PROVE  Follows(d)'
<1> DEFINE t == d.text
           k == d.tokens[seen + 1]
           x == d.places[seen + 1]
           w == Where(d, seen)
           p == Offset(d, seen)
           n == position
<1>1. In("BEGIN_COMMENT_TAG") /\ seen < Len(d.tokens)
  BY SpotFacts DEF BeginCommentTag, In
<1>2. /\ Spot(t, p, w, k, x, depth, "BEGIN_COMMENT_TAG", n, span) /\ Comes(t, p, w, k, x, depth)
      /\ x.at \in Nat /\ x.end \in Nat /\ x.eq \in Nat /\ n \in Nat /\ Char = At(t, n)
      /\ depth = Open(d, seen) /\ depth \in Nat /\ p \in Nat /\ seen \in Nat /\ span \in SpanType
      /\ Offset(d, seen + 1) = x.end + 1 /\ Open(d, seen + 1) = x.open
  BY <1>1, SpotNow, SpotFacts DEF In
<1>3. CommentTag(t, k, x, depth) /\ n = x.at + 1
  BY <1>2 DEF Spot
<1>4. Char = "-" /\ x.at + 5 < x.end /\ At(t, x.at + 2) = "-"
  BY <1>2, <1>3 DEF CommentTag
<1>5. n + 1 = x.at + 2 /\ n + 2 = x.at + 3 /\ n + 1 < x.end
  BY <1>2, <1>3, <1>4, CommentNumbers
<1>6. x.end < Len(t) /\ Len(t) \in Nat
  BY <1>1, SpotNow
<1>7. n + 1 < Len(t)
  <2>1. \A a, b, c \in Nat : a < b /\ b < c => a < c
    OBVIOUS
  <2>2. n + 1 \in Nat
    BY <1>2
  <2> QED
    BY <1>2, <1>5, <1>6, <2>1, <2>2
<1>8. CASE Followed
  <2>1. NextChar = "-"
    BY <1>2, <1>4, <1>5, <1>8, NextCharIs
  <2>2. GoTwo("BEGIN_COMMENT")
    BY <1>4, <1>8, <2>1 DEF BeginCommentTag
  <2>3. Spot(t, p, w, k, x, depth, "BEGIN_COMMENT", n + 2, span')
    BY <1>3, <1>5 DEF Spot, ParserStates
  <2> QED
    BY <1>1, <1>2, <1>7, <2>2, <2>3, GoTwoSpot DEF NextSpot
<1>9. CASE ~Followed
  <2>1. GoTwo("BEGIN_COMMENT_TAG")
    BY <1>1, <1>4, <1>9 DEF BeginCommentTag, In
  <2> QED
    BY <1>1, <1>7, <1>9, <2>1, GoTwoSpot
<1> QED
  BY <1>8, <1>9

LEMMA CommentStartSpot ==
  ASSUME NEW d, StartOf(d), Standing(d), TypeOK, BeginComment
  PROVE  Follows(d)'
<1> DEFINE t == d.text
           k == d.tokens[seen + 1]
           x == d.places[seen + 1]
           w == Where(d, seen)
           p == Offset(d, seen)
           n == position
<1>1. In("BEGIN_COMMENT") /\ seen < Len(d.tokens)
  BY SpotFacts DEF BeginComment, In
<1>2. /\ Spot(t, p, w, k, x, depth, "BEGIN_COMMENT", n, span) /\ Comes(t, p, w, k, x, depth)
      /\ x.at \in Nat /\ x.end \in Nat /\ x.eq \in Nat /\ n \in Nat /\ Char = At(t, n)
      /\ depth = Open(d, seen) /\ depth \in Nat /\ p \in Nat /\ seen \in Nat /\ span \in SpanType
      /\ Offset(d, seen + 1) = x.end + 1 /\ Open(d, seen + 1) = x.open
  BY <1>1, SpotNow, SpotFacts DEF In
<1>3. CommentTag(t, k, x, depth) /\ n = x.at + 3
  BY <1>2 DEF Spot
<1>4. x.at + 5 < x.end
  BY <1>3 DEF CommentTag
<1>5. x.at + 3 < n + 1 /\ n + 1 < x.end - 1
  BY <1>2, <1>3, <1>4, CommentNumbers
<1>6. Go("IN_COMMENT")
  BY DEF BeginComment
<1>7. Spot(t, p, w, k, x, depth, "IN_COMMENT", n + 1, span')
  BY <1>3, <1>5 DEF Spot, ParserStates
<1> QED
  BY <1>1, <1>2, <1>6, <1>7, GoOnSpot DEF NextSpot

LEMMA InCommentSpot ==
  ASSUME NEW d, StartOf(d), Standing(d), TypeOK, InComment
  PROVE  Follows(d)'
<1> DEFINE t == d.text
           k == d.tokens[seen + 1]
           x == d.places[seen + 1]
           w == Where(d, seen)
           p == Offset(d, seen)
           n == position
<1>1. In("IN_COMMENT") /\ seen < Len(d.tokens)
  BY SpotFacts DEF InComment, In
<1>2. /\ Spot(t, p, w, k, x, depth, "IN_COMMENT", n, span) /\ Comes(t, p, w, k, x, depth)
      /\ x.at \in Nat /\ x.end \in Nat /\ x.eq \in Nat /\ n \in Nat /\ Char = At(t, n)
      /\ depth = Open(d, seen) /\ depth \in Nat /\ p \in Nat /\ seen \in Nat /\ span \in SpanType
      /\ Offset(d, seen + 1) = x.end + 1 /\ Open(d, seen + 1) = x.open
  BY <1>1, SpotNow, SpotFacts DEF In
<1>3. CommentTag(t, k, x, depth) /\ x.at + 3 < n /\ n < x.end - 1
  BY <1>2 DEF Spot
<1>4. x.at + 5 < x.end /\ At(t, x.end - 2) = "-"
  BY <1>3 DEF CommentTag
<1>5. CASE Char = "-"
  <2>1. x.at + 4 < n + 1 /\ n + 1 < x.end /\ (n + 1) - 1 = n
    BY <1>2, <1>3, <1>4, CommentNumbers
  <2>2. Go("END_COMMENT_TAG")
    BY <1>5 DEF InComment
  <2>3. Spot(t, p, w, k, x, depth, "END_COMMENT_TAG", n + 1, span')
    BY <1>2, <1>3, <1>5, <2>1 DEF Spot, ParserStates
  <2> QED
    BY <1>1, <1>2, <2>2, <2>3, GoOnSpot DEF NextSpot
<1>6. CASE Char # "-"
  <2>1. x.at + 3 < n + 1 /\ n + 1 < x.end - 1
    <3>1. n # x.end - 2
      BY <1>2, <1>4, <1>6
    <3> QED
      BY <1>2, <1>3, <1>4, <3>1, CommentNumbers
  <2>2. Go("IN_COMMENT")
    BY <1>6 DEF InComment
  <2>3. Spot(t, p, w, k, x, depth, "IN_COMMENT", n + 1, span')
    BY <1>3, <2>1 DEF Spot, ParserStates
  <2> QED
    BY <1>1, <1>2, <2>2, <2>3, GoOnSpot DEF NextSpot
<1> QED
  BY <1>5, <1>6

LEMMA CommentEndSpot ==
  ASSUME NEW d, StartOf(d), Standing(d), TypeOK, EndCommentTag
  PROVE  Follows(d)'
<1> DEFINE t == d.text
           k == d.tokens[seen + 1]
           x == d.places[seen + 1]
           w == Where(d, seen)
           p == Offset(d, seen)
           n == position
<1>1. In("END_COMMENT_TAG") /\ seen < Len(d.tokens)
  BY SpotFacts DEF EndCommentTag, In
<1>2. /\ Spot(t, p, w, k, x, depth, "END_COMMENT_TAG", n, span) /\ Comes(t, p, w, k, x, depth)
      /\ x.at \in Nat /\ x.end \in Nat /\ x.eq \in Nat /\ n \in Nat /\ Char = At(t, n)
      /\ depth = Open(d, seen) /\ depth \in Nat /\ p \in Nat /\ seen \in Nat /\ span \in SpanType
      /\ Offset(d, seen + 1) = x.end + 1 /\ Open(d, seen + 1) = x.open
  BY <1>1, SpotNow, SpotFacts DEF In
<1>3. CommentTag(t, k, x, depth) /\ x.at + 4 < n /\ n < x.end /\ At(t, n - 1) = "-"
  BY <1>2 DEF Spot
<1>4. /\ x.at + 5 < x.end /\ At(t, x.end - 2) = "-" /\ At(t, x.end - 1) = "-"
      /\ At(t, x.end) = ">" /\ k = [kind |-> "COMMENT"] /\ x.open = depth
      /\ \A m \in x.at + 4..x.end - 3 : At(t, m) = "-" => At(t, m + 1) # "-"
  BY <1>3 DEF CommentTag
<1>5. CASE n # x.end - 1
  <2>1. Char # "-"
    <3>1. n - 1 \in x.at + 4..x.end - 3 /\ (n - 1) + 1 = n
      BY <1>2, <1>3, <1>4, <1>5, CommentNumbers
    <3>2. At(t, (n - 1) + 1) # "-"
      BY <1>3, <1>4, <3>1
    <3> QED
      BY <1>2, <3>1, <3>2
  <2>2. Go("IN_COMMENT")
    BY <2>1 DEF EndCommentTag, CommentEnds
  <2>3. x.at + 3 < n + 1 /\ n + 1 < x.end - 1
    <3>1. n # x.end - 2
      BY <1>2, <1>4, <2>1
    <3> QED
      BY <1>2, <1>3, <1>4, <1>5, <3>1, CommentNumbers
  <2>4. Spot(t, p, w, k, x, depth, "IN_COMMENT", n + 1, span')
    BY <1>3, <2>3 DEF Spot, ParserStates
  <2> QED
    BY <1>1, <1>2, <2>2, <2>4, GoOnSpot DEF NextSpot
<1>6. CASE n = x.end - 1 /\ Followed
  <2>1. n + 1 = x.end /\ n + 2 = x.end + 1
    BY <1>2, <1>3, <1>4, <1>6, CommentNumbers
  <2>2. CommentEnds
    BY <1>2, <1>4, <1>6, <2>1, NextCharIs DEF CommentEnds
  <2>3. /\ parser_state' = "INITIAL" /\ position' = n + 2 /\ token' = "COMMENT"
        /\ seen' = seen + 1 /\ depth' = depth /\ UNCHANGED <<text, meaning>>
    BY <2>2 DEF EndCommentTag, CommentEnds, SameDepth
  <2>4. parser_state' = StateAt(Where(d, seen + 1)) /\ Returned' = k
    <3>1. seen + 1 # 0 /\ k.kind = "COMMENT"
      BY <1>2, <1>4
    <3> QED
      BY <1>4, <2>3, <3>1 DEF Where, StateAt, Returned
  <2> QED
    BY <1>1, <1>2, <1>4, <2>1, <2>3, <2>4, TokenSpot
<1>7. CASE n = x.end - 1 /\ ~Followed
  <2>1. x.end < Len(t)
    BY <1>1, SpotNow
  <2>2. n + 1 = x.end
    BY <1>2, <1>3, <1>4, <1>7, CommentNumbers
  <2>3. n + 1 < Len(t)
    BY <2>1, <2>2
  <2>4. GoTwo("IN_COMMENT")
    BY <1>2, <1>4, <1>7 DEF EndCommentTag, CommentEnds
  <2> QED
    BY <1>1, <1>7, <2>3, <2>4, GoTwoSpot
<1> QED
  BY <1>5, <1>6, <1>7

(***************************************************************************)
(* All steps together.                                                     *)
(***************************************************************************)
\* The next token has not ended yet.
LEMMA SpotBefore ==
  ASSUME NEW t, NEW p \in Nat, NEW where \in Wheres, NEW k, NEW x, NEW open, NEW s, NEW n \in Nat,
         NEW sp, x.at \in Nat, x.eq \in Nat, x.end \in Nat,
         Comes(t, p, where, k, x, open), Spot(t, p, where, k, x, open, s, n, sp)
  PROVE  n <= x.end
<1>1. x.at <= x.end \/ where = "closing"
  <2>1. Markup(t, k, x, open) => x.at <= x.end
    <3>1. StartTag(t, k, x, open) => x.at <= x.end
      BY DEF StartTag
    <3>2. EndTag(t, k, x, open) => x.at <= x.end
      BY DEF EndTag
    <3>3. CommentTag(t, k, x, open) => x.at <= x.end
      BY DEF CommentTag
    <3> QED
      BY <3>1, <3>2, <3>3 DEF Markup
  <2>2. TextAt(t, k, x, open) => x.at <= x.end
    BY DEF TextAt
  <2>3. AttributeAt(t, k, x, open) => x.at <= x.end
    <3>1. AttributeAt(t, k, x, open) => x.at < x.eq /\ x.eq + 2 <= x.end
      BY DEF AttributeAt
    <3> QED
      BY <3>1
  <2>4. x.end = x.at + 1 => x.at <= x.end
    OBVIOUS
  <2> QED
    BY <2>1, <2>2, <2>3, <2>4 DEF Comes, Wheres
<1>2. CASE s \in {"INITIAL", "WAIT_FOR_TEXT_OR_TAG", "WAIT_FOR_ATTRIBUTE_OR_ENDING"}
  BY <1>1, <1>2 DEF Spot
<1>3. CASE s \in {"IN_TEXT", "IN_TAG_NAME", "IN_END_TAG_NAME", "WAIT_FOR_ENDING",
                  "IN_ATTRIBUTE_VALUE"}
  BY <1>3 DEF Spot
<1>4. CASE s \in {"WAIT_FOR_TAG_NAME", "WAIT_FOR_START_OR_END_TAG"}
  BY <1>4 DEF Spot, Markup, StartTag, EndTag, CommentTag
<1>5. CASE s = "WAIT_FOR_END_TAG_NAME"
  BY <1>5 DEF Spot, EndTag
<1>6. CASE s \in {"IN_ATTRIBUTE_NAME", "WAIT_FOR_ATTRIBUTE_VALUE_QUOTE",
                  "WAIT_FOR_ATTRIBUTE_VALUE"}
  <2>1. AttributeAt(t, k, x, open) /\ n <= x.eq + 2
    BY <1>6 DEF Spot
  <2>2. x.eq + 2 <= x.end
    BY <2>1 DEF AttributeAt
  <2> QED
    BY <2>1, <2>2
<1>7. CASE s \in {"BEGIN_COMMENT_TAG", "BEGIN_COMMENT", "IN_COMMENT", "END_COMMENT_TAG"}
  <2>1. CommentTag(t, k, x, open) /\ (n <= x.at + 3 \/ n <= x.end)
    BY <1>7 DEF Spot
  <2>2. x.at + 5 < x.end
    BY <2>1 DEF CommentTag
  <2> QED
    BY <2>1, <2>2
<1> QED
  BY <1>2, <1>3, <1>4, <1>5, <1>6, <1>7 DEF Spot, ParserStates

LEMMA ReadFollows ==
  ASSUME NEW d, Follows(d), TypeOK, ReadChar
  PROVE  Follows(d)'
<1>1. pc = "scan" /\ More
  BY DEF ReadChar, Initial, WaitForTagName, InTagName, WaitForTextOrTag, InText,
         WaitForStartOrEndTag, WaitForEndTagName, InEndTagName, WaitForAttributeOrEnding,
         WaitForEnding, InAttributeName, WaitForAttributeValueQuote, WaitForAttributeValue,
         InAttributeValue, BeginCommentTag, BeginComment, InComment, EndCommentTag, In
<1>2. StartOf(d) /\ Standing(d)
  <2>1. ~PastCut(d)
    BY <1>1 DEF PastCut, More, TypeOK, IsText
  <2> QED
    BY <2>1 DEF Follows
<1>3. CASE Initial
  <2>1. seen < Len(d.tokens) \/ seen = Len(d.tokens)
    BY <1>1, <1>2, SpotFacts DEF Standing
  <2> QED
    BY <1>2, <1>3, <2>1, InitialSpot, BlankAtEnd
<1>4. CASE WaitForTagName \/ InTagName \/ WaitForStartOrEndTag
  BY <1>2, <1>4, TagNameStartSpot, TagNameSpot, MarkupSpot
<1>5. CASE WaitForTextOrTag \/ InText
  BY <1>2, <1>5, TextOrTagSpot, TextSpot
<1>6. CASE WaitForEndTagName \/ InEndTagName \/ WaitForEnding
  BY <1>2, <1>6, EndTagNameSpot, InEndTagNameSpot, EndingSpot
<1>7. CASE WaitForAttributeOrEnding \/ InAttributeName \/ WaitForAttributeValueQuote
  BY <1>2, <1>7, AttributeOrEndingSpot, AttributeNameSpot, QuoteSpot
<1>8. CASE WaitForAttributeValue \/ InAttributeValue
  BY <1>2, <1>8, ValueStartSpot, ValueSpot
<1>9. CASE BeginCommentTag \/ BeginComment \/ InComment \/ EndCommentTag
  BY <1>2, <1>9, CommentTagSpot, CommentStartSpot, InCommentSpot, CommentEndSpot
<1> QED
  BY <1>3, <1>4, <1>5, <1>6, <1>7, <1>8, <1>9 DEF ReadChar

\* At the end of a text that is not cut off all tokens have been returned.
LEMMA AllReturned ==
  ASSUME NEW d, StartOf(d), Standing(d), TypeOK, ~More, Len(text) = Len(d.text)
  PROVE  seen = Len(d.tokens) /\ depth = 0 /\ parser_state = "INITIAL"
<1>1. /\ seen \in Nat /\ Len(d.tokens) \in Nat /\ position \in Nat /\ Len(d.text) \in Nat
      /\ Len(d.text) <= position
  BY DEF TypeOK, IsText, StartOf, Written, More
<1>2. Written(d) /\ seen <= Len(d.tokens)
  BY DEF StartOf, Standing
<1>3. ~(seen < Len(d.tokens))
  <2>1. SUFFICES ASSUME seen < Len(d.tokens) PROVE FALSE
    OBVIOUS
  <2> DEFINE x == d.places[seen + 1]
  <2>2. /\ x.at \in Nat /\ x.end \in 0..Len(d.text) - 1 /\ x.eq \in Nat
        /\ Comes(d.text, Offset(d, seen), Where(d, seen), d.tokens[seen + 1], x, Open(d, seen))
    BY ONLY <1>1, <1>2, <2>1, PlaceFacts
  <2>3. seen \in 0..Len(d.tokens)
    BY <1>1, <1>2
  <2>4. Offset(d, seen) \in Nat /\ Where(d, seen) \in Wheres
    BY <1>2, <2>3, OffsetFacts, WhereFacts
  <2>5. Spot(d.text, Offset(d, seen), Where(d, seen), d.tokens[seen + 1], x, Open(d, seen),
             parser_state, position, span)
    BY <2>1 DEF Standing, NextSpot
  <2>6. x.end \in Nat /\ x.end < Len(d.text)
    BY <1>1, <2>2
  <2> HIDE DEF x
  <2>7. position <= x.end
    BY <1>1, <2>2, <2>4, <2>5, <2>6, SpotBefore
  <2> QED
    BY <1>1, <2>6, <2>7
<1>4. seen = Len(d.tokens)
  BY <1>1, <1>2, <1>3
<1> QED
  BY <1>2, <1>4 DEF Standing, Written

LEMMA EndFollows ==
  ASSUME NEW d, Follows(d), TypeOK, EndOfText
  PROVE  Follows(d)'
<1>1. /\ pc' = "caller" /\ token' = "NONE" /\ ~More
      /\ UNCHANGED <<text, position, parser_state, depth, span, seen>>
  BY DEF EndOfText
<1>2. StartOf(d)' /\ (Standing(d) \/ PastCut(d))'
  BY <1>1, SameStart DEF Follows, Standing, NextSpot, PastCut
<1>3. Told(d)'
  <2>1. CASE Len(text) = Len(d.text)
    <3>1. Standing(d) /\ StartOf(d)
      BY <2>1 DEF Follows, PastCut, TypeOK, IsText
    <3> QED
      BY <1>1, <2>1, <3>1, AllReturned DEF Told
  <2>2. CASE Len(text) # Len(d.text)
    BY <1>1, <2>2 DEF Told
  <2> QED
    BY <2>1, <2>2
<1> QED
  BY <1>2, <1>3 DEF Follows

LEMMA GetTokenFollows ==
  ASSUME NEW d, Follows(d), TypeOK, GetToken
  PROVE  Follows(d)'
BY ReadFollows, EndFollows DEF GetToken

\* The caller leaves the reader alone.
LEMMA CallerFollows ==
  ASSUME NEW d, Follows(d),
         UNCHANGED <<text, position, parser_state, depth, span, seen>>,
         pc' # "caller" \/ UNCHANGED <<token, pc>>
  PROVE  Follows(d)'
<1>1. StartOf(d)' /\ (Standing(d) \/ PastCut(d))'
  BY SameStart DEF Follows, Standing, NextSpot, PastCut
<1>2. Told(d)'
  <2>1. CASE pc' # "caller"
    BY <2>1 DEF Told
  <2>2. CASE UNCHANGED <<token, pc>>
    BY <2>2 DEF Follows, Told, Returned, Slice
  <2> QED
    BY <2>1, <2>2
<1> QED
  BY <1>1, <1>2 DEF Follows

LEMMA InitFollows ==
  ASSUME NEW d, StartOf(d), InitReader
  PROVE  Follows(d)
<1>1. /\ position = 0 /\ depth = 0 /\ parser_state = "INITIAL" /\ pc = "scan" /\ seen = 0
  BY DEF InitReader
<1>2. /\ Written(d) /\ Len(d.tokens) \in Nat /\ Len(d.text) \in Nat
      /\ Offset(d, 0) = 0 /\ Open(d, 0) = 0 /\ Where(d, 0) = "between"
  BY DEF StartOf, Written, IsText, Offset, Open, Where
<1>3. 0 < Len(d.tokens) => NextSpot(d, "INITIAL", 0, span)
  <2>1. SUFFICES ASSUME 0 < Len(d.tokens) PROVE NextSpot(d, "INITIAL", 0, span)
    OBVIOUS
  <2> DEFINE x == d.places[0 + 1]
  <2>2. /\ x.at \in Nat /\ x.end \in 0..Len(d.text) - 1
        /\ Comes(d.text, Offset(d, 0), Where(d, 0), d.tokens[0 + 1], x, Open(d, 0))
    BY <1>2, <2>1, PlaceFacts
  <2>3. x.end \in Nat /\ StateAt("between") = "INITIAL" /\ "between" \in Wheres
    BY <2>2 DEF StateAt, Wheres
  <2> HIDE DEF x
  <2>4. Spot(d.text, 0, "between", d.tokens[0 + 1], x, 0, "INITIAL", 0, span)
    BY <1>2, <2>2, <2>3, FirstSpot
  <2> QED
    BY <1>1, <1>2, <2>4 DEF NextSpot, x
<1>4. Standing(d)
  BY <1>1, <1>2, <1>3 DEF Standing
<1> QED
  BY <1>1, <1>4 DEF Follows, Told

\* What a reader that follows a document says of its tokens.
LEMMA ToldMatches ==
  ASSUME NEW d, Follows(d), meaning = {d.tokens},
         token # "NONE" \/ Len(text) = Len(d.text)
  PROVE  TokensMatch
BY DEF Follows, Told, TokensMatch
LEMMA GetTokenKeeps == GetToken => UNCHANGED <<text, meaning>>
<1>1. Initial \/ WaitForTagName \/ InTagName \/ WaitForTextOrTag \/ InText
        \/ WaitForStartOrEndTag \/ WaitForEndTagName \/ InEndTagName => UNCHANGED <<text, meaning>>
  BY DEF Initial, WaitForTagName, InTagName, TagNameEnd, WaitForTextOrTag, InText,
         WaitForStartOrEndTag, WaitForEndTagName, InEndTagName, Go, XmlError, Deliver
<1>2. WaitForAttributeOrEnding \/ WaitForEnding \/ InAttributeName
        \/ WaitForAttributeValueQuote \/ WaitForAttributeValue \/ InAttributeValue
        => UNCHANGED <<text, meaning>>
  BY DEF WaitForAttributeOrEnding, WaitForEnding, InAttributeName, WaitForAttributeValueQuote,
         WaitForAttributeValue, InAttributeValue, Go, XmlError, Deliver
<1>3. BeginCommentTag \/ BeginComment \/ InComment \/ EndCommentTag => UNCHANGED <<text, meaning>>
  BY DEF BeginCommentTag, BeginComment, InComment, EndCommentTag, Go, GoTwo
<1> QED
  BY <1>1, <1>2, <1>3 DEF GetToken, ReadChar, EndOfText

-------------------------------------------------------------------------------
(***************************************************************************)
(* The invariant for the tokens: the text is of no document, or the reader *)
(* follows one.                                                            *)
(***************************************************************************)
Following ==
  meaning # {} =>
    \E d \in Documents : meaning = {d.tokens} /\ Len(text) = Len(d.text) /\ Follows(d)

LEMMA InitFollowing ==
  ASSUME DocumentsWritten, Init
  PROVE  Following
<1>1. SUFFICES ASSUME meaning # {} PROVE Following
  BY DEF Following
<1>2. PICK d \in Documents : text = d.text /\ meaning = {d.tokens}
  BY <1>1 DEF Init
<1>3. Written(d)
  BY DEF DocumentsWritten
<1>4. StartOf(d) /\ InitReader
  BY <1>2, <1>3 DEF StartOf, Written, IsText, Init
<1> QED
  BY <1>2, <1>4, InitFollows DEF Following

(***************************************************************************)
(* Of any text that is written as a document its caller is given the       *)
(* tokens, with their names and values and in their order, and then none.  *)
(***************************************************************************)
THEOREM TokensRight ==
  ASSUME DocumentsWritten
  PROVE  Spec => []TokensMatch
<1>1. Init => Following
  BY InitFollowing
<1>2. IInv /\ Following /\ [Next]_vars => Following'
  <2>1. SUFFICES ASSUME TypeOK, Following, [Next]_vars, meaning' # {} PROVE Following'
    BY DEF IInv, Following
  <2>2. UNCHANGED <<text, meaning>>
    <3>1. GetToken => UNCHANGED <<text, meaning>>
      BY GetTokenKeeps
    <3> QED
      BY <2>1, <3>1 DEF Next, NextToken, NoToken, Done, vars
  <2>3. PICK d \in Documents : meaning = {d.tokens} /\ Len(text) = Len(d.text) /\ Follows(d)
    BY <2>1, <2>2 DEF Following
  <2>4. Follows(d)'
    <3>1. CASE GetToken
      BY <2>1, <2>3, <3>1, GetTokenFollows
    <3>2. CASE NextToken \/ NoToken \/ UNCHANGED vars
      <4>1. /\ UNCHANGED <<text, position, parser_state, depth, span, seen>>
            /\ pc' # "caller" \/ UNCHANGED <<token, pc>>
        BY <3>2 DEF NextToken, NoToken, vars
      <4> QED
        BY <2>3, <4>1, CallerFollows
    <3> QED
      BY <2>1, <3>1, <3>2 DEF Next, Done
  <2> QED
    BY <2>2, <2>3, <2>4 DEF Following
<1>3. Following => TokensMatch
  BY ToldMatches DEF Following, TokensMatch
<1> QED
  BY <1>1, <1>2, <1>3, Invariance, PTL DEF Spec
==============================================================================
