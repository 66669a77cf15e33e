------------------------------ MODULE XmlReader ------------------------------
(***************************************************************************)
(* xmlGetToken: the automaton that reads a command line of an XML file or  *)
(* an answer of the device, character by character, and its caller, who    *)
(* asks for tokens until there is none.                                    *)
(*                                                                         *)
(* A text is a sequence of characters.  A letter of the model stands for a *)
(* word, since only the first letter of a name and its end are looked at.  *)
(* `position' counts from 0, as in the code.                               *)
(***************************************************************************)
EXTENDS Integers, Sequences

CONSTANTS Alpha, Digit, Space,   \* isalpha, isdigit, isspace
          Texts,                 \* arbitrary texts a reader is initialised with
          Documents              \* well formed ones: [text, tokens, places]

Quote == "\""
Marks == {"<", ">", "/", "?", "!", "-", "=", Quote}

ASSUME CharacterAssumption ==
  /\ Alpha \cap Digit = {} /\ Alpha \cap Space = {} /\ Digit \cap Space = {}
  /\ Marks \cap (Alpha \cup Digit \cup Space) = {}

IsText(t) == t = [n \in 1..Len(t) |-> t[n]] /\ Len(t) \in Nat

ASSUME TextAssumption ==
  /\ \A t \in Texts : IsText(t)
  /\ \A d \in Documents : IsText(d.text)

VARIABLES text,          \* buffer and length
          position,
          parser_state,
          depth,
          span,          \* the token_..._start and token_..._end fields
          token,         \* what the last xmlGetToken returned
          pc,            \* "scan": in xmlGetToken; "caller"; "done"
          seen,          \* history: tokens returned so far
          meaning        \* history: {the tokens of the document}, or {}

vars == <<text, position, parser_state, depth, span, token, pc, seen, meaning>>

ParserStates ==
  {"INITIAL", "WAIT_FOR_TAG_NAME", "IN_TAG_NAME", "WAIT_FOR_TEXT_OR_TAG", "IN_TEXT",
   "WAIT_FOR_START_OR_END_TAG", "WAIT_FOR_END_TAG_NAME", "IN_END_TAG_NAME",
   "WAIT_FOR_ENDING", "WAIT_FOR_ATTRIBUTE_OR_ENDING", "IN_ATTRIBUTE_NAME",
   "WAIT_FOR_ATTRIBUTE_VALUE_QUOTE", "WAIT_FOR_ATTRIBUTE_VALUE", "IN_ATTRIBUTE_VALUE",
   "BEGIN_COMMENT_TAG", "BEGIN_COMMENT", "IN_COMMENT", "END_COMMENT_TAG"}
Tokens == {"NONE", "TAG", "ATTRIBUTE", "TEXT", "TAG_ENDING", "COMMENT"}
Spans == {"tag_start", "tag_end", "name_start", "name_end", "value_start", "value_end"}

Unset == -1       \* a field that xmlInitReader leaves uninitialized

\* xmlInitReader
InitReader ==
  /\ position = 0 /\ depth = 0 /\ parser_state = "INITIAL"
  /\ span = [f \in Spans |-> Unset]
  /\ token = "NONE" /\ pc = "scan" /\ seen = 0

Init ==
  /\ InitReader
  /\ \/ text \in Texts /\ meaning = {}
     \/ \E d \in Documents : text = d.text /\ meaning = {d.tokens}
-------------------------------------------------------------------------------
More == position < Len(text)
Char == text[position + 1]

\* Another character to be read in state s.
In(s) == pc = "scan" /\ More /\ parser_state = s

\* The state after this character is s, and the loop goes on.
Go(s) ==
  /\ parser_state' = s /\ position' = position + 1
  /\ UNCHANGED <<text, meaning, depth, token, pc, seen>>

\* The token ends with this character.
Deliver(t, s) ==
  /\ parser_state' = s /\ position' = position + 1
  /\ token' = t /\ pc' = "caller" /\ seen' = seen + 1
  /\ UNCHANGED <<text, meaning>>

\* xml_error: the loop ends with no token.
XmlError ==
  /\ position' = position + 1 /\ token' = "NONE" /\ pc' = "caller"
  /\ UNCHANGED <<text, meaning, parser_state, depth, seen>>

Mark(f) == span' = [span EXCEPT ![f] = position]
Deeper == depth' = depth + 1
Shallower == depth' = depth - 1
SameDepth == depth' = depth
SameSpan == span' = span

\* Mutant of AfterOpening: a closing tag is accepted outside of any element.
AfterOpeningAny == "WAIT_FOR_START_OR_END_TAG"

AfterOpening == IF depth = 0 THEN "WAIT_FOR_TAG_NAME" ELSE "WAIT_FOR_START_OR_END_TAG"

Initial ==
  /\ In("INITIAL") /\ SameSpan
  /\ \/ Char = "<" /\ Go(AfterOpening)
     \/ Char \in Space /\ Go("INITIAL")
     \/ Char \notin Space \cup {"<"} /\ XmlError

WaitForTagName ==
  /\ In("WAIT_FOR_TAG_NAME")
  /\ \/ Char \in Alpha \cup {"?"} /\ Go("IN_TAG_NAME") /\ Mark("tag_start")
     \/ Char = "!" /\ Go("BEGIN_COMMENT_TAG") /\ SameSpan
     \/ Char \notin Alpha \cup {"?", "!"} /\ XmlError /\ SameSpan

\* The name ends where the tag, its attributes or its "/" begin.
TagNameEnd ==
  /\ Char \in Space \cup {">", "/"}
  /\ Deliver("TAG", IF Char = ">" THEN "WAIT_FOR_TEXT_OR_TAG"
                    ELSE IF Char = "/" THEN "WAIT_FOR_ENDING"
                    ELSE "WAIT_FOR_ATTRIBUTE_OR_ENDING")
  /\ Mark("tag_end") /\ Deeper

InTagName ==
  /\ In("IN_TAG_NAME")
  /\ \/ TagNameEnd
     \/ Char \in Alpha \cup Digit /\ Go("IN_TAG_NAME") /\ SameSpan
     \/ Char \notin Space \cup Alpha \cup Digit \cup {">", "/"} /\ XmlError /\ SameSpan

WaitForTextOrTag ==
  /\ In("WAIT_FOR_TEXT_OR_TAG") /\ SameSpan
  /\ Go(IF Char \in Alpha THEN "IN_TEXT"
        ELSE IF Char = "<" THEN "WAIT_FOR_START_OR_END_TAG" ELSE parser_state)

InText ==
  /\ In("IN_TEXT") /\ SameSpan
  /\ \/ Char = "<" /\ Deliver("TEXT", "WAIT_FOR_START_OR_END_TAG") /\ SameDepth
     \/ Char # "<" /\ Go("IN_TEXT")

WaitForStartOrEndTag ==
  /\ In("WAIT_FOR_START_OR_END_TAG")
  /\ \/ Char \in Alpha /\ Go("IN_TAG_NAME") /\ Mark("tag_start")
     \/ /\ Char \notin Alpha /\ SameSpan
        /\ Go(IF Char = "/" THEN "WAIT_FOR_END_TAG_NAME"
              ELSE IF Char = "!" THEN "BEGIN_COMMENT_TAG" ELSE parser_state)

WaitForEndTagName ==
  /\ In("WAIT_FOR_END_TAG_NAME")
  /\ \/ Char \in Alpha /\ Go("IN_END_TAG_NAME") /\ Mark("tag_start")
     \/ Char \notin Alpha /\ Go(parser_state) /\ SameSpan

InEndTagName ==
  /\ In("IN_END_TAG_NAME")
  /\ \/ Char = ">" /\ Deliver("TAG_ENDING", "INITIAL") /\ Mark("tag_end") /\ Shallower
     \/ Char # ">" /\ Go("IN_END_TAG_NAME") /\ SameSpan

\* There is no case for ">": a start tag with attributes has to end in "/>"
\* or "?>".
WaitForAttributeOrEnding ==
  /\ In("WAIT_FOR_ATTRIBUTE_OR_ENDING")
  /\ \/ Char \in {"/", "?"} /\ Go("WAIT_FOR_ENDING") /\ SameSpan
     \/ Char \in Alpha /\ Go("IN_ATTRIBUTE_NAME") /\ Mark("name_start")
     \/ Char \in Space /\ Go(parser_state) /\ SameSpan
     \/ Char \notin Alpha \cup Space \cup {"/", "?"} /\ XmlError /\ SameSpan

WaitForEnding ==
  /\ In("WAIT_FOR_ENDING") /\ SameSpan
  /\ \/ Char = ">" /\ Deliver("TAG_ENDING", "INITIAL") /\ Shallower
     \/ Char # ">" /\ Go("WAIT_FOR_ENDING")

InAttributeName ==
  /\ In("IN_ATTRIBUTE_NAME")
  /\ \/ Char = "=" /\ Go("WAIT_FOR_ATTRIBUTE_VALUE_QUOTE") /\ Mark("name_end")
     \/ Char # "=" /\ Go("IN_ATTRIBUTE_NAME") /\ SameSpan

WaitForAttributeValueQuote ==
  /\ In("WAIT_FOR_ATTRIBUTE_VALUE_QUOTE") /\ SameSpan
  /\ Go(IF Char = Quote THEN "WAIT_FOR_ATTRIBUTE_VALUE" ELSE parser_state)

\* Mutant of WaitForAttributeValue: no case for the empty value.
WaitForAttributeValueNonEmpty ==
  /\ In("WAIT_FOR_ATTRIBUTE_VALUE")
  /\ Go("IN_ATTRIBUTE_VALUE") /\ Mark("value_start")

WaitForAttributeValue ==
  /\ In("WAIT_FOR_ATTRIBUTE_VALUE")
  /\ \/ /\ Char = Quote
        /\ Deliver("ATTRIBUTE", "WAIT_FOR_ATTRIBUTE_OR_ENDING") /\ SameDepth
        /\ span' = [span EXCEPT !["value_start"] = position, !["value_end"] = position]
     \/ Char # Quote /\ Go("IN_ATTRIBUTE_VALUE") /\ Mark("value_start")

InAttributeValue ==
  /\ In("IN_ATTRIBUTE_VALUE")
  /\ \/ /\ Char = Quote /\ Mark("value_end")
        /\ Deliver("ATTRIBUTE", "WAIT_FOR_ATTRIBUTE_OR_ENDING") /\ SameDepth
     \/ Char # Quote /\ Go("IN_ATTRIBUTE_VALUE") /\ SameSpan

\* The second character that the two states below look at, if there is one.
Followed == position + 1 < Len(text)
NextChar == text[position + 2]

\* Mutant of GoTwo: the character after them is skipped as well.
GoTwoSkips(s) ==
  /\ parser_state' = s /\ position' = position + 3
  /\ UNCHANGED <<text, meaning, depth, token, pc, seen>>

\* Both characters are consumed.
GoTwo(s) ==
  /\ parser_state' = s /\ position' = position + 2
  /\ UNCHANGED <<text, meaning, depth, token, pc, seen>>

BeginCommentTag ==
  /\ In("BEGIN_COMMENT_TAG") /\ SameSpan
  /\ \/ Char # "-" /\ Go("BEGIN_COMMENT_TAG")
     \/ /\ Char = "-"
        /\ GoTwo(IF Followed /\ NextChar = "-" THEN "BEGIN_COMMENT" ELSE parser_state)

BeginComment == In("BEGIN_COMMENT") /\ Go("IN_COMMENT") /\ SameSpan

InComment ==
  /\ In("IN_COMMENT") /\ SameSpan
  /\ Go(IF Char = "-" THEN "END_COMMENT_TAG" ELSE "IN_COMMENT")

\* Mutant of CommentEnds: one "-" and a ">" end a comment.
CommentEndsEarly == Char = ">"

CommentEnds == Char = "-" /\ Followed /\ NextChar = ">"

EndCommentTag ==
  /\ In("END_COMMENT_TAG") /\ SameSpan
  /\ \/ /\ CommentEnds
        /\ parser_state' = "INITIAL" /\ position' = position + 2
        /\ token' = "COMMENT" /\ pc' = "caller" /\ seen' = seen + 1
        /\ SameDepth /\ UNCHANGED <<text, meaning>>
     \/ Char # "-" /\ Go("IN_COMMENT")
     \/ Char = "-" /\ ~CommentEnds /\ GoTwo("IN_COMMENT")

ReadChar ==
  \/ Initial \/ WaitForTagName \/ InTagName \/ WaitForTextOrTag \/ InText
  \/ WaitForStartOrEndTag \/ WaitForEndTagName \/ InEndTagName
  \/ WaitForAttributeOrEnding \/ WaitForEnding \/ InAttributeName
  \/ WaitForAttributeValueQuote \/ WaitForAttributeValue \/ InAttributeValue
  \/ BeginCommentTag \/ BeginComment \/ InComment \/ EndCommentTag

\* The text is at its end: no token.
EndOfText ==
  /\ pc = "scan" /\ ~More
  /\ token' = "NONE" /\ pc' = "caller"
  /\ UNCHANGED <<text, meaning, position, parser_state, depth, span, seen>>

GetToken == ReadChar \/ EndOfText
-------------------------------------------------------------------------------
\* The loop around xmlGetToken that every caller has.
NextToken ==
  /\ pc = "caller" /\ token # "NONE"
  /\ pc' = "scan" /\ token' = "NONE"
  /\ UNCHANGED <<text, meaning, position, parser_state, depth, span, seen>>

NoToken ==
  /\ pc = "caller" /\ token = "NONE"
  /\ pc' = "done"
  /\ UNCHANGED <<text, meaning, position, parser_state, depth, span, token, seen>>

Done == pc = "done" /\ UNCHANGED vars

Next == GetToken \/ NextToken \/ NoToken \/ Done

Spec == Init /\ [][Next]_vars

(***************************************************************************)
(* What the tests and getters return.                                      *)
(***************************************************************************)
Slice(from, to) == SubSeq(text, span[from] + 1, span[to])

\* xmlIsTag, xmlIsAttribute: the same word up to case.
IsTag(name) == Slice("tag_start", "tag_end") = name
IsAttribute(name) == Slice("name_start", "name_end") = name

\* Mutant of GetAttributeValue: no room is kept for the end of the string.
GetAttributeValueFull(old, n) ==
  LET value == Slice("value_start", "value_end")
  IN IF Len(value) > n THEN old ELSE value

\* xmlGetAttributeValue into a buffer of n bytes that holds old: a value
\* that does not fit leaves it alone.
GetAttributeValue(old, n) ==
  LET value == Slice("value_start", "value_end")
  IN IF Len(value) + 1 > n THEN old ELSE value
-------------------------------------------------------------------------------
(***************************************************************************)
(* How a document is written, from its text alone.  Every token has a      *)
(* place: `at' is the offset of its first letter, or of what follows its   *)
(* "<", `end' the offset of the character that ends it, and `open' how     *)
(* many elements are open then; `eq' is the offset of an attribute's "=".  *)
(***************************************************************************)
At(t, n) == t[n + 1]
Only(t, from, to, S) == \A n \in from..to - 1 : At(t, n) \in S
None(t, from, to, S) == \A n \in from..to - 1 : At(t, n) \notin S

StartTag(t, k, x, open) ==
  /\ k = [kind |-> "TAG", name |-> SubSeq(t, x.at + 1, x.end)] /\ x.open = open + 1
  /\ x.at < x.end
  /\ At(t, x.at) \in Alpha \cup (IF open = 0 THEN {"?"} ELSE {})
  /\ Only(t, x.at + 1, x.end, Alpha \cup Digit)
  /\ At(t, x.end) \in Space \cup {">", "/"}

EndTag(t, k, x, open) ==
  /\ k = [kind |-> "TAG_ENDING"] /\ 0 < open /\ x.open = open - 1
  /\ x.at + 1 < x.end
  /\ At(t, x.at) = "/" /\ At(t, x.at + 1) \in Alpha
  /\ None(t, x.at + 2, x.end, {">"}) /\ At(t, x.end) = ">"

\* No dash follows another one, but for the first two and the last two; and
\* there is a character between these.
CommentTag(t, k, x, open) ==
  /\ k = [kind |-> "COMMENT"] /\ x.open = open
  /\ x.at + 5 < x.end
  /\ At(t, x.at) = "!" /\ At(t, x.at + 1) = "-" /\ At(t, x.at + 2) = "-"
  /\ \A n \in x.at + 4..x.end - 3 : At(t, n) = "-" => At(t, n + 1) # "-"
  /\ At(t, x.end - 2) = "-" /\ At(t, x.end - 1) = "-" /\ At(t, x.end) = ">"

\* What may be behind a "<".
Markup(t, k, x, open) ==
  StartTag(t, k, x, open) \/ EndTag(t, k, x, open) \/ CommentTag(t, k, x, open)

AttributeAt(t, k, x, open) ==
  /\ k = [kind |-> "ATTRIBUTE", name |-> SubSeq(t, x.at + 1, x.eq),
          value |-> SubSeq(t, x.eq + 3, x.end)]
  /\ x.open = open
  /\ x.at < x.eq /\ x.eq + 2 <= x.end
  /\ At(t, x.at) \in Alpha /\ None(t, x.at, x.eq, {"="})
  /\ At(t, x.eq) = "=" /\ At(t, x.eq + 1) = Quote
  /\ None(t, x.eq + 2, x.end, {Quote}) /\ At(t, x.end) = Quote

EmptyTagEnd(t, k, x, open) ==
  /\ k = [kind |-> "TAG_ENDING"] /\ 0 < open /\ x.open = open - 1
  /\ At(t, x.end) = ">"

TextAt(t, k, x, open) ==
  /\ k = [kind |-> "TEXT"] /\ x.open = open
  /\ x.at < x.end /\ At(t, x.at) \in Alpha
  /\ None(t, x.at, x.end, {"<"}) /\ At(t, x.end) = "<"

\* Token k may come p characters into the text, behind a token that left off
\* in a start tag or elsewhere.
Comes(t, p, where, k, x, open) ==
  CASE where = "between" ->
         /\ p < x.at /\ Only(t, p, x.at - 1, Space)
         /\ At(t, x.at - 1) = "<" /\ Markup(t, k, x, open)
    [] where = "content" ->
         \/ /\ p < x.at /\ None(t, p, x.at - 1, Alpha \cup {"<"})
            /\ At(t, x.at - 1) = "<" /\ 0 < open /\ Markup(t, k, x, open)
         \/ p <= x.at /\ None(t, p, x.at, Alpha \cup {"<"}) /\ TextAt(t, k, x, open)
    [] where = "markup" -> x.at = p /\ 0 < open /\ Markup(t, k, x, open)
    [] where = "attributes" ->
         /\ p <= x.at /\ Only(t, p, x.at, Space)
         /\ \/ AttributeAt(t, k, x, open)
            \/ /\ At(t, x.at) \in {"/", "?"} /\ x.end = x.at + 1
               /\ EmptyTagEnd(t, k, x, open)
    [] where = "closing" -> x.end = p /\ EmptyTagEnd(t, k, x, open)

\* Behind the j-th token of d.
Offset(d, j) == IF j = 0 THEN 0 ELSE d.places[j].end + 1
Open(d, j) == IF j = 0 THEN 0 ELSE d.places[j].open
Where(d, j) ==
  IF j = 0 THEN "between"
  ELSE LET c == At(d.text, d.places[j].end)
       IN CASE d.tokens[j].kind = "TAG" ->
                 IF c = ">" THEN "content" ELSE IF c = "/" THEN "closing" ELSE "attributes"
            [] d.tokens[j].kind = "ATTRIBUTE" -> "attributes"
            [] d.tokens[j].kind = "TEXT" -> "markup"
            [] OTHER -> "between"

Written(d) ==
  LET n == Len(d.tokens)
  IN /\ IsText(d.text) /\ IsText(d.tokens) /\ Len(d.places) = n
     /\ \A j \in 1..n :
          /\ d.places[j].at \in Nat /\ d.places[j].end \in 0..Len(d.text) - 1
          /\ d.places[j].eq \in Nat /\ d.places[j].open \in Nat
          /\ Comes(d.text, Offset(d, j - 1), Where(d, j - 1), d.tokens[j], d.places[j],
                   Open(d, j - 1))
     /\ Where(d, n) = "between" /\ Open(d, n) = 0
     /\ Only(d.text, Offset(d, n), Len(d.text), Space)

DocumentsWritten == \A d \in Documents : Written(d)
-------------------------------------------------------------------------------
(***************************************************************************)
(* Correctness.                                                            *)
(***************************************************************************)
TypeOK ==
  /\ IsText(text)
  /\ position \in 0..Len(text) + 1
  /\ parser_state \in ParserStates
  /\ depth \in Int
  /\ span \in [Spans -> Nat \cup {Unset}]
  /\ token \in Tokens
  /\ pc \in {"scan", "caller", "done"}
  /\ seen \in Nat

\* States in which a tag has been opened that is not closed yet.
OpenStates ==
  {"WAIT_FOR_TEXT_OR_TAG", "IN_TEXT", "WAIT_FOR_START_OR_END_TAG",
   "WAIT_FOR_END_TAG_NAME", "IN_END_TAG_NAME", "WAIT_FOR_ENDING",
   "WAIT_FOR_ATTRIBUTE_OR_ENDING", "IN_ATTRIBUTE_NAME",
   "WAIT_FOR_ATTRIBUTE_VALUE_QUOTE", "WAIT_FOR_ATTRIBUTE_VALUE", "IN_ATTRIBUTE_VALUE"}

(***************************************************************************)
(* Whatever the text, the unsigned depth never goes below 0: the states    *)
(* that end a tag are reached with one open.                               *)
(***************************************************************************)
DepthNeverWraps == depth >= 0 /\ (parser_state \in OpenStates => depth > 0)

(***************************************************************************)
(* Whatever the text, what a caller may fetch after a token has been set   *)
(* and lies before the reader: a name that is not empty, and a value that  *)
(* starts after its name and runs to the first quote.                      *)
(***************************************************************************)
TagInText ==
  /\ 0 <= span["tag_start"] /\ span["tag_start"] < span["tag_end"]
  /\ span["tag_end"] < position /\ position <= Len(text)

AttributeInText ==
  /\ 0 <= span["name_start"] /\ span["name_start"] < span["name_end"]
  /\ span["name_end"] < span["value_start"] /\ span["value_start"] <= span["value_end"]
  /\ span["value_end"] < position /\ position <= Len(text)
  /\ \A n \in span["value_start"] + 1..span["value_end"] : text[n] # Quote

SpansInText ==
  pc = "caller" => /\ token = "TAG" => TagInText
                   /\ token = "ATTRIBUTE" => AttributeInText

(***************************************************************************)
(* Of a well formed document the caller gets exactly the tokens it         *)
(* consists of, with their names and values, and then none; comments,      *)
(* declarations and blanks between the tags do not disturb it, and at its  *)
(* end the reader is ready for the next document of the buffer.            *)
(***************************************************************************)
Returned ==
  CASE token = "TAG" -> [kind |-> "TAG", name |-> Slice("tag_start", "tag_end")]
    [] token = "ATTRIBUTE" ->
         [kind |-> "ATTRIBUTE", name |-> Slice("name_start", "name_end"),
          value |-> Slice("value_start", "value_end")]
    [] OTHER -> [kind |-> token]

TokensMatch ==
  pc = "caller" =>
    \A m \in meaning :
      IF token # "NONE"
      THEN seen <= Len(m) /\ m[seen] = Returned
      ELSE seen = Len(m) /\ depth = 0 /\ parser_state = "INITIAL"
===============================================================================
