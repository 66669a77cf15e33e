------------------------------- MODULE XmlWriter -------------------------------
(***************************************************************************)
(* The XML writer of xml_parser.c: a document is put together in a buffer  *)
(* of fixed size, and every call that adds to it leaves the room that the  *)
(* closing of the open tags will take.  A call that does not find room     *)
(* returns FALSE with part of its work done; xmlWriterRollback then goes   *)
(* back to the last point that was marked.                                 *)
(*                                                                         *)
(* Two kinds of client are modelled, as the header's two groups of         *)
(* functions suggest: one that builds tags and rolls back after a FALSE,   *)
(* and one that only uses the Raw functions.                               *)
(***************************************************************************)
EXTENDS Integers, Sequences, SequencesExt

CONSTANTS
  Chars,       \* characters
  Letters,     \* isalpha
  Lengths,     \* Lengths[c]: sizes of the buffer of a client c
  TagNames,    \* names of tags: xmlWriterCloseTag copies letters only
  Attributes,  \* <<name, value>> pairs
  Texts        \* texts

StackSize == 4   \* tag_name_position_stack[4]; the client opens no fifth tag

ASSUME LettersAssumption ==
  /\ Letters \cup {" ", "<", ">", "/", "=", "q"} \subseteq Chars
  /\ Letters \cap {" ", "<", ">", "/"} = {}

ASSUME LengthsAssumption == \A c \in {"tags", "raw"} : Lengths[c] \subseteq Nat

ASSUME NamesAreLetters == TagNames \subseteq Seq(Letters) \ {<<>>}

\* Nothing is escaped: that is left to the client.
ASSUME ContentAssumption ==
  /\ Texts \subseteq Seq(Chars) /\ \A t \in Texts : \A k \in 1..Len(t) : t[k] # "<"
  /\ Attributes \subseteq Seq(Chars) \X Seq(Chars)
  /\ \A a \in Attributes : \A x \in {a[1], a[2]} : \A k \in 1..Len(x) : x[k] # ">"

VARIABLES
  client,  \* "tags" or "raw"
  length,  \* length of the buffer
  w,       \* the writer, and the names of the open tags
  call     \* the last call of the client

vars == <<client, length, w, call>>
-------------------------------------------------------------------------------
(***************************************************************************)
(* w.text is the buffer up to write_position; w.ok is the result of the    *)
(* last call.  What is beyond write_position is never read.                *)
(***************************************************************************)
Point(text, state, depth, space, names) ==
  [text |-> text, state |-> state, depth |-> depth, space |-> space, names |-> names]

Here(u) == Point(u.text, u.state, u.depth, u.space, u.names)

Empty == Point(<<>>, "initial", 0, 0, <<>>)

xmlInitWriter ==
  [text |-> <<>>, state |-> "initial", stack |-> [k \in 1..StackSize |-> 0],
   depth |-> 0, space |-> 0, rollback |-> Empty, ok |-> TRUE, names |-> <<>>]

xmlWriterMarkRollbackPoint(u) == [u EXCEPT !.rollback = Here(u)]

xmlWriterRollback(u) ==
  [u EXCEPT !.text = u.rollback.text, !.state = u.rollback.state, !.depth = u.rollback.depth,
            !.space = u.rollback.space, !.names = u.rollback.names, !.ok = TRUE]

xmlWriterReset(u) == [xmlInitWriter EXCEPT !.stack = u.stack]

Failed(u) == [u EXCEPT !.ok = FALSE]

(***************************************************************************)
(* Pieces of text are appended as long as they fit in what the limit       *)
(* leaves.  snprintf also wants room for its final NUL, a copy does not.   *)
(***************************************************************************)
Format(text) == [text |-> text, nul |-> 1]
Copy(text) == [text |-> text, nul |-> 0]

Append1(u, piece, limit) ==
  IF u.ok /\ Len(u.text) + Len(piece.text) + piece.nul <= limit
  THEN [u EXCEPT !.text = @ \o piece.text]
  ELSE Failed(u)

\* Mutant of Room: nothing is kept for the closing tags.
RoomUnreserved(u) == length

Room(u) == length - u.space

\* '>' ends the start tag; the point before it is marked.
EndStartTag(u) ==
  IF Len(u.text) < length
  THEN LET v == xmlWriterMarkRollbackPoint(u)
       IN [v EXCEPT !.text = Append(@, ">"), !.space = @ - 1]
  ELSE Failed(u)
-------------------------------------------------------------------------------
\* Mutant of NameAt: the stack is read one place off.
NameAtBelow(u, k) ==
  LET from == u.stack[IF k > 1 THEN k - 1 ELSE k]
      past == CHOOSE p \in from..(Len(u.text) + 1) :
                /\ p > Len(u.text) \/ u.text[p] \notin Letters
                /\ \A q \in from..(p - 1) : u.text[q] \in Letters
  IN SubSeq(u.text, from, past - 1)

\* The letters at the place of the name of the k-th open tag.
NameAt(u, k) ==
  LET from == u.stack[k]
      past == CHOOSE p \in from..(Len(u.text) + 1) :
                /\ p > Len(u.text) \/ u.text[p] \notin Letters
                /\ \A q \in from..(p - 1) : u.text[q] \in Letters
  IN SubSeq(u.text, from, past - 1)

(***************************************************************************)
(* "</" and '>' are checked against the length, the copied name is not.    *)
(***************************************************************************)
CloseName(u) ==
  LET v == [u EXCEPT !.depth = @ - 1]
      name == NameAt(u, u.depth)
      end == Len(u.text) + 2 + Len(name)
  IN IF Len(u.text) + 3 > length THEN Failed(v)
     ELSE IF end >= length
     THEN Failed([v EXCEPT !.text = @ \o <<"<", "/">> \o name,
                           !.space = @ - 2 - Len(name)])
     ELSE xmlWriterMarkRollbackPoint(
            [v EXCEPT !.text = @ \o <<"<", "/">> \o name \o <<">">>,
                      !.space = @ - 3 - Len(name), !.names = Front(@)])

xmlWriterCloseTag(u) ==
  IF u.depth = 0 THEN Failed(u)
  ELSE IF u.state = "halfclosed" THEN CloseName(u)
  ELSE LET v == EndStartTag(u)
       IN IF v.ok THEN CloseName([v EXCEPT !.state = "halfclosed"]) ELSE v

CloseOne(u, d) == IF u.ok /\ u.depth > d THEN xmlWriterCloseTag(u) ELSE u

\* Close tags as long as that works and more than d are open, of which there
\* are no more than StackSize.
CloseDownTo(u, d) == CloseOne(CloseOne(CloseOne(CloseOne(u, d), d), d), d)

\* The result is that of the depth, which a failed close has also lowered.
xmlWriterFinalize(u) ==
  LET v == CloseDownTo(u, 0) IN [v EXCEPT !.ok = (v.depth = 0)]

\* Mutant of Closing: the '>' of the start tag is not counted.
ClosingShort(name) == Len(name) + 3

\* strlen(tag_name) + strlen("></>")
Closing(name) == Len(name) + 4

xmlWriterStartTag(u, name) ==
  LET v == IF u.state = "opened" THEN EndStartTag(u) ELSE u
      r == [v EXCEPT !.space = @ + Closing(name)]
      x == Append1(r, Format(<<"<">> \o name), Room(r))
  IN IF ~v.ok THEN v
     ELSE IF ~x.ok THEN x
     ELSE [x EXCEPT !.depth = @ + 1, !.stack[x.depth + 1] = Len(r.text) + 2,
                    !.state = "opened", !.names = Append(@, name)]

xmlWriterStartChildTag(u, name) ==
  LET v == CloseDownTo(u, 1) IN IF v.ok THEN xmlWriterStartTag(v, name) ELSE v

InStartTag(u, v) == IF u.state = "opened" THEN v ELSE Failed(u)

\* Inside of a start tag.
Add(u, piece) == Append1(u, piece, Room(u))

Quoted(value) == <<"q">> \o value \o <<"q">>

xmlWriterWriteAttribute(u, a) ==
  InStartTag(u, Add(u, Format(<<" ">> \o a[1] \o <<"=">> \o Quoted(a[2]))))

xmlWriterWriteAttributeValueFromBuffer(u, a) ==
  LET name == Add(u, Format(<<" ">> \o a[1] \o <<"=", "q">>))
  IN InStartTag(u, Add(Add(name, Copy(a[2])), Copy(<<"q">>)))

AddName(u, a) == Add(u, Format(<<" ">> \o a[1] \o <<"=">>))
AddNameAndValue(u, a) == Add(AddName(u, a), Format(Quoted(a[2])))

\* Two arguments, the second of which may have an unknown format: an error
\* after its name.
xmlWriterWriteMultipleAttributes(u, a, b, known) ==
  LET one == AddNameAndValue(u, a)
  IN InStartTag(u, IF known THEN AddNameAndValue(one, b) ELSE Failed(AddName(one, b)))

\* Text ends the start tag, so there is one text, before any child.
TextAfterStartTag(u, piece) ==
  IF u.state # "opened" THEN Failed(u)
  ELSE LET v == EndStartTag(u)
           x == Append1(v, piece, Room(v))
       IN IF x.ok THEN xmlWriterMarkRollbackPoint([x EXCEPT !.state = "halfclosed"]) ELSE x

xmlWriterWriteText(u, t) == TextAfterStartTag(u, Format(t))
xmlWriterWriteTextFromBuffer(u, t) == TextAfterStartTag(u, Copy(t))
-------------------------------------------------------------------------------
(***************************************************************************)
(* The Raw functions keep nothing free for closing tags.                   *)
(***************************************************************************)
xmlWriterRawWrite(u, t) == Append1(u, Format(t), length)
xmlWriterRawWriteFromBuffer(u, t) == Append1(u, Copy(t), length)

xmlWriterRawStartTag(n) == <<"<">> \o n
xmlWriterRawStartTagNoAttributes(n) == <<"<">> \o n \o <<">">>
xmlWriterRawWriteAttribute(a) == <<" ">> \o a[1] \o <<"=">> \o Quoted(a[2])
xmlWriterRawCloseTag == <<" ", "/", ">">>
xmlWriterRawCloseTagName(n) == <<"<", "/">> \o n \o <<">">>

RawTexts ==
  {xmlWriterRawStartTag(n) : n \in TagNames}
    \cup {xmlWriterRawStartTagNoAttributes(n) : n \in TagNames}
    \cup {xmlWriterRawCloseTagName(n) : n \in TagNames}
    \cup {xmlWriterRawWriteAttribute(a) : a \in Attributes} \cup {xmlWriterRawCloseTag}

\* Mutant of RawValueFits: the name is forgotten.
RawValueFitsNameless(u, a) == Len(u.text) + Len(a[2]) + 4 <= length

RawValueFits(u, a) == Len(u.text) + Len(a[1]) + Len(a[2]) + 4 <= length

\* Three raw writes whose results are not looked at.
xmlWriterRawWriteAttributeValueFromBuffer(u, a) ==
  LET next(v, x) == [x EXCEPT !.ok = TRUE]
      one == xmlWriterRawWrite(u, <<" ">> \o a[1] \o <<"=", "q">>)
      two == xmlWriterRawWriteFromBuffer(next(u, one), a[2])
      three == xmlWriterRawWrite(next(one, two), <<"q">>)
  IN IF RawValueFits(u, a) THEN next(two, three) ELSE Failed(u)
-------------------------------------------------------------------------------
Init ==
  /\ client \in {"tags", "raw"}
  /\ length \in Lengths[client]
  /\ w = xmlInitWriter
  /\ call = "init"

Called(name, u) == w' = u /\ call' = name /\ UNCHANGED <<client, length>>

\* A client that builds tags, the last call of which returned TRUE.
Tags == client = "tags" /\ w.ok
Fresh == [w EXCEPT !.ok = TRUE]

StartTag ==
  Tags /\ w.depth < StackSize
    /\ \E n \in TagNames : Called("start", xmlWriterStartTag(w, n))
StartChildTag == Tags /\ \E n \in TagNames : Called("child", xmlWriterStartChildTag(w, n))
CloseTag == Tags /\ Called("close", xmlWriterCloseTag(w))
Finalize == Tags /\ Called("finalize", xmlWriterFinalize(w))

WriteAttribute ==
  Tags /\ \E a \in Attributes :
            \/ Called("attribute", xmlWriterWriteAttribute(w, a))
            \/ Called("attribute", xmlWriterWriteAttributeValueFromBuffer(w, a))
            \/ \E b \in Attributes, known \in BOOLEAN :
                 Called("attribute", xmlWriterWriteMultipleAttributes(w, a, b, known))

WriteText ==
  Tags /\ \E t \in Texts : \/ Called("text", xmlWriterWriteText(w, t))
                           \/ Called("text", xmlWriterWriteTextFromBuffer(w, t))

\* Always possible, and all that is done after a FALSE.
Rollback == client = "tags" /\ Called("rollback", xmlWriterRollback(w))
Reset == Called("reset", xmlWriterReset(w))

RawWrite ==
  client = "raw" /\ \/ \E t \in RawTexts : Called("raw", xmlWriterRawWrite(Fresh, t))
                    \/ \E t \in Texts : Called("raw", xmlWriterRawWriteFromBuffer(Fresh, t))
RawWriteAttributeValueFromBuffer ==
  client = "raw" /\ \E a \in Attributes :
    Called("rawvalue", xmlWriterRawWriteAttributeValueFromBuffer(Fresh, a))

Next ==
  \/ StartTag \/ StartChildTag \/ CloseTag \/ Finalize \/ WriteAttribute \/ WriteText
  \/ Rollback \/ Reset \/ RawWrite \/ RawWriteAttributeValueFromBuffer

Spec == Init /\ [][Next]_vars
-------------------------------------------------------------------------------
(***************************************************************************)
(* How a reader takes a text: the tags that are open at its end, the       *)
(* innermost last, and what the text stops in.                             *)
(***************************************************************************)
Reads(s, c) ==
  CASE s.in = "text" -> IF c = "<" THEN [s EXCEPT !.in = "open", !.name = <<>>] ELSE s
    [] s.in = "open" /\ c = "/" /\ s.name = <<>> -> [s EXCEPT !.in = "close"]
    [] s.in \in {"open", "close"} /\ c \in Letters -> [s EXCEPT !.name = Append(@, c)]
    [] s.in = "open" /\ c \in {" ", ">"} ->
         [s EXCEPT !.in = IF c = ">" THEN "text" ELSE "attributes", !.open = Append(@, s.name)]
    [] s.in = "attributes" -> IF c = ">" THEN [s EXCEPT !.in = "text"] ELSE s
    [] s.in = "close" /\ c = ">" /\ s.open # <<>> /\ Last(s.open) = s.name ->
         [s EXCEPT !.in = "text", !.open = Front(@)]
    [] OTHER -> [s EXCEPT !.in = "wrong"]

\* What has been read after k characters.
ReadTo(text) ==
  LET R[k \in 0..Len(text)] ==
        IF k = 0 THEN [in |-> "text", name |-> <<>>, open |-> <<>>]
        ELSE Reads(R[k - 1], text[k])
  IN R

Read(text) == ReadTo(text)[Len(text)]

Whole(text) == Read(text).in = "text" /\ Read(text).open = <<>>

OpenIn(text) ==
  LET s == Read(text) IN IF s.in = "open" THEN Append(s.open, s.name) ELSE s.open
-------------------------------------------------------------------------------
(***************************************************************************)
(* Nothing is written past the end of the buffer, the room kept for the    *)
(* closing tags (an unsigned number) does not go below zero and is there   *)
(* unless the last call failed, and the fields have their types.           *)
(***************************************************************************)
TypeOK ==
  /\ client \in {"tags", "raw"} /\ length \in Lengths[client]
  /\ Len(w.text) <= length /\ Len(w.rollback.text) <= length
  /\ w.state \in {"initial", "halfclosed", "opened"} /\ w.ok \in BOOLEAN
  /\ w.depth \in 0..StackSize /\ w.space \in Nat
  /\ w.ok => Len(w.text) + w.space <= length
  /\ \A k \in 1..w.depth : w.stack[k] \in 1..(Len(w.text) + 1)

(***************************************************************************)
(* A client that rolls back after a FALSE always has a text that reads as  *)
(* what its calls said: the tags it opened and did not close are open,     *)
(* every end tag has the name of the start tag it ends.  The names are not *)
(* kept, they are copied out of the text at the places on the stack.       *)
(***************************************************************************)
TextMatches ==
  client = "tags" /\ w.ok =>
    /\ Read(w.text).in # "wrong"
    /\ OpenIn(w.text) = w.names
    /\ Len(w.names) = w.depth

(***************************************************************************)
(* Whatever such a client has written, and also when its last call failed  *)
(* and is rolled back, xmlWriterFinalize finds the room to close the tags: *)
(* it returns TRUE and the document is whole.  (TRUE alone says little: it *)
(* also comes when the closing of the last tag failed.)                    *)
(***************************************************************************)
Closable ==
  client = "tags" =>
    LET u == xmlWriterFinalize(IF w.ok THEN w ELSE xmlWriterRollback(w))
    IN u.ok /\ Whole(u.text) /\ Len(u.text) <= length

(***************************************************************************)
(* xmlWriterRawWriteAttributeValueFromBuffer ignores the results of its    *)
(* three writes because it has checked that all fits.  The quote that ends *)
(* the value is there when it returns TRUE, unless it would have taken the *)
(* last byte of the buffer: that one snprintf needs for its NUL.           *)
(***************************************************************************)
RawValueEnds ==
  call = "rawvalue" /\ w.ok /\ Len(w.text) # length - 1 =>
    w.text # <<>> /\ Last(w.text) = "q"
===============================================================================
