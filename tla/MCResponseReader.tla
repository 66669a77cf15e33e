--------------------------- MODULE MCResponseReader ---------------------------
(***************************************************************************)
(* Contents of respbuf for ResponseReader: answers and log messages in     *)
(* documents of their own, up to three in a row; with the texts of         *)
(* MCXmlReader for the reader that takes all tokens.                      *)
(***************************************************************************)
EXTENDS ResponseReader, MCXmlReader

Letters == {"r", "l", "v", "w", "p", "a", "n", "t", "f", "z", "x"}

TheResponse == <<"r">>
TheLog == <<"l">>
TheValue == <<"v">>
TheRawMode == <<"w">>
TheMaxPayload == <<"p">>
TheAck == <<"a">>
TheNak == <<"n">>
TheYes == <<"t">>
TheNo == <<"f">>
TheSize == <<"z">>

\* <?x?><x><name attributes/></x>
Message(name, attributes) ==
  Joined(<<Tag(<<"?">>, <<"x">>, <<Blank>>, <<"?">>),
           Element(<<"x">>, <<>>, <<Tag(<<>>, name, attributes, <<"/">>)>>)>>)

TheValues == {Attribute("v", v) : v \in {TheAck, TheNak}}
Seconds == {Attribute("w", TheYes), Attribute("w", TheNo), Attribute("p", <<"1">>)}

Answers ==
  {Message(TheResponse, <<v>>) : v \in TheValues}
  \cup {Message(TheResponse, <<v, w>>) : v \in TheValues, w \in Seconds}
  \cup {Message(TheResponse, <<w, v, Blank>>) : v \in TheValues, w \in Seconds}
Odd ==
  {Message(TheResponse, <<Attribute("w", TheYes)>>),
   Message(TheResponse, <<Attribute("v", <<"a", "x", "x">>), Attribute("w", TheNo)>>)}
Logs ==
  {Message(TheLog, <<Attribute("v", v)>>) : v \in {<<"z", "1">>, TheAck}}
  \cup {Message(TheLog, <<Attribute("v", TheAck), Attribute("w", TheYes)>>)}
Messages == Answers \cup Odd \cup Logs

Content(p, cuts) ==
  LET d == Document(p)
  IN [text |-> d.text, tokens |-> d.tokens, places |-> d.places, cuts |-> cuts]

BufferTexts ==
  {Content(d, 0..Len(d.chars)) : d \in Messages}
  \cup {LET d == Joined(<<a, b>>) IN Content(d, {Len(d.chars) - n : n \in {7, 8, 12}}) :
          a, b \in Messages}
  \cup {Content(Joined(<<a, b, c>>), {}) : a \in Logs, b \in Answers, c \in Logs}

ASSUME BuffersArePlain == PlainMessages
ASSUME BuffersAreWritten == BuffersWritten
===============================================================================
