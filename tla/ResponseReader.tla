---------------------------- MODULE ResponseReader ----------------------------
(***************************************************************************)
(* The functions that read the answers of the device: each takes the       *)
(* tokens of what is in respbuf, from its start, until it can decide ACK   *)
(* or NAK, or there is none left: NIL.  respbuf may hold several messages, *)
(* and the last of them may be cut off.  `Buffers' are the contents of     *)
(* respbuf, with the lengths at which they may be looked at too early.     *)
(*                                                                         *)
(* The reader "all" is the loop of the functions that read the XML files:  *)
(* it takes every token there is, of any text.                             *)
(***************************************************************************)
EXTENDS XmlReader, SequencesExt, FiniteSetsExt

CONSTANTS Buffers,                       \* documents with cuts: [text, tokens, places, cuts]
          Response, Log,                 \* names of tags
          Value, RawMode, MaxPayload,    \* names of attributes
          Ack, Yes, No, Size,            \* "ACK", "true", "false", "eMMC size="
          BufSize                        \* of the buffers for values

ASSUME NameAssumption ==
  /\ Response # Log /\ Value # RawMode /\ Value # MaxPayload
  /\ Len(Ack) \in Nat \ {0} /\ Len(Size) \in Nat \ {0}
  /\ BufSize \in Nat \ {0}

ASSUME BufferAssumption ==
  \A d \in Buffers : /\ IsText(d.text) /\ IsText(d.tokens)
                    /\ d.cuts \subseteq 0..Len(d.text)

VARIABLES reader,        \* which of the functions
          whole,         \* history: the text is not cut off
          isResponse, isLog,
          ack, second,   \* ack; rawmode or maxpayload_support
          sized,         \* NUM_DISK_SECTORS > 0
          verdict

clientVars == <<reader, whole, isResponse, isLog, ack, second, sized, verdict>>
allVars == <<vars, clientVars>>

RawReaders == {"program", "chunk"}
Readers == {"common", "maxpayload", "emmc", "all"} \cup RawReaders

ReaderInit ==
  /\ \/ Init /\ reader = "all" /\ whole = TRUE
     \/ /\ InitReader
        /\ \E d \in Buffers : \E n \in d.cuts \cup {Len(d.text)} :
             /\ text = SubSeq(d.text, 1, n) /\ whole = (n = Len(d.text))
             /\ meaning = {d.tokens}
        /\ reader \in Readers \ {"all"}
  /\ isResponse = FALSE /\ isLog = FALSE
  /\ ack = <<>> /\ second = <<>> /\ sized = FALSE /\ verdict = "none"
-------------------------------------------------------------------------------
\* strncasecmp with the length of the word.
Starts(word, s) == IsPrefix(word, s)

\* The reader returns v: the rest of the text is not looked at.
Return(v) ==
  /\ verdict' = v /\ pc' = "done"
  /\ UNCHANGED <<text, meaning, position, parser_state, depth, span, token, seen>>

GoOn == NextToken /\ UNCHANGED verdict

AckOr(good) == IF good THEN "ACK" ELSE "NAK"

\* Mutant of ClearsAt: answers that were read before are not forgotten.
ClearsAtNone == FALSE

(***************************************************************************)
(* Where the buffers are cleared: get_maxpayload_support_from_xreader does *)
(* it at every tag, program_response_xml_reader and                        *)
(* transmit_chunk_response_xml_reader at <response>, the others nowhere.   *)
(***************************************************************************)
ClearsAt ==
  reader = "maxpayload" \/ (reader \in RawReaders /\ IsTag(Response))

AtTag ==
  /\ pc = "caller" /\ token = "TAG"
  /\ isResponse' = IsTag(Response)
  /\ isLog' = (reader = "emmc" /\ IsTag(Log))
  /\ ack' = IF ClearsAt THEN <<>> ELSE ack
  /\ second' = IF ClearsAt THEN <<>> ELSE second
  /\ GoOn
  /\ UNCHANGED <<reader, whole, sized>>

\* common_response_xml_reader decides by the first value there is.
CommonAttribute ==
  /\ reader = "common"
  /\ IF isResponse /\ IsAttribute(Value)
     THEN Return(AckOr(Starts(Ack, GetAttributeValue(<<>>, BufSize))))
     ELSE GoOn
  /\ UNCHANGED <<ack, second, sized>>

RawModeWanted == IF reader = "program" THEN Yes ELSE No

\* The three readers that want a second attribute.
PairAttribute ==
  /\ reader \in RawReaders \cup {"maxpayload"} /\ UNCHANGED sized
  /\ LET name == IF reader = "maxpayload" THEN MaxPayload ELSE RawMode
         take(a, old) ==
           IF isResponse /\ IsAttribute(a) THEN GetAttributeValue(old, BufSize) ELSE old
     IN /\ ack' = take(Value, ack) /\ second' = take(name, second)
        /\ IF isResponse /\ ack' # <<>> /\ second' # <<>>
           THEN Return(AckOr(/\ Starts(Ack, ack')
                             /\ reader \in RawReaders => Starts(RawModeWanted, second')))
           ELSE GoOn

\* firehose_emmc_info_response_xml_reader waits for a <log> with the size.
EmmcAttribute ==
  /\ reader = "emmc" /\ UNCHANGED second
  /\ ack' = IF isResponse /\ IsAttribute(Value) THEN GetAttributeValue(ack, BufSize) ELSE ack
  /\ sized' = \/ sized
              \/ /\ isLog /\ IsAttribute(Value)
                 /\ Starts(Size, GetAttributeValue(<<>>, BufSize))
  /\ IF ack' # <<>> /\ (Starts(Ack, ack') => sized')
     THEN Return(AckOr(Starts(Ack, ack')))
     ELSE GoOn

\* The values are stored, which RawProgram is about.
AnyAttribute == reader = "all" /\ GoOn /\ UNCHANGED <<ack, second, sized>>

AtAttribute ==
  /\ pc = "caller" /\ token = "ATTRIBUTE"
  /\ CommonAttribute \/ PairAttribute \/ EmmcAttribute \/ AnyAttribute
  /\ UNCHANGED <<reader, whole, isResponse, isLog>>

AtOther ==
  /\ token \notin {"TAG", "ATTRIBUTE"} /\ GoOn
  /\ UNCHANGED clientVars

AtNone ==
  /\ NoToken /\ verdict' = "NIL"
  /\ UNCHANGED <<reader, whole, isResponse, isLog, ack, second, sized>>

Read == GetToken /\ UNCHANGED clientVars
Stopped == pc = "done" /\ UNCHANGED allVars

ReaderNext == Read \/ AtTag \/ AtAttribute \/ AtOther \/ AtNone \/ Stopped

ReaderSpec == ReaderInit /\ [][ReaderNext]_allVars
-------------------------------------------------------------------------------
(***************************************************************************)
(* What an answer is, in terms of the elements of the messages.  An        *)
(* element is the index of its TAG token.                                  *)
(***************************************************************************)
Elements(m, name) == {j \in DOMAIN m : m[j].kind = "TAG" /\ m[j].name = name}

\* The values of attribute a of element j, the empty and the too long left out.
ValuesOf(m, j, a) ==
  {m[h].value : h \in {h \in j + 1..Len(m) :
     /\ \A g \in j + 1..h : m[g].kind = "ATTRIBUTE"
     /\ m[h].name = a /\ m[h].value # <<>> /\ Len(m[h].value) < BufSize}}

Acked(m, j) == \E v \in ValuesOf(m, j, Value) : Starts(Ack, v)
HasBoth(m, j, a) == ValuesOf(m, j, Value) # {} /\ ValuesOf(m, j, a) # {}
Sizes(m) == {j \in Elements(m, Log) : \E v \in ValuesOf(m, j, Value) : Starts(Size, v)}

\* The first of the elements in S decides, ACK if it is a good one.
ByFirst(S, good) == IF S = {} THEN "NIL" ELSE AckOr(Min(S) \in good)

\* An element with the attribute, whatever its value.
Has(m, j, a) ==
  \E h \in j + 1..Len(m) :
    (\A g \in j + 1..h : m[g].kind = "ATTRIBUTE") /\ m[h].name = a

ExpectedByOne(m) ==
  LET R == Elements(m, Response)
  IN ByFirst({j \in R : Has(m, j, Value)}, {j \in R : Acked(m, j)})

\* Two attributes: a has to start with the word as well.
ExpectedByTwo(m, a, word) ==
  LET R == Elements(m, Response)
  IN ByFirst({j \in R : HasBoth(m, j, a)},
             {j \in R : Acked(m, j) /\ \E v \in ValuesOf(m, j, a) : Starts(word, v)})

\* The last <response> so far, and the size if that is an ACK.
ExpectedOfEmmc(m) ==
  LET A == {j \in Elements(m, Response) : ValuesOf(m, j, Value) # {}}
      last(i) == Max({j \in A : j <= i})
      S == {i \in A \cup Sizes(m) :
              /\ \E j \in A : j <= i
              /\ Acked(m, last(i)) => \E j \in Sizes(m) : j <= i}
  IN ByFirst(S, {i \in S : Acked(m, last(i))})

Expected(m) ==
  CASE reader = "all" -> "NIL"
    [] reader = "common" -> ExpectedByOne(m)
    [] reader = "maxpayload" -> ExpectedByTwo(m, MaxPayload, <<>>)
    [] reader = "program" -> ExpectedByTwo(m, RawMode, Yes)
    [] reader = "chunk" -> ExpectedByTwo(m, RawMode, No)
    [] reader = "emmc" -> ExpectedOfEmmc(m)

(***************************************************************************)
(* Correctness.                                                            *)
(***************************************************************************)
ReaderTypeOK ==
  /\ TypeOK
  /\ reader \in Readers /\ whole \in BOOLEAN
  /\ isResponse \in BOOLEAN /\ isLog \in BOOLEAN /\ sized \in BOOLEAN
  /\ Len(ack) < BufSize /\ Len(second) < BufSize
  /\ verdict \in {"none", "ACK", "NAK", "NIL"}

\* The tokens of a text that is not cut off are those of its documents, and
\* before a cut they are the first of them.
TokensAgree == whole \/ token # "NONE" => TokensMatch

(***************************************************************************)
(* What is known of the messages of the device: an element has no          *)
(* attribute twice, as in XML, and a value that stands for the outcome is  *)
(* not empty.  firehose_emmc_info_response_xml_reader would take the empty *)
(* value of a second <response> for none at all.                           *)
(***************************************************************************)
Plain(m) ==
  /\ \A g, h \in DOMAIN m :
       g < h /\ (\A k \in g..h : m[k].kind = "ATTRIBUTE") => m[g].name # m[h].name
  /\ \A h \in DOMAIN m : m[h].kind = "ATTRIBUTE" /\ m[h].name = Value => m[h].value # <<>>

PlainMessages == \A d \in Buffers : Plain(d.tokens)

BuffersWritten == \A d \in Buffers : Written(d)

(***************************************************************************)
(* Each reader decides as its command wants: by the first <response> that  *)
(* has all it waits for, and by the attributes of that one element alone,  *)
(* however many log messages and other answers are before it in the        *)
(* buffer; and a look at a message of which a part has not arrived yet     *)
(* either says NIL or what the whole message will say.                     *)
(***************************************************************************)
DecisionMatches ==
  pc = "done" =>
    \A m \in meaning : verdict = Expected(m) \/ (~whole /\ verdict = "NIL")
===============================================================================
