------------------------- MODULE ResponseReaderProofs -------------------------
(***************************************************************************)
(* What holds of the readers of answers, for messages of any number and    *)
(* length, cut off anywhere: the types, with the bounds of the buffers for *)
(* values; what XmlReaderProofs shows, now under these callers; that a     *)
(* reader is given the tokens of its messages; and that it decides as its  *)
(* command wants.                                                          *)
(***************************************************************************)
EXTENDS ResponseReader, XmlReaderProofs, SequenceTheorems, WellFoundedInduction

(***************************************************************************)
(* The first p tokens of a message m, and what is known of element j by    *)
(* then.                                                                   *)
(***************************************************************************)
\* Token h is an attribute of element j.
Belongs(m, j, h) == \A g \in j + 1..h : m[g].kind = "ATTRIBUTE"

Fits(v) == v # <<>> /\ Len(v) < BufSize

Given(m, j, a, p) ==
  {m[h].value : h \in {h \in j + 1..p :
     Belongs(m, j, h) /\ m[h].name = a /\ Fits(m[h].value)}}

\* c is the last element that has begun.
Current(m, c, p) ==
  /\ c \in 1..p /\ m[c].kind = "TAG"
  /\ \A g \in c + 1..p : m[g].kind # "TAG"

(***************************************************************************)
(* The variables of a reader after p tokens of m, while it is undecided.   *)
(***************************************************************************)
Responses(m) == Elements(m, Response)
PairReaders == RawReaders \cup {"maxpayload"}
Wanted == IF reader = "maxpayload" THEN MaxPayload ELSE RawMode

Flagged(m, p) ==
  \A c \in 1..p : Current(m, c, p) =>
    /\ isResponse <=> m[c].name = Response
    /\ reader = "emmc" => (isLog <=> m[c].name = Log)

\* common: no <response> had the attribute.
CommonKept(m, p) ==
  \A j \in Responses(m) : \A h \in j + 1..p : Belongs(m, j, h) => m[h].name # Value

\* The readers of two attributes: the buffers hold what the current
\* <response> has given, and no <response> had both.
PairKept(m, p) ==
  /\ \A c \in 1..p : Current(m, c, p) /\ isResponse =>
       /\ Given(m, c, Value, p) = {ack} \ {<<>>}
       /\ Given(m, c, Wanted, p) = {second} \ {<<>>}
  /\ \A j \in Responses(m) : Given(m, j, Value, p) = {} \/ Given(m, j, Wanted, p) = {}

\* emmc: ack is from the last <response> that had one, each of them was an
\* ACK, and the size has only been seen if there was none of them.
EmmcKept(m, p) ==
  /\ ack = <<>> => \A j \in Responses(m) : Given(m, j, Value, p) = {}
  /\ ack # <<>> =>
       /\ \E j \in Responses(m) :
            /\ Given(m, j, Value, p) = {ack}
            /\ \A k \in Responses(m) : k > j => Given(m, k, Value, p) = {}
       /\ \A j \in Responses(m) : \A v \in Given(m, j, Value, p) : Starts(Ack, v)
       /\ ~sized
  /\ sized <=> \E j \in Elements(m, Log) : \E v \in Given(m, j, Value, p) : Starts(Size, v)

Kept(m, p) ==
  /\ Flagged(m, p)
  /\ reader = "common" => CommonKept(m, p)
  /\ reader \in PairReaders => PairKept(m, p)
  /\ reader = "emmc" => EmmcKept(m, p)

(***************************************************************************)
(* The states of the automaton between the name and the end of a tag, in   *)
(* which the tokens since the last TAG are attributes.                     *)
(***************************************************************************)
AttributeStates ==
  {"WAIT_FOR_ATTRIBUTE_OR_ENDING", "IN_ATTRIBUTE_NAME", "WAIT_FOR_ATTRIBUTE_VALUE_QUOTE",
   "WAIT_FOR_ATTRIBUTE_VALUE", "IN_ATTRIBUTE_VALUE"}

InTag(m) ==
  \E c \in 1..seen : m[c].kind = "TAG" /\ Belongs(m, c, seen)

\* The tokens that the reader has looked at.
Taken == IF pc = "caller" /\ token # "NONE" THEN seen - 1 ELSE seen

Tracked ==
  /\ pc = "scan" => token = "NONE"
  /\ pc = "caller" /\ token = "ATTRIBUTE" => parser_state = "WAIT_FOR_ATTRIBUTE_OR_ENDING"
  /\ pc = "caller" /\ token # "NONE" => seen > 0
  /\ \A m \in meaning :
       /\ IsText(m) /\ Plain(m) /\ seen <= Len(m)
       /\ parser_state \in AttributeStates => InTag(m)
       /\ \A p \in 0..seen : pc # "done" /\ p = Taken => Kept(m, p)

Decided == (reader # "all" => Tracked) /\ DecisionMatches
-------------------------------------------------------------------------------
(***************************************************************************)
(* Types.  A value that a reader takes fits its buffer.                    *)
(***************************************************************************)
BuffersTyped == Len(ack) \in 0..BufSize - 1 /\ Len(second) \in 0..BufSize - 1

BasicInv ==
  /\ IInv /\ BuffersTyped
  /\ reader \in Readers /\ whole \in BOOLEAN
  /\ isResponse \in BOOLEAN /\ isLog \in BOOLEAN /\ sized \in BOOLEAN
  /\ verdict \in {"none", "ACK", "NAK", "NIL"}

LEMMA ValueLength ==
  ASSUME TypeOK, AttributeInText
  PROVE  Len(Slice("value_start", "value_end")) \in Nat
<1> DEFINE a == span["value_start"]
           b == span["value_end"]
           T == {text[n] : n \in 1..Len(text)}
<1>1. a + 1 \in Int /\ b \in Int /\ \A f \in Spans : span[f] \in Int
  BY DEF TypeOK, Spans, Unset
<1>2. 0 < a + 1 /\ b <= Len(text)
  BY <1>1 DEF AttributeInText, TypeOK, IsText, Spans
<1>3. \A i \in a + 1..b : text[i] \in T
  BY <1>1, <1>2 DEF TypeOK, IsText
<1> HIDE DEF a, b, T
<1>4. Len(SubSeq(text, a + 1, b)) \in Nat
  BY <1>1, <1>3, SubSeqProperties
<1> QED
  BY <1>4 DEF Slice, a, b

LEMMA TakenFits ==
  ASSUME IInv, pc = "caller", token = "ATTRIBUTE", NEW old, Len(old) \in 0..BufSize - 1
  PROVE  Len(GetAttributeValue(old, BufSize)) \in 0..BufSize - 1
BY ValueLength, NameAssumption DEF IInv, SpansInText, GetAttributeValue

LEMMA CutIsText ==
  ASSUME NEW t, IsText(t), NEW n \in 0..Len(t)
  PROVE  IsText(SubSeq(t, 1, n))
<1> DEFINE T == {t[i] : i \in 1..Len(t)}
<1>1. n \in Int /\ \A i \in 1..n : t[i] \in T
  BY DEF IsText
<1> HIDE DEF T
<1>2. SubSeq(t, 1, n) \in Seq(T)
  BY <1>1, SubSeqProperties
<1> QED
  BY <1>2 DEF IsText

LEMMA ReaderBasicInit == ReaderInit => BasicInv
<1> SUFFICES ASSUME ReaderInit PROVE BasicInv
  OBVIOUS
<1>1. Len(<<>>) \in 0..BufSize - 1
  BY NameAssumption
<1>2. IInv
  <2>1. CASE Init
    BY <2>1, InitInv
  <2>2. CASE /\ InitReader
             /\ \E d \in Buffers : \E n \in d.cuts \cup {Len(d.text)} :
                  text = SubSeq(d.text, 1, n)
    <3>1. PICK d \in Buffers : \E n \in d.cuts \cup {Len(d.text)} : text = SubSeq(d.text, 1, n)
      BY <2>2
    <3>2. PICK n \in d.cuts \cup {Len(d.text)} : text = SubSeq(d.text, 1, n)
      BY <3>1
    <3>3. IsText(d.text) /\ n \in 0..Len(d.text)
      <4>1. IsText(d.text) /\ d.cuts \subseteq 0..Len(d.text)
        BY BufferAssumption
      <4>2. Len(d.text) \in Nat
        BY <4>1 DEF IsText
      <4> QED
        BY <3>2, <4>1, <4>2
    <3>4. IsText(text) /\ Len(text) \in Nat
      BY <3>2, <3>3, CutIsText DEF IsText
    <3>5. InitReader
      BY <2>2
    <3>6. TypeOK
      BY <3>4, <3>5 DEF InitReader, TypeOK, ParserStates, Tokens, Spans, Unset
    <3> QED
      BY <3>5, <3>6
      DEF InitReader, IInv, DepthNeverWraps, OpenStates, Marked, SpansInText
  <2> QED
    BY <2>1, <2>2 DEF ReaderInit
<1> QED
  BY <1>1, <1>2 DEF ReaderInit, BasicInv, BuffersTyped, Readers

\* Of the variables of XmlReader a reader moves no others than its loop does.
LEMMA ReaderKeepsIInv ==
  ASSUME IInv, [ReaderNext]_allVars
  PROVE  IInv'
<1>1. CASE Read
  BY <1>1, NextInv DEF Read, Next
<1>2. CASE NextToken \/ NoToken \/ UNCHANGED vars
  BY <1>2, CallerStep
<1>3. CASE \E v \in {"ACK", "NAK"} : Return(v)
  <2>1. /\ UNCHANGED <<text, meaning, position, parser_state, depth, span, token, seen>>
        /\ pc' = "done"
    BY <1>3 DEF Return
  <2>2. IsText(text)'
    BY <2>1 DEF IInv, TypeOK
  <2>3. TypeOK'
    BY <2>1, <2>2 DEF IInv, TypeOK
  <2>4. DepthNeverWraps' /\ Marked' /\ SpansInText'
    BY <2>1 DEF IInv, DepthNeverWraps, Marked, NameMarked, SpansInText
  <2> QED
    BY <2>3, <2>4 DEF IInv
<1>4. CASE AtAttribute
  <2>1. CASE CommonAttribute
    BY <2>1, <1>2, <1>3 DEF CommonAttribute, GoOn, AckOr
  <2>2. CASE PairAttribute
    BY <2>2, <1>2, <1>3 DEF PairAttribute, GoOn, AckOr
  <2>3. CASE EmmcAttribute
    BY <2>3, <1>2, <1>3 DEF EmmcAttribute, GoOn, AckOr
  <2>4. CASE AnyAttribute
    BY <2>4, <1>2 DEF AnyAttribute, GoOn
  <2> QED
    BY <1>4, <2>1, <2>2, <2>3, <2>4 DEF AtAttribute
<1> QED
  BY <1>1, <1>2, <1>4 DEF ReaderNext, AtTag, AtOther, AtNone, Stopped, GoOn, allVars, vars

LEMMA ReaderBasicNext ==
  ASSUME BasicInv, [ReaderNext]_allVars
  PROVE  BasicInv'
<1>0. IInv'
  BY ReaderKeepsIInv DEF BasicInv
<1>1. Len(<<>>) \in 0..BufSize - 1
  BY NameAssumption
<1>2. CASE UNCHANGED clientVars
  BY <1>0, <1>2 DEF BasicInv, BuffersTyped, clientVars
<1>3. CASE AtTag
  <2>1. BuffersTyped'
    BY <1>1, <1>3 DEF AtTag, BasicInv, BuffersTyped
  <2>2. isResponse' \in BOOLEAN /\ isLog' \in BOOLEAN
    BY <1>3 DEF AtTag, IsTag
  <2> QED
    BY <1>0, <1>3, <2>1, <2>2 DEF AtTag, GoOn, BasicInv
<1>4. CASE AtAttribute
  <2>0. IInv /\ pc = "caller" /\ token = "ATTRIBUTE"
    BY <1>4 DEF AtAttribute, BasicInv
  <2>1. /\ BuffersTyped' /\ sized' \in BOOLEAN
        /\ verdict' \in {"none", "ACK", "NAK", "NIL"}
    <3>1. CASE CommonAttribute
      BY <3>1 DEF CommonAttribute, GoOn, Return, AckOr, BasicInv, BuffersTyped
    <3>2. CASE PairAttribute
      <4>1. BuffersTyped'
        BY <2>0, <3>2, TakenFits DEF PairAttribute, BasicInv, BuffersTyped
      <4> QED
        BY <3>2, <4>1 DEF PairAttribute, GoOn, Return, AckOr, BasicInv
    <3>3. CASE EmmcAttribute
      <4>1. BuffersTyped'
        BY <2>0, <3>3, TakenFits DEF EmmcAttribute, BasicInv, BuffersTyped
      <4> QED
        BY <3>3, <4>1 DEF EmmcAttribute, GoOn, Return, AckOr, BasicInv, Starts, IsPrefix
    <3>4. CASE AnyAttribute
      BY <3>4 DEF AnyAttribute, GoOn, BasicInv, BuffersTyped
    <3> QED
      BY <1>4, <3>1, <3>2, <3>3, <3>4 DEF AtAttribute
  <2> QED
    BY <1>0, <1>4, <2>1 DEF AtAttribute, BasicInv
<1>5. CASE AtNone
  BY <1>0, <1>5 DEF AtNone, BasicInv, BuffersTyped
<1> QED
  BY <1>2, <1>3, <1>4, <1>5 DEF ReaderNext, Read, AtOther, Stopped, allVars

LEMMA ReaderInvariance == ReaderSpec => []BasicInv
BY ReaderBasicInit, ReaderBasicNext, PTL DEF ReaderSpec

(***************************************************************************)
(* Whatever is in respbuf, the variables of the readers have their types,  *)
(* and the values in ack and rawmode leave room for the end of the string. *)
(***************************************************************************)
THEOREM ReaderTypes == ReaderSpec => []ReaderTypeOK
<1>1. BasicInv => ReaderTypeOK
  BY NameAssumption DEF BasicInv, BuffersTyped, IInv, ReaderTypeOK
<1> QED
  BY <1>1, ReaderInvariance, PTL

(***************************************************************************)
(* Under the readers of answers, which may stop before the text is read,   *)
(* depth does not wrap either.                                             *)
(***************************************************************************)
THEOREM ReaderDepthSafe == ReaderSpec => []DepthNeverWraps
<1>1. BasicInv => DepthNeverWraps
  BY DEF BasicInv, IInv
<1> QED
  BY <1>1, ReaderInvariance, PTL

(***************************************************************************)
(* What they fetch lies where the reader has been.                         *)
(***************************************************************************)
THEOREM ReaderSpansSafe == ReaderSpec => []SpansInText
<1>1. BasicInv => SpansInText
  BY DEF BasicInv, IInv
<1> QED
  BY <1>1, ReaderInvariance, PTL
-------------------------------------------------------------------------------
(***************************************************************************)
(* What an element has given after p tokens.                               *)
(***************************************************************************)
LEMMA MessageFacts ==
  ASSUME NEW m, IsText(m)
  PROVE  Len(m) \in Nat /\ DOMAIN m = 1..Len(m)
BY DEF IsText

LEMMA OnlyOnce ==
  ASSUME NEW m, IsText(m), Plain(m), NEW c \in Nat, NEW h \in 1..Len(m), Belongs(m, c, h),
         NEW g \in c + 1..h - 1
  PROVE  m[g].name # m[h].name
<1>1. g \in DOMAIN m /\ h \in DOMAIN m /\ g < h /\ \A k \in g..h : m[k].kind = "ATTRIBUTE"
  BY MessageFacts DEF Belongs
<1> QED
  BY <1>1 DEF Plain

\* An attribute is the only one of its name, now and later.
LEMMA GivenOne ==
  ASSUME NEW m, IsText(m), Plain(m), NEW c \in Nat, NEW h \in c + 1..Len(m),
         Belongs(m, c, h), NEW q \in h..Len(m)
  PROVE  Given(m, c, m[h].name, q) = IF Fits(m[h].value) THEN {m[h].value} ELSE {}
<1>1. Len(m) \in Nat
  BY MessageFacts
<1>2. ASSUME NEW k \in c + 1..q, Belongs(m, c, k), m[k].name = m[h].name
      PROVE  k = h
  <2>1. ~(k < h)
    BY <1>1, <1>2, OnlyOnce
  <2>2. ~(h < k)
    BY <1>1, <1>2, OnlyOnce
  <2> QED
    BY <1>1, <2>1, <2>2
<1>3. h \in c + 1..q
  BY <1>1
<1> QED
  BY <1>2, <1>3 DEF Given

LEMMA GivenNone ==
  ASSUME NEW m, IsText(m), Plain(m), NEW c \in Nat, NEW h \in c + 1..Len(m),
         Belongs(m, c, h), NEW q \in Nat, q < h
  PROVE  Given(m, c, m[h].name, q) = {}
<1>1. Len(m) \in Nat
  BY MessageFacts
<1>2. \A k \in c + 1..q : m[k].name # m[h].name
  BY <1>1, OnlyOnce
<1> QED
  BY <1>2 DEF Given

LEMMA GivenDef ==
  ASSUME NEW m, NEW j, NEW a
  PROVE  ValuesOf(m, j, a) = Given(m, j, a, Len(m))
BY DEF ValuesOf, Given, Belongs, Fits

\* What is given once is all there will be.
LEMMA GivenFull ==
  ASSUME NEW m, IsText(m), Plain(m), NEW c \in Nat, NEW a, NEW p \in 0..Len(m),
         Given(m, c, a, p) # {}
  PROVE  ValuesOf(m, c, a) = Given(m, c, a, p)
<1>1. Len(m) \in Nat
  BY MessageFacts
<1>2. PICK h \in c + 1..p : Belongs(m, c, h) /\ m[h].name = a
  BY DEF Given
<1>3. Given(m, c, a, p) = Given(m, c, a, Len(m))
  <2>1. h \in c + 1..Len(m) /\ p \in h..Len(m) /\ Len(m) \in h..Len(m)
    BY <1>1
  <2> QED
    BY <1>2, <2>1, GivenOne
<1> QED
  BY <1>3, GivenDef

\* A token that is no attribute a of element j adds nothing to it.
LEMMA GivenSame ==
  ASSUME NEW m, NEW j \in Nat, NEW a, NEW p \in Nat,
         j < p + 1 => ~(Belongs(m, j, p + 1) /\ m[p + 1].name = a)
  PROVE  Given(m, j, a, p + 1) = Given(m, j, a, p)
<1>1. \A h \in j + 1..p + 1 : Belongs(m, j, h) /\ m[h].name = a => h \in j + 1..p
  OBVIOUS
<1>2. \A h \in j + 1..p : h \in j + 1..p + 1
  OBVIOUS
<1> QED
  BY <1>1, <1>2 DEF Given

\* An element ends where the next one begins.
LEMMA Ended ==
  ASSUME NEW m, NEW j \in Nat, NEW c \in Nat, j < c, m[c].kind = "TAG",
         NEW h \in Nat, Belongs(m, j, h)
  PROVE  h < c
BY DEF Belongs

LEMMA GivenEnded ==
  ASSUME NEW m, IsText(m), NEW j \in Nat, NEW c \in Nat, j < c, c <= Len(m),
         m[c].kind = "TAG", NEW a, NEW p \in Nat, c <= p + 1
  PROVE  ValuesOf(m, j, a) = Given(m, j, a, p)
<1>1. Len(m) \in Nat
  BY MessageFacts
<1>2. \A h \in j + 1..Len(m) : Belongs(m, j, h) => h \in j + 1..p
  BY <1>1, Ended
<1>3. \A h \in j + 1..p : Belongs(m, j, h) => h \in j + 1..Len(m)
  BY <1>1, Ended
<1> QED
  BY <1>2, <1>3 DEF ValuesOf, Given, Belongs, Fits

LEMMA GivenNothingYet ==
  ASSUME NEW m, NEW j \in Nat, NEW a, NEW p \in Nat, p <= j
  PROVE  Given(m, j, a, p) = {}
BY DEF Given

LEMMA MinIs ==
  ASSUME NEW S \in SUBSET Nat, NEW e \in S, \A y \in S : e <= y
  PROVE  Min(S) = e
<1>1. \E x \in S : \A y \in S : x =< y
  OBVIOUS
<1>2. Min(S) \in S /\ \A y \in S : Min(S) =< y
  BY <1>1 DEF Min
<1>3. Min(S) \in Nat /\ e \in Nat /\ e <= Min(S) /\ Min(S) <= e
  BY <1>2
<1> QED
  BY <1>3

LEMMA MaxIs ==
  ASSUME NEW S \in SUBSET Nat, NEW e \in S, \A y \in S : y <= e
  PROVE  Max(S) = e
<1>1. \E x \in S : \A y \in S : x >= y
  OBVIOUS
<1>2. Max(S) \in S /\ \A y \in S : Max(S) >= y
  BY <1>1 DEF Max
<1>3. Max(S) \in Nat /\ e \in Nat /\ Max(S) <= e /\ e <= Max(S)
  BY <1>2
<1> QED
  BY <1>3
-------------------------------------------------------------------------------
(***************************************************************************)
(* What each reader should decide, by the element c it is in.              *)
(***************************************************************************)
LEMMA NothingStarts == ~Starts(Ack, <<>>) /\ ~Starts(Size, <<>>)
BY NameAssumption DEF Starts, IsPrefix

LEMMA CommonDecides ==
  ASSUME NEW m, IsText(m), Plain(m), NEW p \in Nat, NEW c \in 1..p, p + 1 <= Len(m),
         m[c].kind = "TAG", m[c].name = Response, Belongs(m, c, p + 1),
         m[p + 1].name = Value, CommonKept(m, p), reader = "common"
  PROVE  Expected(m) = AckOr(Fits(m[p + 1].value) /\ Starts(Ack, m[p + 1].value))
<1> DEFINE S == {j \in Elements(m, Response) : Has(m, j, Value)}
<1>0. Len(m) \in Nat /\ DOMAIN m = 1..Len(m)
  BY MessageFacts
<1>1. S \in SUBSET Nat
  BY <1>0 DEF Elements
<1>2. c \in S
  BY <1>0 DEF Elements, Has, Belongs
<1>3. \A j \in S : c <= j
  <2>1. SUFFICES ASSUME NEW j \in S, j < c PROVE FALSE
    BY <1>1
  <2>2. PICK h \in j + 1..Len(m) : Belongs(m, j, h) /\ m[h].name = Value
    BY DEF Has, Belongs
  <2>3. h \in j + 1..p
    BY <1>0, <1>1, <2>1, <2>2, Ended
  <2> QED
    BY <2>2, <2>3 DEF CommonKept, Responses
<1>4. Min(S) = c
  BY <1>1, <1>2, <1>3, MinIs
<1>5. ValuesOf(m, c, Value) = IF Fits(m[p + 1].value) THEN {m[p + 1].value} ELSE {}
  <2>1. Given(m, c, Value, Len(m)) = IF Fits(m[p + 1].value) THEN {m[p + 1].value} ELSE {}
    <3>1. /\ c \in Nat /\ p + 1 \in c + 1..Len(m) /\ Len(m) \in p + 1..Len(m)
          /\ Value = m[p + 1].name
      BY <1>0
    <3> QED
      BY <3>1, GivenOne
  <2> QED
    BY <2>1, GivenDef
<1>6. Acked(m, c) <=> Fits(m[p + 1].value) /\ Starts(Ack, m[p + 1].value)
  BY <1>5 DEF Acked
<1>7. Expected(m) = AckOr(Min(S) \in {j \in Elements(m, Response) : Acked(m, j)})
  BY <1>2 DEF Expected, ExpectedByOne, ByFirst
<1> QED
  BY <1>2, <1>4, <1>6, <1>7 DEF AckOr

LEMMA CommonSilent ==
  ASSUME NEW m, IsText(m), CommonKept(m, Len(m)), reader = "common"
  PROVE  Expected(m) = "NIL"
<1>1. {j \in Elements(m, Response) : Has(m, j, Value)} = {}
  BY DEF CommonKept, Responses, Has, Belongs
<1> QED
  BY <1>1 DEF Expected, ExpectedByOne, ByFirst

LEMMA EmptyStarts == ASSUME NEW v, Len(v) \in Nat PROVE Starts(<<>>, v)
BY SubSeqEmpty DEF Starts, IsPrefix

LEMMA PairExpected ==
  ASSUME NEW m, reader \in PairReaders
  PROVE  Expected(m) =
           ExpectedByTwo(m, Wanted, IF reader \in RawReaders THEN RawModeWanted ELSE <<>>)
BY DEF Expected, PairReaders, RawReaders, Wanted, RawModeWanted

LEMMA PairDecides ==
  ASSUME NEW m, IsText(m), Plain(m), NEW p \in Nat, NEW c \in 1..p, p + 1 <= Len(m),
         m[c].kind = "TAG", m[c].name = Response, reader \in PairReaders,
         \A j \in Responses(m) : Given(m, j, Value, p) = {} \/ Given(m, j, Wanted, p) = {},
         NEW x, Given(m, c, Value, p + 1) = {x},
         NEW y, Given(m, c, Wanted, p + 1) = {y}, Len(y) \in Nat
  PROVE  Expected(m) =
           AckOr(Starts(Ack, x) /\ (reader \in RawReaders => Starts(RawModeWanted, y)))
<1> DEFINE word == IF reader \in RawReaders THEN RawModeWanted ELSE <<>>
           S == {j \in Elements(m, Response) : HasBoth(m, j, Wanted)}
           good == {j \in Elements(m, Response) :
                      Acked(m, j) /\ \E v \in ValuesOf(m, j, Wanted) : Starts(word, v)}
<1>0. Len(m) \in Nat /\ DOMAIN m = 1..Len(m)
  BY MessageFacts
<1>1. S \in SUBSET Nat /\ c \in Elements(m, Response)
  BY <1>0 DEF Elements
<1>2. ValuesOf(m, c, Value) = {x} /\ ValuesOf(m, c, Wanted) = {y}
  <2>1. c \in Nat /\ p + 1 \in 0..Len(m)
    BY <1>0
  <2>2. Given(m, c, Value, p + 1) # {} /\ Given(m, c, Wanted, p + 1) # {}
    OBVIOUS
  <2>3. ValuesOf(m, c, Value) = {x}
    BY <2>1, <2>2, GivenFull
  <2>4. ValuesOf(m, c, Wanted) = {y}
    BY <2>1, <2>2, GivenFull
  <2> QED
    BY <2>3, <2>4
<1>3. c \in S
  BY <1>1, <1>2 DEF HasBoth
<1>4. \A j \in S : c <= j
  <2>1. SUFFICES ASSUME NEW j \in S, j < c PROVE FALSE
    BY <1>1
  <2>2. c \in Nat /\ j \in Nat /\ c <= Len(m) /\ c <= p + 1
    BY <1>0, <1>1
  <2>3. \A a : ValuesOf(m, j, a) = Given(m, j, a, p)
    BY <2>1, <2>2, GivenEnded
  <2> QED
    BY <2>3 DEF HasBoth, Responses
<1>5. Min(S) = c
  BY <1>1, <1>3, <1>4, MinIs
<1>6. Acked(m, c) <=> Starts(Ack, x)
  BY <1>2 DEF Acked
<1>7. (\E v \in ValuesOf(m, c, Wanted) : Starts(word, v))
        <=> (reader \in RawReaders => Starts(RawModeWanted, y))
  BY <1>2, EmptyStarts
<1>8. c \in good <=> Starts(Ack, x) /\ (reader \in RawReaders => Starts(RawModeWanted, y))
  BY <1>1, <1>6, <1>7
<1>9. Expected(m) = AckOr(c \in good)
  BY <1>3, <1>5, PairExpected DEF ExpectedByTwo, ByFirst
<1> QED
  BY <1>8, <1>9 DEF AckOr

LEMMA PairSilent ==
  ASSUME NEW m, IsText(m), reader \in PairReaders,
         \A j \in Responses(m) :
           Given(m, j, Value, Len(m)) = {} \/ Given(m, j, Wanted, Len(m)) = {}
  PROVE  Expected(m) = "NIL"
<1>1. {j \in Elements(m, Response) : HasBoth(m, j, Wanted)} = {}
  BY GivenDef DEF HasBoth, Responses
<1> QED
  BY <1>1, PairExpected DEF ExpectedByTwo, ByFirst

LEMMA LeastExists ==
  ASSUME NEW S \in SUBSET Nat, S # {}
  PROVE  \E x \in S : \A y \in S : x <= y
<1> DEFINE R == OpToRel(<, Nat)
<1>1. IsWellFoundedOn(R, Nat)
  BY NatLessThanWellFounded
<1>2. \A x, y \in Nat : y < x => <<y, x>> \in R
  BY DEF OpToRel
<1> HIDE DEF R
<1>3. PICK x \in S : \A y \in S : ~ (<<y, x>> \in R)
  BY <1>1, WFMin
<1>4. \A y \in S : ~(y < x)
  BY <1>2, <1>3
<1> QED
  BY <1>3, <1>4

\* The least bound of a set of naturals is one of them.
LEMMA MaxExists ==
  ASSUME NEW S \in SUBSET Nat, S # {}, NEW n \in Nat, \A y \in S : y <= n
  PROVE  Max(S) \in S /\ Max(S) <= n
<1> DEFINE U == {k \in Nat : \A y \in S : y <= k}
<1>1. PICK u \in U : \A k \in U : u <= k
  BY LeastExists
<1>2. u \in S
  <2>1. SUFFICES ASSUME u \notin S PROVE FALSE
    OBVIOUS
  <2>2. \A y \in S : y <= u - 1
    BY <1>1, <2>1
  <2>3. u - 1 \in U
    <3>1. PICK y \in S : TRUE
      OBVIOUS
    <3>2. y \in Nat /\ u \in Nat /\ y <= u - 1
      BY <1>1, <2>2
    <3>3. u - 1 \in Nat
      BY <3>2
    <3> QED
      BY <2>2, <3>3
  <2> QED
    BY <1>1, <2>3
<1>3. Max(S) = u
  BY <1>1, <1>2, MaxIs
<1> QED
  BY <1>2, <1>3

(***************************************************************************)
(* emmc: last is the last <response> with a value, and c is the first      *)
(* element at which there is one, and a size if the last one is an ACK.    *)
(***************************************************************************)
SizedBy(m, p) ==
  \E j \in Elements(m, Log) : \E v \in Given(m, j, Value, p) : Starts(Size, v)

LEMMA EmmcDecides ==
  ASSUME NEW m, IsText(m), Plain(m), NEW p \in Nat, NEW c \in 1..p, p + 1 <= Len(m),
         m[c].kind = "TAG", Belongs(m, c, p + 1), reader = "emmc",
         NEW last \in Responses(m), last <= c, NEW x,
         Given(m, last, Value, p + 1) = {x},
         \A j \in Responses(m) : j > last => Given(m, j, Value, p + 1) = {},
         Starts(Ack, x) => SizedBy(m, p + 1),
         c # last => /\ m[c].name = Log
                     /\ \E v \in Given(m, c, Value, p + 1) : Starts(Size, v),
         \A j \in Responses(m) : \A v \in Given(m, j, Value, p) : Starts(Ack, v),
         (\A j \in Responses(m) : Given(m, j, Value, p) = {}) \/ ~SizedBy(m, p)
  PROVE  Expected(m) = AckOr(Starts(Ack, x))
<1> DEFINE A == {j \in Elements(m, Response) : ValuesOf(m, j, Value) # {}}
           latest(i) == Max({j \in A : j <= i})
           S == {i \in A \cup Sizes(m) :
                   /\ \E j \in A : j <= i
                   /\ Acked(m, latest(i)) => \E j \in Sizes(m) : j <= i}
<1>0. Len(m) \in Nat /\ DOMAIN m = 1..Len(m) /\ c \in Nat /\ last \in Nat
  BY MessageFacts DEF Responses, Elements
<1>1. A \in SUBSET Nat /\ Sizes(m) \in SUBSET Nat /\ S \in SUBSET Nat
  BY <1>0 DEF Sizes, Elements
<1>2. ValuesOf(m, last, Value) = {x} /\ last \in A
  <2>1. last \in Elements(m, Response)
    BY DEF Responses
  <2>2. last \in Nat /\ p + 1 \in 0..Len(m)
    BY <1>0
  <2>3. ValuesOf(m, last, Value) = {x}
    BY <2>2, GivenFull
  <2> QED
    BY <2>1, <2>3
<1>4. ASSUME NEW j \in Nat, j < c
      PROVE  ValuesOf(m, j, Value) = Given(m, j, Value, p)
             /\ ValuesOf(m, j, Value) = Given(m, j, Value, p + 1)
  BY <1>0, <1>4, GivenEnded
<1>5. \A j \in A : j <= c => j <= last
  <2>1. SUFFICES ASSUME NEW j \in A, j <= c, last < j PROVE FALSE
    BY <1>0, <1>1
  <2>2. j \in Responses(m) /\ m[j].name = Response /\ Given(m, j, Value, p + 1) = {}
    BY <2>1, <1>0, <1>1 DEF Responses, Elements
  <2>3. j # c
    BY <1>0, <2>1, <2>2, NameAssumption
  <2>4. ValuesOf(m, j, Value) = {}
    BY <1>0, <1>1, <1>4, <2>1, <2>2, <2>3
  <2> QED
    BY <2>4
<1>6. latest(c) = last
  <2>1. last \in {j \in A : j <= c} /\ {j \in A : j <= c} \in SUBSET Nat
    BY <1>1, <1>2
  <2> QED
    BY <2>1, <1>5, MaxIs
<1>7. Acked(m, last) <=> Starts(Ack, x)
  BY <1>2 DEF Acked
<1>8. SizedBy(m, p + 1) => \E j \in Sizes(m) : j <= c
  <2>1. SUFFICES ASSUME SizedBy(m, p + 1) PROVE \E j \in Sizes(m) : j <= c
    OBVIOUS
  <2>2. PICK j \in Elements(m, Log) : \E v \in Given(m, j, Value, p + 1) : Starts(Size, v)
    BY <2>1 DEF SizedBy
  <2>3. j \in 1..Len(m) /\ m[j].kind = "TAG" /\ Given(m, j, Value, p + 1) # {}
    BY <1>0, <2>2 DEF Elements
  <2>4. ValuesOf(m, j, Value) = Given(m, j, Value, p + 1)
    <3>1. p + 1 \in 0..Len(m) /\ j \in Nat
      BY <1>0, <2>3
    <3> QED
      BY <2>3, <3>1, GivenFull
  <2>5. j \in Sizes(m)
    BY <2>2, <2>4 DEF Sizes
  <2>6. j <= p
    BY <1>0, <2>3, GivenNothingYet
  <2>7. ~(c < j)
    BY <1>0, <2>3, <2>6 DEF Belongs
  <2> QED
    BY <1>0, <2>3, <2>5, <2>7
<1>9. c \in S
  <2>1. c \in A \cup Sizes(m)
    <3>1. CASE c = last
      BY <1>2, <3>1
    <3>2. CASE c # last
      <4>1. Given(m, c, Value, p + 1) # {}
        BY <3>2
      <4>2. ValuesOf(m, c, Value) = Given(m, c, Value, p + 1)
        BY <1>0, <4>1, GivenFull
      <4>3. c \in Elements(m, Log)
        BY <1>0, <3>2 DEF Elements
      <4> QED
        BY <3>2, <4>2, <4>3 DEF Sizes
    <3> QED
      BY <3>1, <3>2
  <2>2. \E j \in A : j <= c
    BY <1>2
  <2>3. Acked(m, latest(c)) => \E j \in Sizes(m) : j <= c
    BY <1>6, <1>7, <1>8
  <2> QED
    BY <2>1, <2>2, <2>3
<1>10. \A i \in S : c <= i
  <2>0. \A T \in SUBSET Nat : (\A i \in T : ~(i < c)) => \A i \in T : c <= i
    BY <1>0
  <2>1. SUFFICES ASSUME NEW i \in S, i < c PROVE FALSE
    <3> HIDE DEF S
    <3> QED
      BY <1>1, <2>0
  <2>2. PICK k \in A : k <= i
    BY <2>1
  <2>3. latest(i) \in A /\ latest(i) <= i
    <3>1. {j \in A : j <= i} \in SUBSET Nat /\ {j \in A : j <= i} # {} /\ i \in Nat
      BY <1>1, <2>2
    <3> QED
      BY <3>1, MaxExists
  <2>4. \A j \in A : j <= i => j \in Nat /\ j < c
    BY <1>0, <1>1, <2>1
  <2>5. ~SizedBy(m, p)
    <3>1. Given(m, k, Value, p) # {}
      BY <1>4, <2>2, <2>4
    <3> QED
      BY <3>1 DEF Responses
  <2>6. Acked(m, latest(i))
    <3>1. Given(m, latest(i), Value, p) = ValuesOf(m, latest(i), Value)
      BY <1>4, <2>3, <2>4
    <3> QED
      BY <2>3, <3>1 DEF Acked, Responses
  <2>7. PICK j \in Sizes(m) : j <= i
    BY <2>1, <2>6
  <2>8. j \in Nat /\ j < c
    BY <1>0, <1>1, <2>1, <2>7
  <2>9. j \in Elements(m, Log) /\ \E v \in Given(m, j, Value, p) : Starts(Size, v)
    BY <1>4, <2>8 DEF Sizes
  <2> QED
    BY <2>5, <2>9 DEF SizedBy
<1>11. Min(S) = c
  BY <1>1, <1>9, <1>10, MinIs
<1>12. Expected(m) = AckOr(c \in {i \in S : Acked(m, latest(i))})
  BY <1>9, <1>11 DEF Expected, ExpectedOfEmmc, ByFirst, RawReaders
<1>13. c \in {i \in S : Acked(m, latest(i))} <=> Starts(Ack, x)
  BY <1>6, <1>7, <1>9
<1> QED
  BY <1>12, <1>13 DEF AckOr

LEMMA EmmcSilent ==
  ASSUME NEW m, IsText(m), reader = "emmc",
         \A j \in Responses(m) : \A v \in Given(m, j, Value, Len(m)) : Starts(Ack, v),
         (\A j \in Responses(m) : Given(m, j, Value, Len(m)) = {}) \/ ~SizedBy(m, Len(m))
  PROVE  Expected(m) = "NIL"
<1> DEFINE A == {j \in Elements(m, Response) : ValuesOf(m, j, Value) # {}}
           latest(i) == Max({j \in A : j <= i})
           S == {i \in A \cup Sizes(m) :
                   /\ \E j \in A : j <= i
                   /\ Acked(m, latest(i)) => \E j \in Sizes(m) : j <= i}
<1>1. A \in SUBSET Nat /\ Sizes(m) \in SUBSET Nat
  BY MessageFacts DEF Sizes, Elements
<1>2. ASSUME NEW i \in S PROVE FALSE
  <2>1. PICK k \in A : k <= i
    BY <1>2
  <2>2. latest(i) \in A
    <3>1. {j \in A : j <= i} \in SUBSET Nat /\ {j \in A : j <= i} # {} /\ i \in Nat
      BY <1>1, <2>1
    <3> QED
      BY <3>1, MaxExists
  <2>3. Acked(m, latest(i))
    BY <2>2, GivenDef DEF Acked, Responses
  <2>4. SizedBy(m, Len(m))
    BY <1>2, <2>3, GivenDef DEF Sizes, SizedBy
  <2> QED
    BY <2>1, <2>4, GivenDef DEF Responses
<1>3. S = {}
  BY <1>2
<1> QED
  BY <1>3 DEF Expected, ExpectedOfEmmc, ByFirst, RawReaders
-------------------------------------------------------------------------------
(***************************************************************************)
(* What a call of xmlGetToken does to the states between the name and the  *)
(* end of a tag.                                                           *)
(***************************************************************************)
Continues ==
  /\ pc' = "scan" /\ token' = token /\ seen' = seen
  /\ parser_state' \in AttributeStates => parser_state \in AttributeStates

Returns ==
  /\ pc' = "caller" /\ seen' = seen + 1
  /\ token' \in {"TAG", "ATTRIBUTE", "TEXT", "TAG_ENDING", "COMMENT"}
  /\ token' = "ATTRIBUTE" => parser_state' = "WAIT_FOR_ATTRIBUTE_OR_ENDING"
  /\ parser_state' \in AttributeStates =>
       token' = "TAG" \/ (token' = "ATTRIBUTE" /\ parser_state \in AttributeStates)

ReturnsNone ==
  pc' = "caller" /\ token' = "NONE" /\ seen' = seen /\ parser_state' = parser_state

LEMMA ReadResult ==
  ASSUME GetToken
  PROVE  /\ pc = "scan" /\ UNCHANGED <<text, meaning>>
         /\ Continues \/ Returns \/ ReturnsNone
<1> USE DEF Continues, Returns, ReturnsNone, AttributeStates
<1>1. CASE Initial \/ WaitForTagName \/ WaitForTextOrTag \/ WaitForStartOrEndTag
  BY <1>1
  DEF Initial, WaitForTagName, WaitForTextOrTag, WaitForStartOrEndTag, In, Go, XmlError,
      AfterOpening
<1>2. CASE InTagName
  BY <1>2 DEF InTagName, TagNameEnd, In, Go, XmlError, Deliver
<1>3. CASE InText \/ WaitForEndTagName \/ InEndTagName \/ WaitForEnding
  BY <1>3 DEF InText, WaitForEndTagName, InEndTagName, WaitForEnding, In, Go, Deliver
<1>4. CASE WaitForAttributeOrEnding \/ InAttributeName \/ WaitForAttributeValueQuote
  BY <1>4
  DEF WaitForAttributeOrEnding, InAttributeName, WaitForAttributeValueQuote, In, Go,
      XmlError
<1>5. CASE WaitForAttributeValue \/ InAttributeValue
  BY <1>5 DEF WaitForAttributeValue, InAttributeValue, In, Go, Deliver
<1>6. CASE BeginCommentTag \/ BeginComment \/ InComment \/ EndCommentTag
  BY <1>6 DEF BeginCommentTag, BeginComment, InComment, EndCommentTag, In, Go, GoTwo
<1>7. CASE EndOfText
  BY <1>7 DEF EndOfText
<1> QED
  BY <1>1, <1>2, <1>3, <1>4, <1>5, <1>6, <1>7 DEF GetToken, ReadChar

(***************************************************************************)
(* What a reader sees of a token is what the message says.                 *)
(***************************************************************************)
LEMMA TokenFacts ==
  ASSUME TokensAgree, pc = "caller", token # "NONE", NEW m \in meaning
  PROVE  /\ seen <= Len(m) /\ m[seen].kind = token
         /\ token = "TAG" => \A n : IsTag(n) <=> m[seen].name = n
         /\ token = "ATTRIBUTE" => /\ \A n : IsAttribute(n) <=> m[seen].name = n
                                   /\ m[seen].value = Slice("value_start", "value_end")
<1>1. seen <= Len(m) /\ m[seen] = Returned
  BY DEF TokensAgree, TokensMatch
<1> QED
  BY <1>1 DEF Returned, IsTag, IsAttribute

LEMMA ValueTaken ==
  ASSUME IInv, TokensAgree, pc = "caller", token = "ATTRIBUTE", NEW m \in meaning, NEW old
  PROVE  /\ Len(m[seen].value) \in Nat
         /\ GetAttributeValue(old, BufSize) =
              IF Len(m[seen].value) < BufSize THEN m[seen].value ELSE old
<1>1. m[seen].value = Slice("value_start", "value_end")
  BY TokenFacts
<1>2. Len(m[seen].value) \in Nat
  BY <1>1, ValueLength DEF IInv, SpansInText
<1> QED
  BY <1>1, <1>2, NameAssumption DEF GetAttributeValue

LEMMA TakeStep ==
  ASSUME NEW m, IsText(m), Plain(m), NEW p \in Nat, p + 1 <= Len(m), NEW c \in 1..p,
         Belongs(m, c, p + 1), NEW a, NEW old, Given(m, c, a, p) = {old} \ {<<>>}
  PROVE  Given(m, c, a, p + 1) =
           {IF m[p + 1].name = a /\ Len(m[p + 1].value) < BufSize
            THEN m[p + 1].value ELSE old} \ {<<>>}
<1>0. Len(m) \in Nat
  BY MessageFacts
<1>1. CASE m[p + 1].name = a
  <2>0. c \in Nat /\ p + 1 \in c + 1..Len(m) /\ p + 1 \in p + 1..Len(m) /\ p < p + 1
    BY <1>0
  <2>1. Given(m, c, a, p + 1) = IF Fits(m[p + 1].value) THEN {m[p + 1].value} ELSE {}
    BY <1>1, <2>0, GivenOne
  <2>2. Given(m, c, a, p) = {}
    BY <1>1, <2>0, GivenNone
  <2> QED
    BY <1>1, <2>1, <2>2 DEF Fits
<1>2. CASE m[p + 1].name # a
  BY <1>2, GivenSame
<1> QED
  BY <1>1, <1>2
-------------------------------------------------------------------------------
(***************************************************************************)
(* The steps of a reader, with p tokens looked at before.  First what they *)
(* leave as it is.                                                         *)
(***************************************************************************)
LEMMA ElementFacts ==
  ASSUME NEW m, IsText(m), NEW n, NEW j \in Elements(m, n)
  PROVE  j \in Nat /\ j \in 1..Len(m) /\ m[j].kind = "TAG" /\ m[j].name = n
BY MessageFacts DEF Elements

\* A token that is no attribute gives nothing to any element.
LEMMA NoAttribute ==
  ASSUME NEW m, IsText(m), NEW p \in Nat, m[p + 1].kind # "ATTRIBUTE"
  PROVE  /\ \A j \in Nat : \A a : Given(m, j, a, p + 1) = Given(m, j, a, p)
         /\ CommonKept(m, p) => CommonKept(m, p + 1)
<1>1. \A j \in Nat : j < p + 1 => ~Belongs(m, j, p + 1)
  BY DEF Belongs
<1>2. ASSUME CommonKept(m, p), NEW j \in Responses(m), NEW h \in j + 1..p + 1,
             Belongs(m, j, h)
      PROVE  m[h].name # Value
  <2>1. j \in Nat
    BY ElementFacts DEF Responses
  <2>2. h # p + 1
    BY <1>1, <1>2, <2>1
  <2>3. h \in j + 1..p
    BY <2>1, <2>2
  <2> QED
    BY <1>2, <2>3 DEF CommonKept
<1> QED
  BY <1>1, <1>2, GivenSame DEF CommonKept

\* An attribute belongs to the current element alone.
LEMMA CurrentFacts ==
  ASSUME NEW m, IsText(m), NEW p \in Nat, p + 1 <= Len(m), NEW c \in 1..p,
         m[c].kind = "TAG", Belongs(m, c, p + 1)
  PROVE  /\ Current(m, c, p) /\ Current(m, c, p + 1)
         /\ \A d \in 1..p + 1 : Current(m, d, p + 1) => d = c
         /\ \A n : \A j \in Elements(m, n) :
              j # c => /\ \A a : Given(m, j, a, p + 1) = Given(m, j, a, p)
                       /\ j < p + 1 => j < c /\ ~Belongs(m, j, p + 1)
<1>0. Len(m) \in Nat /\ c \in Nat
  BY MessageFacts
<1>1. Current(m, c, p) /\ Current(m, c, p + 1)
  BY <1>0 DEF Current, Belongs
<1>2. ASSUME NEW d \in 1..p + 1, m[d].kind = "TAG", d # c
      PROVE  d < c
  BY <1>0, <1>2 DEF Belongs
<1>3. \A d \in 1..p + 1 : Current(m, d, p + 1) => d = c
  BY <1>0, <1>2 DEF Current
<1>4. ASSUME NEW n, NEW j \in Elements(m, n), j # c
      PROVE  /\ j < p + 1 => j < c /\ ~Belongs(m, j, p + 1)
             /\ \A a : Given(m, j, a, p + 1) = Given(m, j, a, p)
  <2>1. j \in Nat /\ j \in 1..Len(m) /\ m[j].kind = "TAG"
    BY ElementFacts
  <2>2. j < p + 1 => j < c
    BY <1>2, <1>4, <2>1
  <2>3. j < c => ~Belongs(m, j, p + 1)
    BY <1>0, <2>1, Ended
  <2> QED
    BY <2>1, <2>2, <2>3, GivenSame
<1> QED
  BY <1>1, <1>3, <1>4

\* A token of another kind.
LEMMA OtherStep ==
  ASSUME NEW m, IsText(m), NEW p \in Nat, m[p + 1].kind \notin {"TAG", "ATTRIBUTE"},
         Kept(m, p)
  PROVE  Kept(m, p + 1)
<1>0. \A j \in Nat : \A a : Given(m, j, a, p + 1) = Given(m, j, a, p)
  BY NoAttribute
<1>1. \A c \in 1..p + 1 : Current(m, c, p + 1) => c \in 1..p /\ Current(m, c, p)
  BY DEF Current
<1>2. Flagged(m, p + 1)
  BY <1>1 DEF Kept, Flagged
<1>3. reader = "common" => CommonKept(m, p + 1)
  BY NoAttribute DEF Kept
<1>4. \A j \in 1..p + 1 : j \in Nat
  OBVIOUS
<1>5. reader \in PairReaders => PairKept(m, p + 1)
  BY <1>0, <1>1, <1>4, ElementFacts DEF Kept, PairKept, Responses
<1>6. reader = "emmc" => EmmcKept(m, p + 1)
  BY <1>0, ElementFacts DEF Kept, EmmcKept, Responses
<1> QED
  BY <1>2, <1>3, <1>5, <1>6 DEF Kept

\* A new element: its reader has nothing from it yet.
LEMMA TagStep ==
  ASSUME NEW m, IsText(m), NEW p \in Nat, m[p + 1].kind = "TAG",
         \A n : IsTag(n) <=> m[p + 1].name = n, Kept(m, p), AtTag
  PROVE  Kept(m, p + 1)'
<1>0. \A j \in Nat : \A a : Given(m, j, a, p + 1) = Given(m, j, a, p)
  BY NoAttribute
<1>1. \A c \in 1..p + 1 : Current(m, c, p + 1) => c = p + 1
  BY DEF Current
<1>2. /\ reader' = reader /\ sized' = sized
      /\ isResponse' <=> m[p + 1].name = Response
      /\ isLog' <=> reader = "emmc" /\ m[p + 1].name = Log
      /\ ack' = IF ClearsAt THEN <<>> ELSE ack
      /\ second' = IF ClearsAt THEN <<>> ELSE second
  BY DEF AtTag
<1>3. Flagged(m, p + 1)'
  BY <1>1, <1>2 DEF Flagged
<1>4. reader' = "common" => CommonKept(m, p + 1)'
  BY <1>2, NoAttribute DEF Kept, CommonKept
<1>5. ASSUME reader \in PairReaders PROVE PairKept(m, p + 1)'
  <2>1. PairKept(m, p)
    BY <1>5 DEF Kept
  <2>2. isResponse' => ack' = <<>> /\ second' = <<>>
    BY <1>2, <1>5 DEF ClearsAt, PairReaders
  <2>3. \A a : Given(m, p + 1, a, p + 1) = {}
    BY GivenNothingYet
  <2>4. \A c \in 1..p + 1 : Current(m, c, p + 1) /\ isResponse' =>
          /\ Given(m, c, Value, p + 1) = {ack'} \ {<<>>}
          /\ Given(m, c, Wanted, p + 1) = {second'} \ {<<>>}
    BY <1>1, <2>2, <2>3
  <2>5. \A j \in Responses(m) :
          Given(m, j, Value, p + 1) = {} \/ Given(m, j, Wanted, p + 1) = {}
    BY <1>0, <2>1, ElementFacts DEF PairKept, Responses
  <2> QED
    BY <1>2, <2>4, <2>5 DEF PairKept, Wanted
<1>6. ASSUME reader = "emmc" PROVE EmmcKept(m, p + 1)'
  <2>1. ack' = ack /\ sized' = sized
    BY <1>2, <1>6 DEF ClearsAt, RawReaders
  <2> QED
    BY <1>0, <1>6, <2>1, ElementFacts DEF Kept, EmmcKept, Responses
<1> QED
  BY <1>2, <1>3, <1>4, <1>5, <1>6 DEF Kept
-------------------------------------------------------------------------------
(***************************************************************************)
(* An attribute of the current element c.  Each reader either decides, as  *)
(* it should, or has looked at one more token.                             *)
(***************************************************************************)
Inside(m, p, c) ==
  /\ IsText(m) /\ Plain(m) /\ p \in Nat /\ p + 1 <= Len(m)
  /\ c \in 1..p /\ m[c].kind = "TAG" /\ Belongs(m, c, p + 1)

\* What the tests and getters return at token p + 1.
Seen(m, p) ==
  /\ \A n : IsAttribute(n) <=> m[p + 1].name = n
  /\ Len(m[p + 1].value) \in Nat
  /\ \A old : GetAttributeValue(old, BufSize) =
                IF Len(m[p + 1].value) < BufSize THEN m[p + 1].value ELSE old

Looked(m, p) ==
  \/ pc' = "done" /\ verdict' = Expected(m)
  \/ NextToken /\ UNCHANGED verdict /\ Kept(m, p + 1)'

LEMMA StillFlagged ==
  ASSUME NEW m, NEW p, NEW c, Inside(m, p, c), Flagged(m, p),
         UNCHANGED <<reader, isResponse, isLog>>
  PROVE  /\ Flagged(m, p + 1)'
         /\ isResponse <=> m[c].name = Response
         /\ reader = "emmc" => (isLog <=> m[c].name = Log)
<1>1. Current(m, c, p) /\ \A d \in 1..p + 1 : Current(m, d, p + 1) => d = c
  BY CurrentFacts DEF Inside
<1> QED
  BY <1>1 DEF Flagged, Inside

LEMMA CommonStep ==
  ASSUME NEW m, NEW p, NEW c, Inside(m, p, c), Seen(m, p), Kept(m, p),
         CommonAttribute, UNCHANGED <<reader, isResponse, isLog>>
  PROVE  Looked(m, p)
<1>0. reader = "common" /\ CommonKept(m, p)
  BY DEF CommonAttribute, Kept
<1>1. Flagged(m, p + 1)' /\ (isResponse <=> m[c].name = Response)
  BY StillFlagged DEF Kept
<1>2. CASE isResponse /\ IsAttribute(Value)
  <2>1. Expected(m) = AckOr(Fits(m[p + 1].value) /\ Starts(Ack, m[p + 1].value))
    BY <1>0, <1>1, <1>2, CommonDecides DEF Inside, Seen
  <2>2. Starts(Ack, GetAttributeValue(<<>>, BufSize))
          <=> Fits(m[p + 1].value) /\ Starts(Ack, m[p + 1].value)
    BY NothingStarts DEF Seen, Fits
  <2>3. pc' = "done" /\ verdict' = AckOr(Starts(Ack, GetAttributeValue(<<>>, BufSize)))
    BY <1>2 DEF CommonAttribute, Return
  <2> QED
    BY <2>1, <2>2, <2>3 DEF Looked, AckOr
<1>3. CASE ~(isResponse /\ IsAttribute(Value))
  <2>1. ASSUME NEW j \in Responses(m), NEW h \in j + 1..p + 1, Belongs(m, j, h)
        PROVE  m[h].name # Value
    <3>1. j \in Nat /\ m[j].name = Response /\ p \in Nat
      BY ElementFacts DEF Responses, Inside
    <3>2. CASE h = p + 1
      <4>1. j = c
        BY <2>1, <3>1, <3>2, CurrentFacts DEF Responses, Inside
      <4> QED
        BY <1>1, <1>3, <3>1, <3>2, <4>1 DEF Seen
    <3>3. CASE h # p + 1
      BY <1>0, <2>1, <3>1, <3>3 DEF CommonKept
    <3> QED
      BY <3>2, <3>3
  <2>2. CommonKept(m, p + 1)
    BY <2>1 DEF CommonKept
  <2>3. Kept(m, p + 1)'
    BY <1>0, <1>1, <2>2 DEF Kept, PairReaders, RawReaders
  <2> QED
    BY <1>3, <2>3 DEF Looked, CommonAttribute, GoOn
<1> QED
  BY <1>2, <1>3

LEMMA PairStep ==
  ASSUME NEW m, NEW p, NEW c, Inside(m, p, c), Seen(m, p), Kept(m, p),
         PairAttribute, UNCHANGED <<reader, isResponse, isLog>>, Len(second') \in Nat
  PROVE  Looked(m, p)
<1> DEFINE new(a, old) ==
             IF m[p + 1].name = a /\ Len(m[p + 1].value) < BufSize
             THEN m[p + 1].value ELSE old
<1>0. reader \in PairReaders /\ PairKept(m, p)
  BY DEF PairAttribute, PairReaders, RawReaders, Kept
<1>1. Flagged(m, p + 1)' /\ (isResponse <=> m[c].name = Response)
  BY StillFlagged DEF Kept
<1>2. /\ ack' = IF isResponse THEN new(Value, ack) ELSE ack
      /\ second' = IF isResponse THEN new(Wanted, second) ELSE second
  BY DEF PairAttribute, Seen, Wanted
<1>3. ASSUME isResponse
      PROVE  /\ Given(m, c, Value, p + 1) = {ack'} \ {<<>>}
             /\ Given(m, c, Wanted, p + 1) = {second'} \ {<<>>}
  <2>1. Current(m, c, p) /\ c \in 1..p
    BY CurrentFacts DEF Inside
  <2>2. Given(m, c, Value, p) = {ack} \ {<<>>} /\ Given(m, c, Wanted, p) = {second} \ {<<>>}
    BY <1>0, <1>3, <2>1 DEF PairKept
  <2>3. \A a, old : Given(m, c, a, p) = {old} \ {<<>>} =>
          Given(m, c, a, p + 1) = {new(a, old)} \ {<<>>}
    BY TakeStep DEF Inside
  <2> HIDE DEF new
  <2>4. /\ Given(m, c, Value, p + 1) = {new(Value, ack)} \ {<<>>}
        /\ Given(m, c, Wanted, p + 1) = {new(Wanted, second)} \ {<<>>}
    BY <2>2, <2>3
  <2> QED
    BY <1>2, <1>3, <2>4
<1> HIDE DEF new
<1>4. \A j \in Responses(m) :
        Given(m, j, Value, p) = {} \/ Given(m, j, Wanted, p) = {}
  BY <1>0 DEF PairKept
<1>5. CASE isResponse /\ ack' # <<>> /\ second' # <<>>
  <2>1. Given(m, c, Value, p + 1) = {ack'} /\ Given(m, c, Wanted, p + 1) = {second'}
    BY <1>3, <1>5
  <2>2. Expected(m) =
          AckOr(Starts(Ack, ack') /\ (reader \in RawReaders => Starts(RawModeWanted, second')))
    BY <1>0, <1>1, <1>4, <1>5, <2>1, PairDecides DEF Inside
  <2>3. pc' = "done" /\ verdict' =
          AckOr(Starts(Ack, ack') /\ (reader \in RawReaders => Starts(RawModeWanted, second')))
    BY <1>5 DEF PairAttribute, Return
  <2> QED
    BY <2>2, <2>3 DEF Looked
<1>6. CASE ~(isResponse /\ ack' # <<>> /\ second' # <<>>)
  <2>1. \A d \in 1..p + 1 : Current(m, d, p + 1) => d = c
    BY CurrentFacts DEF Inside
  <2>2. ASSUME NEW j \in Responses(m)
        PROVE  Given(m, j, Value, p + 1) = {} \/ Given(m, j, Wanted, p + 1) = {}
    <3>1. CASE j = c
      <4>1. isResponse
        BY <1>1, <3>1, ElementFacts DEF Responses, Inside
      <4>2. CASE ack' = <<>>
        BY <1>3, <3>1, <4>1, <4>2
      <4>3. CASE second' = <<>>
        BY <1>3, <3>1, <4>1, <4>3
      <4> QED
        BY <1>6, <4>1, <4>2, <4>3
    <3>2. CASE j # c
      <4>1. \A a : Given(m, j, a, p + 1) = Given(m, j, a, p)
        BY <3>2, CurrentFacts DEF Responses, Inside
      <4> QED
        BY <1>4, <4>1
    <3> QED
      BY <3>1, <3>2
  <2>3. PairKept(m, p + 1)'
    BY <1>3, <2>1, <2>2 DEF PairKept, Wanted
  <2>4. Kept(m, p + 1)'
    BY <1>0, <1>1, <2>3 DEF Kept, PairReaders, RawReaders
  <2> QED
    BY <1>6, <2>4 DEF Looked, PairAttribute, GoOn
<1> QED
  BY <1>5, <1>6

\* What token p + 1 gives to the elements that emmc is about.
LEMMA OthersGiven ==
  ASSUME NEW m, NEW p, NEW c, Inside(m, p, c), NEW n, NEW j \in Elements(m, n), j # c
  PROVE  Given(m, j, Value, p + 1) = Given(m, j, Value, p)
<1>1. \A a : Given(m, j, a, p + 1) = Given(m, j, a, p)
  BY CurrentFacts DEF Inside
<1> QED
  BY <1>1

LEMMA ValueGiven ==
  ASSUME NEW m, NEW p, NEW c, Inside(m, p, c)
  PROVE  /\ m[p + 1].name = Value =>
              /\ Given(m, c, Value, p) = {} /\ m[p + 1].value # <<>>
              /\ Given(m, c, Value, p + 1) =
                   IF Len(m[p + 1].value) < BufSize THEN {m[p + 1].value} ELSE {}
         /\ m[p + 1].name # Value => Given(m, c, Value, p + 1) = Given(m, c, Value, p)
<1>0. /\ Len(m) \in Nat /\ c \in Nat /\ p \in Nat /\ p < p + 1
      /\ p + 1 \in c + 1..Len(m) /\ p + 1 \in p + 1..Len(m) /\ p + 1 \in DOMAIN m
  BY MessageFacts DEF Inside
<1>2. ASSUME m[p + 1].name = Value
      PROVE  /\ Given(m, c, Value, p) = {} /\ m[p + 1].value # <<>>
             /\ Given(m, c, Value, p + 1) =
                  IF Len(m[p + 1].value) < BufSize THEN {m[p + 1].value} ELSE {}
  <2>1. m[p + 1].value # <<>>
    BY <1>0, <1>2 DEF Inside, Plain, Belongs
  <2>2. Given(m, c, Value, p) = {}
    BY <1>0, <1>2, GivenNone DEF Inside
  <2>3. Given(m, c, Value, p + 1) = IF Fits(m[p + 1].value) THEN {m[p + 1].value} ELSE {}
    BY <1>0, <1>2, GivenOne DEF Inside
  <2> QED
    BY <2>1, <2>2, <2>3 DEF Fits
<1>3. m[p + 1].name # Value => Given(m, c, Value, p + 1) = Given(m, c, Value, p)
  BY <1>0, GivenSame
<1> QED
  BY <1>2, <1>3

LEMMA EmmcStep ==
  ASSUME NEW m, NEW p, NEW c, Inside(m, p, c), Seen(m, p), Kept(m, p),
         EmmcAttribute, UNCHANGED <<reader, isResponse, isLog>>
  PROVE  Looked(m, p)
<1> DEFINE v == m[p + 1].value
           ours == m[p + 1].name = Value /\ Len(v) < BufSize
           decides == ack' # <<>> /\ (Starts(Ack, ack') => sized')
<1>0. reader = "emmc" /\ EmmcKept(m, p)
  BY DEF EmmcAttribute, Kept
<1>1. /\ Flagged(m, p + 1)'
      /\ isResponse <=> m[c].name = Response
      /\ isLog <=> m[c].name = Log
  BY <1>0, StillFlagged DEF Kept
<1>2. /\ ack' = IF isResponse /\ ours THEN v ELSE ack
      /\ sized' <=> sized \/ (isLog /\ ours /\ Starts(Size, v))
  BY NothingStarts DEF EmmcAttribute, Seen
<1>3. /\ decides => pc' = "done" /\ verdict' = AckOr(Starts(Ack, ack'))
      /\ ~decides => NextToken /\ UNCHANGED verdict
  BY DEF EmmcAttribute, Return, GoOn
<1>4. /\ \A j \in Responses(m) : \A w \in Given(m, j, Value, p) : Starts(Ack, w)
      /\ (\A j \in Responses(m) : Given(m, j, Value, p) = {}) \/ ~SizedBy(m, p)
      /\ sized <=> SizedBy(m, p)
      /\ ack # <<>> => Starts(Ack, ack) /\ ~sized
  BY <1>0 DEF EmmcKept, SizedBy
<1>5. ASSUME EmmcKept(m, p + 1)', ~decides
      PROVE  Looked(m, p)
  <2>1. Kept(m, p + 1)'
    BY <1>0, <1>1, <1>5 DEF Kept, PairReaders, RawReaders
  <2> QED
    BY <1>3, <1>5, <2>1 DEF Looked
<1>6. /\ c \in Nat /\ p \in Nat /\ Len(m) \in Nat /\ p + 1 <= Len(m)
      /\ c \in DOMAIN m /\ m[c].kind = "TAG"
  BY MessageFacts DEF Inside
<1>7. ASSUME NEW n, NEW j \in Elements(m, n), Given(m, j, Value, p) # {}
      PROVE  j <= c
  <2>1. j \in Nat /\ j < p + 1
    BY <1>6, <1>7, ElementFacts, GivenNothingYet DEF Inside
  <2> QED
    BY <1>6, <2>1, CurrentFacts DEF Inside
<1>g. /\ m[p + 1].name = Value =>
           /\ Given(m, c, Value, p) = {} /\ v # <<>>
           /\ Given(m, c, Value, p + 1) = IF Len(v) < BufSize THEN {v} ELSE {}
      /\ m[p + 1].name # Value => Given(m, c, Value, p + 1) = Given(m, c, Value, p)
  BY ValueGiven
<1>r. \A j \in Responses(m) : j # c =>
        Given(m, j, Value, p + 1) = Given(m, j, Value, p)
  BY OthersGiven DEF Responses
<1>l. \A j \in Elements(m, Log) : j # c =>
        Given(m, j, Value, p + 1) = Given(m, j, Value, p)
  BY OthersGiven
<1>e. /\ c \in Responses(m) <=> isResponse
      /\ c \in Elements(m, Log) <=> isLog
      /\ ~(isResponse /\ isLog)
  BY <1>1, <1>6, NameAssumption DEF Responses, Elements
<1>8. CASE isResponse /\ ours
  <2>1. /\ c \in Responses(m) /\ ack' = v /\ v # <<>> /\ (sized' <=> sized)
        /\ Given(m, c, Value, p + 1) = {ack'}
    <3>1. c \in Responses(m) /\ ~isLog
      BY <1>8, <1>e
    <3>2. v # <<>> /\ Given(m, c, Value, p + 1) = {v}
      BY <1>8, <1>g
    <3> QED
      BY <1>2, <1>8, <3>1, <3>2
  <2>3. \A j \in Responses(m) : j > c => Given(m, j, Value, p + 1) = {}
    <3>1. ASSUME NEW j \in Responses(m), j > c PROVE Given(m, j, Value, p) = {}
      <4>1. j \in Elements(m, Response)
        BY DEF Responses
      <4>2. j \in Nat /\ ~(j <= c)
        BY <1>6, <3>1, <4>1, ElementFacts DEF Inside
      <4> QED
        BY <1>7, <4>1, <4>2
    <3> QED
      BY <1>6, <1>r, <3>1
  <2>4. SizedBy(m, p + 1) <=> SizedBy(m, p)
    <3>1. \A j \in Elements(m, Log) : Given(m, j, Value, p + 1) = Given(m, j, Value, p)
      BY <1>8, <1>l, <1>e
    <3> QED
      BY <3>1 DEF SizedBy
  <2>5. CASE decides
    <3>1. Starts(Ack, ack') => SizedBy(m, p + 1)
      BY <1>4, <2>1, <2>4, <2>5
    <3>2. \A last \in Responses(m) : last = c => Expected(m) = AckOr(Starts(Ack, ack'))
      <4>1. SUFFICES ASSUME NEW last \in Responses(m), last = c
                     PROVE  Expected(m) = AckOr(Starts(Ack, ack'))
        OBVIOUS
      <4>2. /\ last <= c /\ Given(m, last, Value, p + 1) = {ack'}
            /\ \A j \in Responses(m) : j > last => Given(m, j, Value, p + 1) = {}
        BY <1>6, <2>1, <2>3, <4>1
      <4> QED
        BY <1>0, <1>4, <1>6, <3>1, <4>1, <4>2, EmmcDecides DEF Inside
    <3> QED
      BY <1>3, <2>1, <2>5, <3>2 DEF Looked
  <2>6. CASE ~decides
    <3>1. Starts(Ack, ack') /\ ~sized'
      BY <2>1, <2>6
    <3>2. \A j \in Responses(m) : \A w \in Given(m, j, Value, p + 1) : Starts(Ack, w)
      BY <1>4, <1>r, <2>1, <3>1
    <3>3. sized' <=> SizedBy(m, p + 1)
      BY <1>4, <2>1, <2>4
    <3>4. EmmcKept(m, p + 1)'
      BY <2>1, <2>3, <3>1, <3>2, <3>3 DEF EmmcKept, SizedBy
    <3> QED
      BY <1>5, <2>6, <3>4
  <2> QED
    BY <2>5, <2>6
<1>9. CASE ~(isResponse /\ ours)
  <2>1. ack' = ack
    BY <1>2, <1>9
  <2>2. \A j \in Responses(m) : Given(m, j, Value, p + 1) = Given(m, j, Value, p)
    <3>1. c \in Responses(m) => Given(m, c, Value, p + 1) = Given(m, c, Value, p)
      BY <1>9, <1>e, <1>g
    <3> QED
      BY <1>r, <3>1
  <2>3. SizedBy(m, p + 1) <=> SizedBy(m, p) \/ (isLog /\ ours /\ Starts(Size, v))
    <3>1. CASE m[p + 1].name = Value
      BY <1>l, <1>e, <1>g, <3>1 DEF SizedBy
    <3>2. CASE m[p + 1].name # Value
      BY <1>l, <1>g, <3>2 DEF SizedBy
    <3> QED
      BY <3>1, <3>2
  <2>4. sized' <=> SizedBy(m, p + 1)
    BY <1>2, <1>4, <2>3
  <2>5. CASE decides
    <3>1. ack # <<>> /\ Starts(Ack, ack) /\ ~sized /\ sized'
      BY <1>4, <2>1, <2>5
    <3>2. isLog /\ ours /\ Starts(Size, v)
      BY <1>2, <3>1
    <3>3. /\ c \in Elements(m, Log) /\ m[c].name = Log
          /\ \E w \in Given(m, c, Value, p + 1) : Starts(Size, w)
      BY <1>1, <1>e, <1>g, <3>2
    <3>4. PICK last \in Responses(m) :
            /\ Given(m, last, Value, p) = {ack}
            /\ \A k \in Responses(m) : k > last => Given(m, k, Value, p) = {}
      BY <1>0, <3>1 DEF EmmcKept
    <3>5. last <= c
      BY <1>7, <3>4 DEF Responses
    <3>6. Expected(m) = AckOr(Starts(Ack, ack))
      <4>1. /\ Given(m, last, Value, p + 1) = {ack}
            /\ \A k \in Responses(m) : k > last => Given(m, k, Value, p + 1) = {}
        BY <2>2, <3>4
      <4>2. SizedBy(m, p + 1)
        BY <2>4, <3>1
      <4> QED
        BY <1>0, <1>4, <1>6, <3>3, <3>5, <4>1, <4>2, EmmcDecides DEF Inside
    <3> QED
      BY <1>3, <2>1, <2>5, <3>6 DEF Looked
  <2>6. CASE ~decides
    <3>1. ack' # <<>> => ~sized'
      BY <1>4, <2>1, <2>6
    <3>2. EmmcKept(m, p + 1)'
      BY <1>0, <2>1, <2>2, <2>4, <3>1 DEF EmmcKept, SizedBy
    <3> QED
      BY <1>5, <2>6, <3>2
  <2> QED
    BY <2>5, <2>6
<1> QED
  BY <1>8, <1>9
-------------------------------------------------------------------------------
(***************************************************************************)
(* All readers together.                                                   *)
(***************************************************************************)
LEMMA SilentAtEnd ==
  ASSUME NEW m, IsText(m), reader \in Readers, Kept(m, Len(m))
  PROVE  Expected(m) = "NIL"
<1>1. CASE reader = "all"
  BY <1>1 DEF Expected
<1>2. CASE reader = "common"
  BY <1>2, CommonSilent DEF Kept
<1>3. CASE reader \in PairReaders
  BY <1>3, PairSilent DEF Kept, PairKept
<1>4. CASE reader = "emmc"
  <2>1. EmmcKept(m, Len(m))
    BY <1>4 DEF Kept
  <2>2. \A j \in Responses(m) : \A v \in Given(m, j, Value, Len(m)) : Starts(Ack, v)
    BY <2>1 DEF EmmcKept
  <2>3. (\A j \in Responses(m) : Given(m, j, Value, Len(m)) = {}) \/ ~SizedBy(m, Len(m))
    BY <2>1 DEF EmmcKept, SizedBy
  <2> QED
    BY <1>4, <2>2, <2>3, EmmcSilent
<1> QED
  BY <1>1, <1>2, <1>3, <1>4 DEF Readers, PairReaders

LEMMA SameReader ==
  ASSUME reader' = reader, NEW m
  PROVE  Expected(m)' = Expected(m)
BY DEF Expected

LEMMA SameKept ==
  ASSUME UNCHANGED clientVars, NEW m, NEW p, Kept(m, p)
  PROVE  Kept(m, p)'
<1>1. UNCHANGED <<reader, isResponse, isLog, ack, second, sized>>
  BY DEF clientVars
<1>2. Flagged(m, p)'
  BY <1>1 DEF Kept, Flagged
<1>3. reader' = "common" => CommonKept(m, p)'
  BY <1>1 DEF Kept, CommonKept
<1>4. reader' \in PairReaders => PairKept(m, p)'
  BY <1>1 DEF Kept, PairKept, Wanted
<1>5. reader' = "emmc" => EmmcKept(m, p)'
  BY <1>1 DEF Kept, EmmcKept
<1> QED
  BY <1>2, <1>3, <1>4, <1>5 DEF Kept

LEMMA DecidedInit == ASSUME PlainMessages, ReaderInit PROVE Decided
<1>1. DecisionMatches
  BY DEF ReaderInit, Init, InitReader, DecisionMatches
<1>2. ASSUME reader # "all" PROVE Tracked
  <2>1. /\ InitReader /\ \E d \in Buffers : meaning = {d.tokens}
        /\ ack = <<>> /\ second = <<>> /\ sized = FALSE
    BY <1>2 DEF ReaderInit
  <2>2. PICK d \in Buffers : meaning = {d.tokens}
    BY <2>1
  <2> DEFINE m == d.tokens
  <2>3. IsText(m) /\ Plain(m)
    BY BufferAssumption DEF PlainMessages
  <2>4. \A j \in Nat : \A a : Given(m, j, a, 0) = {}
    BY GivenNothingYet
  <2>5. \A n : \A j \in Elements(m, n) : j \in Nat
    BY <2>3, ElementFacts
  <2> HIDE DEF m
  <2>6. Kept(m, 0)
    <3>1. Flagged(m, 0) /\ CommonKept(m, 0)
      BY <2>5 DEF Flagged, CommonKept, Responses
    <3>2. PairKept(m, 0)
      BY <2>4, <2>5 DEF PairKept, Responses
    <3>3. EmmcKept(m, 0)
      BY <2>1, <2>4, <2>5 DEF EmmcKept, Responses
    <3> QED
      BY <3>1, <3>2, <3>3 DEF Kept
  <2>7. /\ pc = "scan" /\ token = "NONE" /\ seen = 0 /\ parser_state = "INITIAL"
        /\ meaning = {m}
    BY <2>1, <2>2 DEF InitReader, m
  <2>8. Len(m) \in Nat
    BY <2>3, MessageFacts
  <2> QED
    BY <2>3, <2>6, <2>7, <2>8 DEF Tracked, Taken, AttributeStates
<1> QED
  BY <1>1, <1>2 DEF Decided

\* A token of a message: the reader decides as it should or goes on.
LEMMA CallerLooks ==
  ASSUME BasicInv, BasicInv', TokensAgree, Tracked, reader # "all",
         pc = "caller", token # "NONE", AtTag \/ AtAttribute \/ AtOther,
         NEW m \in meaning, NEW p \in Nat, seen = p + 1
  PROVE  Looked(m, p)
<1>1. IsText(m) /\ Plain(m) /\ p + 1 <= Len(m) /\ Kept(m, p)
  BY DEF Tracked, Taken
<1>2. m[p + 1].kind = token
  BY TokenFacts
<1>3. CASE AtTag
  <2>1. token = "TAG" /\ NextToken /\ UNCHANGED verdict
    BY <1>3 DEF AtTag, GoOn
  <2>2. \A n : IsTag(n) <=> m[p + 1].name = n
    BY <2>1, TokenFacts
  <2> QED
    BY <1>1, <1>2, <1>3, <2>1, <2>2, TagStep DEF Looked
<1>4. CASE AtOther
  <2>1. token \notin {"TAG", "ATTRIBUTE"} /\ NextToken /\ UNCHANGED clientVars
    BY <1>4 DEF AtOther, GoOn
  <2>2. Kept(m, p + 1)
    BY <1>1, <1>2, <2>1, OtherStep
  <2>3. Kept(m, p + 1)'
    BY <2>1, <2>2, SameKept
  <2> QED
    BY <2>1, <2>3 DEF Looked, clientVars
<1>5. CASE AtAttribute
  <2>1. token = "ATTRIBUTE" /\ UNCHANGED <<reader, isResponse, isLog>>
    BY <1>5 DEF AtAttribute
  <2>2. PICK c \in 1..p : m[c].kind = "TAG" /\ Belongs(m, c, p + 1)
    <3>1. InTag(m)
      BY <2>1 DEF Tracked, AttributeStates
    <3>2. PICK c \in 1..p + 1 : m[c].kind = "TAG" /\ Belongs(m, c, p + 1)
      BY <3>1 DEF InTag
    <3>3. c # p + 1
      BY <1>2, <2>1, <3>2
    <3> QED
      BY <3>2, <3>3
  <2>3. Inside(m, p, c)
    BY <1>1, <2>2 DEF Inside
  <2>4. Seen(m, p)
    <3>1. \A n : IsAttribute(n) <=> m[p + 1].name = n
      BY <2>1, TokenFacts
    <3>2. \A old : /\ Len(m[seen].value) \in Nat
                   /\ GetAttributeValue(old, BufSize) =
                        IF Len(m[seen].value) < BufSize THEN m[seen].value ELSE old
      BY <2>1, ValueTaken DEF BasicInv
    <3> QED
      BY <3>1, <3>2 DEF Seen
  <2>5. Len(second') \in Nat
    BY NameAssumption DEF BasicInv, BuffersTyped
  <2>6. CASE CommonAttribute
    BY <1>1, <2>1, <2>3, <2>4, <2>6, CommonStep
  <2>7. CASE PairAttribute
    BY <1>1, <2>1, <2>3, <2>4, <2>5, <2>7, PairStep
  <2>8. CASE EmmcAttribute
    BY <1>1, <2>1, <2>3, <2>4, <2>8, EmmcStep
  <2> QED
    BY <1>5, <2>6, <2>7, <2>8 DEF AtAttribute, AnyAttribute
<1> QED
  BY <1>3, <1>4, <1>5

LEMMA CallerMoves ==
  ASSUME AtTag \/ AtAttribute \/ AtOther
  PROVE  /\ pc = "caller" /\ UNCHANGED <<meaning, seen, parser_state, reader, whole>>
         /\ (pc' = "done" /\ verdict' # "none") \/ (pc' = "scan" /\ token' = "NONE")
<1>1. CASE AtTag \/ AtOther
  BY <1>1 DEF AtTag, AtOther, GoOn, NextToken, clientVars
<1>2. CASE AtAttribute
  <2>1. GoOn \/ \E good : Return(AckOr(good))
    BY <1>2, Zenon
    DEF AtAttribute, CommonAttribute, PairAttribute, EmmcAttribute, AnyAttribute
  <2> QED
    BY <1>2, <2>1 DEF AtAttribute, GoOn, NextToken, Return, AckOr
<1> QED
  BY <1>1, <1>2

LEMMA ReadKeeps ==
  ASSUME BasicInv, Decided, TokensAgree', Read
  PROVE  Decided'
<1>1. /\ pc = "scan" /\ UNCHANGED <<text, meaning>> /\ UNCHANGED clientVars
      /\ Continues \/ Returns \/ ReturnsNone
  BY ReadResult DEF Read
<1>2. DecisionMatches'
  BY <1>1 DEF DecisionMatches, Continues, Returns, ReturnsNone
<1>3. ASSUME reader # "all" PROVE Tracked'
  <2>1. /\ token = "NONE" /\ seen \in Nat
        /\ \A m \in meaning :
             /\ IsText(m) /\ Plain(m) /\ seen <= Len(m) /\ Len(m) \in Nat
             /\ \A p \in Nat : p = seen => Kept(m, p)
             /\ parser_state \in AttributeStates => InTag(m)
    BY <1>1, <1>3, MessageFacts DEF Decided, Tracked, Taken, BasicInv, IInv, TypeOK
  <2>2. Taken' = seen
    BY <1>1, <2>1 DEF Taken, Continues, Returns, ReturnsNone
  <2>3. \A m \in meaning' : \A p \in Nat : p = Taken' => Kept(m, p)'
    BY <1>1, <2>1, <2>2, SameKept
  <2>4. /\ pc' = "scan" => token' = "NONE"
        /\ pc' = "caller" /\ token' = "ATTRIBUTE" =>
             parser_state' = "WAIT_FOR_ATTRIBUTE_OR_ENDING"
        /\ pc' = "caller" /\ token' # "NONE" => seen' > 0
    BY <1>1, <2>1 DEF Continues, Returns, ReturnsNone
  <2>5. ASSUME NEW m \in meaning'
        PROVE  seen' <= Len(m) /\ (parser_state' \in AttributeStates => InTag(m)')
    <3>1. m \in meaning /\ seen \in Nat /\ Len(m) \in Nat /\ seen <= Len(m)
      BY <1>1, <2>1
    <3>2. CASE Continues \/ ReturnsNone
      BY <2>1, <3>1, <3>2 DEF Continues, ReturnsNone, InTag
    <3>3. CASE Returns
      <4>1. seen' = seen + 1 /\ seen' <= Len(m) /\ m[seen + 1].kind = token'
        <5>1. \A n \in meaning' : seen' <= Len(n) /\ n[seen'] = Returned'
          BY <3>3 DEF Returns, TokensAgree, TokensMatch
        <5>2. Returned'.kind = token'
          BY <3>3 DEF Returns, Returned
        <5> QED
          BY <3>3, <5>1, <5>2 DEF Returns
      <4>2. CASE token' = "TAG"
        BY <3>1, <4>1, <4>2 DEF InTag, Belongs
      <4>3. CASE token' = "ATTRIBUTE" /\ parser_state \in AttributeStates
        <5>1. PICK c \in 1..seen : m[c].kind = "TAG" /\ Belongs(m, c, seen)
          BY <2>1, <3>1, <4>3 DEF InTag
        <5>2. c \in 1..seen + 1 /\ Belongs(m, c, seen + 1)
          BY <3>1, <4>1, <4>3, <5>1 DEF Belongs
        <5> QED
          BY <4>1, <5>1, <5>2 DEF InTag
      <4> QED
        BY <3>3, <4>1, <4>2, <4>3 DEF Returns
    <3> QED
      BY <1>1, <3>2, <3>3
  <2> QED
    BY <1>1, <2>1, <2>3, <2>4, <2>5 DEF Tracked
<1> QED
  BY <1>1, <1>2, <1>3 DEF Decided, clientVars

LEMMA CallerKeeps ==
  ASSUME BasicInv, BasicInv', TokensAgree, Decided, AtTag \/ AtAttribute \/ AtOther,
         pc = "caller", token # "NONE"
  PROVE  Decided'
<1>1. /\ UNCHANGED <<meaning, seen, parser_state, reader, whole>>
      /\ (pc' = "done" /\ verdict' # "none") \/ (pc' = "scan" /\ token' = "NONE")
  BY CallerMoves
<1>2. CASE reader = "all"
  <2>1. pc' = "scan"
    BY <1>1, <1>2, Zenon
    DEF AtTag, AtOther, AtAttribute, CommonAttribute, PairAttribute, EmmcAttribute,
        AnyAttribute, RawReaders, GoOn, NextToken
  <2> QED
    BY <1>1, <1>2, <2>1 DEF Decided, DecisionMatches
<1>3. CASE reader # "all"
  <2>1. Tracked /\ seen \in Nat /\ seen > 0
    BY <1>3 DEF Decided, Tracked, BasicInv, IInv, TypeOK
  <2>2. PICK p \in Nat : seen = p + 1
    <3>1. seen - 1 \in Nat /\ seen = (seen - 1) + 1
      BY <2>1
    <3> QED
      BY <3>1
  <2>3. \A m \in meaning : Looked(m, p)
    BY <1>3, <2>1, <2>2, CallerLooks
  <2>4. DecisionMatches'
    <3>1. SUFFICES ASSUME pc' = "done", NEW m \in meaning' PROVE verdict' = Expected(m)'
      BY DEF DecisionMatches
    <3>2. verdict' = Expected(m)
      BY <1>1, <2>3, <3>1 DEF Looked, NextToken
    <3> QED
      BY <1>1, <3>2, SameReader
  <2>5. \A m \in meaning' : \A q \in Nat : pc' # "done" /\ q = Taken' => Kept(m, q)'
    <3>1. SUFFICES ASSUME NEW m \in meaning, pc' # "done" PROVE Kept(m, p + 1)' /\ Taken' = p + 1
      BY <1>1
    <3> QED
      BY <1>1, <2>2, <2>3, <3>1 DEF Looked, Taken
  <2>6. \A m \in meaning' :
          /\ IsText(m) /\ Plain(m) /\ seen' <= Len(m)
          /\ parser_state' \in AttributeStates => InTag(m)'
    BY <1>1, <2>1 DEF Tracked, InTag
  <2>7. Tracked'
    BY <1>1, <2>5, <2>6 DEF Tracked
  <2> QED
    BY <2>4, <2>7 DEF Decided
<1> QED
  BY <1>2, <1>3

LEMMA NoneKeeps ==
  ASSUME BasicInv, TokensAgree, Decided, AtNone
  PROVE  Decided'
<1>1. /\ pc = "caller" /\ token = "NONE" /\ pc' = "done" /\ verdict' = "NIL"
      /\ UNCHANGED <<meaning, seen, parser_state, reader, whole, token>>
  BY DEF AtNone, NoToken
<1>2. DecisionMatches'
  <2>1. SUFFICES ASSUME NEW m \in meaning, whole PROVE Expected(m) = "NIL"
    BY <1>1, SameReader DEF DecisionMatches
  <2>2. CASE reader = "all"
    BY <2>2 DEF Expected
  <2>3. CASE reader # "all"
    <3>1. seen = Len(m)
      BY <1>1, <2>1 DEF TokensAgree, TokensMatch
    <3>2. IsText(m) /\ Kept(m, Len(m))
      BY <1>1, <2>3, <3>1, MessageFacts DEF Decided, Tracked, Taken
    <3> QED
      BY <3>2, SilentAtEnd DEF BasicInv
  <2> QED
    BY <2>2, <2>3
<1>3. reader # "all" => Tracked'
  BY <1>1 DEF Decided, Tracked, InTag
<1> QED
  BY <1>1, <1>2, <1>3 DEF Decided

LEMMA IdleKeeps ==
  ASSUME Decided, UNCHANGED allVars
  PROVE  Decided'
<1>1. /\ UNCHANGED <<meaning, seen, parser_state, reader, whole, token, pc, verdict>>
      /\ UNCHANGED clientVars
  BY DEF allVars, vars, clientVars
<1>2. DecisionMatches'
  BY <1>1, SameReader DEF Decided, DecisionMatches
<1>3. reader # "all" => Tracked'
  <2>1. Taken' = Taken
    BY <1>1 DEF Taken
  <2> QED
    BY <1>1, <2>1, SameKept DEF Decided, Tracked, InTag
<1> QED
  BY <1>1, <1>2, <1>3 DEF Decided

LEMMA DecidedNext ==
  ASSUME BasicInv, BasicInv', TokensAgree, TokensAgree', Decided, [ReaderNext]_allVars
  PROVE  Decided'
<1>1. CASE Read
  BY <1>1, ReadKeeps
<1>2. CASE AtTag \/ AtAttribute \/ AtOther
  <2>1. pc = "caller" /\ token # "NONE"
    BY <1>2 DEF AtTag, AtAttribute, AtOther, GoOn, NextToken
  <2> QED
    BY <1>2, <2>1, CallerKeeps
<1>3. CASE AtNone
  BY <1>3, NoneKeeps
<1>4. CASE UNCHANGED allVars
  BY <1>4, IdleKeeps
<1> QED
  BY <1>1, <1>2, <1>3, <1>4 DEF ReaderNext, Stopped

-------------------------------------------------------------------------------
(***************************************************************************)
(* The tokens: a reader follows the document or the buffer that its text   *)
(* is the start of, and knows the whole one by its length.                 *)
(***************************************************************************)
Hears ==
  meaning # {} =>
    \E d \in Documents \cup Buffers :
      meaning = {d.tokens} /\ Follows(d) /\ (whole => Len(text) = Len(d.text))

LEMMA CutStarts ==
  ASSUME NEW d, Written(d), NEW n \in 0..Len(d.text), text = SubSeq(d.text, 1, n)
  PROVE  StartOf(d) /\ Len(text) = n
<1> DEFINE T == {d.text[i] : i \in 1..Len(d.text)}
<1>1. IsText(d.text) /\ Len(d.text) \in Nat
  BY DEF Written, IsText
<1>2. n \in Nat /\ n <= Len(d.text) /\ \A i \in 1..n : d.text[i] \in T
  BY <1>1
<1> HIDE DEF T
<1>3. Len(text) = n /\ \A i \in 1..n : text[i] = d.text[i]
  BY <1>1, <1>2, SubSeqProperties
<1>4. IsText(text)
  BY <1>1, CutIsText
<1> QED
  BY <1>2, <1>3, <1>4 DEF StartOf

LEMMA HearsInit == ASSUME DocumentsWritten, BuffersWritten, ReaderInit PROVE Hears
<1>1. CASE Init
  BY <1>1, InitFollowing DEF Following, Hears
<1>2. CASE /\ InitReader
           /\ \E d \in Buffers : \E n \in d.cuts \cup {Len(d.text)} :
                /\ text = SubSeq(d.text, 1, n) /\ whole = (n = Len(d.text))
                /\ meaning = {d.tokens}
  <2>1. PICK d \in Buffers : \E n \in d.cuts \cup {Len(d.text)} :
                /\ text = SubSeq(d.text, 1, n) /\ whole = (n = Len(d.text))
                /\ meaning = {d.tokens}
    BY <1>2
  <2>2. PICK n \in d.cuts \cup {Len(d.text)} :
                /\ text = SubSeq(d.text, 1, n) /\ whole = (n = Len(d.text))
                /\ meaning = {d.tokens}
    BY <2>1
  <2>3. n \in 0..Len(d.text)
    <3>1. IsText(d.text) /\ d.cuts \subseteq 0..Len(d.text)
      BY BufferAssumption
    <3>2. Len(d.text) \in Nat
      BY <3>1 DEF IsText
    <3> QED
      BY <2>2, <3>1, <3>2
  <2>4. Written(d)
    BY DEF BuffersWritten
  <2>5. StartOf(d) /\ Len(text) = n
    BY <2>2, <2>3, <2>4, CutStarts
  <2>6. Follows(d)
    BY <1>2, <2>5, InitFollows
  <2> QED
    BY <2>2, <2>5, <2>6 DEF Hears
<1> QED
  BY <1>1, <1>2 DEF ReaderInit

LEMMA CallerLeaves ==
  ASSUME AtTag \/ AtAttribute \/ AtOther \/ AtNone \/ UNCHANGED allVars
  PROVE  /\ UNCHANGED <<text, meaning, position, parser_state, depth, span, seen, whole>>
         /\ pc' # "caller" \/ UNCHANGED <<token, pc>>
<1>1. CASE AtTag \/ AtOther \/ AtNone
  BY <1>1 DEF AtTag, AtOther, AtNone, GoOn, NextToken, NoToken, clientVars
<1>2. CASE AtAttribute
  <2>1. GoOn \/ \E good : Return(AckOr(good))
    BY <1>2, Zenon
    DEF AtAttribute, CommonAttribute, PairAttribute, EmmcAttribute, AnyAttribute
  <2> QED
    BY <1>2, <2>1 DEF AtAttribute, GoOn, NextToken, Return
<1>3. CASE UNCHANGED allVars
  BY <1>3 DEF allVars, vars, clientVars
<1> QED
  BY <1>1, <1>2, <1>3

LEMMA HearsNext ==
  ASSUME BasicInv, Hears, [ReaderNext]_allVars
  PROVE  Hears'
<1>1. UNCHANGED <<meaning, text, whole>>
  <2>1. Read => UNCHANGED <<meaning, text, whole>>
    BY GetTokenKeeps DEF Read, clientVars
  <2> QED
    BY <2>1, CallerLeaves DEF ReaderNext, Stopped
<1>2. SUFFICES ASSUME meaning # {} PROVE Hears'
  BY <1>1 DEF Hears
<1>3. PICK d \in Documents \cup Buffers :
        meaning = {d.tokens} /\ Follows(d) /\ (whole => Len(text) = Len(d.text))
  BY <1>2 DEF Hears
<1>4. Follows(d)'
  <2>1. CASE Read
    BY <1>3, <2>1, GetTokenFollows DEF Read, BasicInv, IInv
  <2>2. CASE AtTag \/ AtAttribute \/ AtOther \/ AtNone \/ UNCHANGED allVars
    BY <1>3, <2>2, CallerLeaves, CallerFollows
  <2> QED
    BY <2>1, <2>2 DEF ReaderNext, Stopped
<1> QED
  BY <1>1, <1>3, <1>4 DEF Hears

LEMMA HearsRight == Hears => TokensAgree
<1>1. SUFFICES ASSUME Hears, whole \/ token # "NONE", meaning # {} PROVE TokensMatch
  BY DEF TokensAgree, TokensMatch
<1>2. PICK d \in Documents \cup Buffers :
        meaning = {d.tokens} /\ Follows(d) /\ (whole => Len(text) = Len(d.text))
  BY <1>1 DEF Hears
<1> QED
  BY <1>1, <1>2, ToldMatches

(***************************************************************************)
(* Of any documents, in any number, each reader is given the tokens they   *)
(* are written with, names and values included and none left out; and of a *)
(* text that is cut off anywhere the first of them, none of which is made  *)
(* of an end that is missing.                                              *)
(***************************************************************************)
THEOREM TokensAreRight ==
  ASSUME DocumentsWritten, BuffersWritten
  PROVE  ReaderSpec => []TokensAgree
<1>1. ReaderInit => Hears
  BY HearsInit
<1>2. BasicInv /\ Hears /\ [ReaderNext]_allVars => Hears'
  BY HearsNext
<1> QED
  BY <1>1, <1>2, HearsRight, ReaderInvariance, PTL DEF ReaderSpec

(***************************************************************************)
(* For any messages whose elements have no attribute twice and no empty    *)
(* outcome, in any number and order, and wherever respbuf ends: a reader   *)
(* decides by the first <response> that has what it waits for, and by      *)
(* nothing else.                                                           *)
(***************************************************************************)
THEOREM RightDecision ==
  ASSUME PlainMessages, DocumentsWritten, BuffersWritten
  PROVE  ReaderSpec => []DecisionMatches
<1>1. ReaderInit => Decided
  BY DecidedInit
<1>2. BasicInv /\ BasicInv' /\ TokensAgree /\ TokensAgree' /\ Decided
        /\ [ReaderNext]_allVars => Decided'
  BY DecidedNext
<1>3. Decided => DecisionMatches
  BY DEF Decided
<1> QED
  BY <1>1, <1>2, <1>3, TokensAreRight, ReaderInvariance, PTL DEF ReaderSpec
===============================================================================
