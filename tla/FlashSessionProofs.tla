-------------------------- MODULE FlashSessionProofs --------------------------
(***************************************************************************)
(* Proofs about FlashSession, for scripts of any length in the order of    *)
(* main, any number of payload writes and any retry limits.                *)
(***************************************************************************)
EXTENDS FlashSession, SequenceTheorems, WellFoundedInduction, TLAPS

\* A program command comes before the one the host is at.
Ahead == \E p \in 1..(k - 1) : script[p] = "program"

NoRaw(s) == \A j \in 1..Len(s) : s[j].rawmode = "none"
NoResponse(s) == \A j \in 1..Len(s) : s[j].kind # "response"

\* The responses among the messages s are to command k.
Own(s) == \A j \in 1..Len(s) : s[j].kind = "response" => s[j].for = k

OneResponse(s) ==
  \E h \in 1..Len(s) :
    /\ s[h].kind = "response" /\ s[h].for = k
    /\ \A j \in 1..Len(s) : j # h => s[j].kind # "response"

\* What says rawmode among the messages s is a refusal of command k.
Refusal(m) == m.rawmode # "none" => m.for = k /\ m.value = "NAK"
Refused(s) == \A j \in 1..Len(s) : Refusal(s[j])

Accept == Response("ACK", "true", FALSE, k)

\* The device's acceptance of the program command is the last message of s.
EndsAccepted(s) ==
  /\ s # <<>> /\ s[Len(s)] = Accept
  /\ \A j \in 1..(Len(s) - 1) : Refusal(s[j])

\* The device's answer to the payload, alone.
DataAnswer(s) ==
  Len(s) = 1 /\ s[1].kind = "response" /\ s[1].rawmode = "false" /\ s[1].for = k

(***************************************************************************)
(* The inductive invariant.  Pipe: payload is in the OUT pipe only while   *)
(* the device is in raw mode and expects at least as much, and a program   *)
(* command is the last thing in the pipe.                                  *)
(***************************************************************************)
CommandsOnly ==
  \A j \in 1..Len(outp) :
    /\ outp[j].kind = "command" /\ outp[j].for \in 1..k
    /\ script[outp[j].for] = "program" => j = Len(outp) /\ outp[j].for = k

Pipe ==
  \/ CommandsOnly /\ (mode = "raw" => outp = <<>>)
  \/ /\ mode = "raw" /\ Len(outp) <= need
     /\ \A j \in 1..Len(outp) : outp[j].kind = "data"

RawDevice == mode = "raw" => need > 0 /\ cur > 0 /\ script[cur] = "program"

\* A positive answer to what a command asks for comes after it was done.
Truthful(m) ==
  /\ m.kind = "response" => m.for \in 1..Len(script)
  /\ m.kind # "response" => m.rawmode = "none"
  /\ m.kind = "response" /\ m.value = "ACK"
       /\ (m.rawmode = "false" \/ script[m.for] # "program") => m.for \in done

TruthfulAll(s) == \A j \in 1..Len(s) : Truthful(s[j])

\* What has been left behind was carried out.
Settled ==
  \A j \in 1..Len(script) :
    script[j] \in {"program", "patch"} /\ ProgramBefore(j) /\ (j < k \/ pc = "done") => j \in done

ToDo ==
  pc = "send" =>
    /\ todo # <<>>
    /\ phase = "command" =>
         /\ todo[Len(todo)] = "write"
         /\ script[k] # "power" => \A j \in 1..(Len(todo) - 1) : todo[j] = "clear"
    /\ phase = "data" => todo = <<"clear">>

(***************************************************************************)
(* What may be on its way while the host sends command k, waits for its    *)
(* answer, sends payload and waits for the answer to that.  b, i and e are *)
(* the messages read, in the pipe and not yet sent.                        *)
(***************************************************************************)
Sending ==
  /\ mode # "raw" /\ NoRaw(inp) /\ NoRaw(emit)
  /\ \A j \in 1..Len(outp) : script[outp[j].for] # "program"
  /\ Ahead =>
       IF script[k] = "power"
       THEN Own(inp) /\ Own(emit) /\ \A j \in 1..Len(outp) : outp[j].for = k
       ELSE outp = <<>> /\ NoResponse(inp) /\ NoResponse(emit)

ProgramWaits(b, i, e) ==
  \/ mode # "raw" /\ Refused(b) /\ Refused(i) /\ Refused(e)
  \/ /\ mode = "raw" /\ cur = k /\ need = Pieces /\ outp = <<>>
     /\ \/ Refused(b) /\ Refused(i) /\ e = <<Accept>>
        \/ Refused(b) /\ EndsAccepted(i) /\ e = <<>>
        \/ EndsAccepted(b) /\ i = <<>> /\ e = <<>>

DataWaits(b, i, e) ==
  \/ mode = "raw" /\ cur = k /\ need = Len(outp) /\ b = <<>> /\ i = <<>> /\ e = <<>>
  \/ /\ mode # "raw" /\ outp = <<>>
     /\ \/ b = <<>> /\ i = <<>> /\ DataAnswer(e)
        \/ b = <<>> /\ DataAnswer(i) /\ e = <<>>
        \/ DataAnswer(b) /\ i = <<>> /\ e = <<>>

OtherWaits(b, i, e) ==
  /\ mode # "raw" /\ NoRaw(i) /\ NoRaw(e)
  /\ Ahead =>
       IF script[k] = "power"
       THEN Own(b) /\ Own(i) /\ Own(e) /\ \A j \in 1..Len(outp) : outp[j].for = k
       ELSE \/ /\ outp \in {<<>>, <<CommandPkt(k)>>}
               /\ NoResponse(b) /\ NoResponse(i) /\ NoResponse(e)
            \/ /\ outp = <<>>
               /\ \/ NoResponse(b) /\ NoResponse(i) /\ OneResponse(e)
                  \/ NoResponse(b) /\ OneResponse(i) /\ NoResponse(e)
                  \/ OneResponse(b) /\ NoResponse(i) /\ NoResponse(e)

Waits(b, i, e) ==
  IF phase = "data" THEN DataWaits(b, i, e)
  ELSE IF script[k] = "program" THEN ProgramWaits(b, i, e)
  ELSE OtherWaits(b, i, e)

Streams ==
  /\ mode = "raw" /\ cur = k /\ inp = <<>> /\ emit = <<>>
  /\ piece < Pieces /\ need + piece = Pieces + Len(outp)

Exchange ==
  /\ phase = "data" => script[k] = "program"
  /\ phase = "command" => piece = 0
  /\ pc = "send" /\ phase = "command" => Sending
  /\ pc = "send" /\ phase = "data" => Streams /\ piece = 0 /\ outp = <<>>
  /\ pc = "stream" => Streams /\ phase = "data"
  /\ pc = "read" => Waits(respbuf, inp, emit)

IInv ==
  /\ TypeOK /\ Pipe /\ RawDevice
  /\ TruthfulAll(respbuf) /\ TruthfulAll(inp) /\ TruthfulAll(emit)
  /\ Settled /\ AnswersMatch /\ ToDo /\ Exchange
-------------------------------------------------------------------------------
(***************************************************************************)
(* Scripts.                                                                *)
(***************************************************************************)
LEMMA RunFacts ==
  ASSUME run \in Runs
  PROVE  /\ script \in Seq(Ops) /\ Len(script) \in Nat \ {0}
         /\ \A j \in 1..Len(script) : script[j] \in Ops
         /\ MaxRetry \in Nat \ {0}
         /\ Pieces \in Nat \ {0} /\ PowerTries \in Nat \ {0}
         /\ \A i, j \in 1..Len(script) :
              i < j => /\ script[i] # "power"
                       /\ script[i] = "program" => script[j] # "erase"
<1>1. run \in [script : Seq(Ops) \ {<<>>}, healthy : BOOLEAN, limit : Nat \ {0}]
  BY SessionAssumption
<1>2. script \in Seq(Ops) /\ script # <<>> /\ MaxRetry \in Nat \ {0}
  BY <1>1 DEF script, MaxRetry
<1> QED
  BY <1>2, SessionAssumption, ScriptOrder, EmptySeq, ElementOfSeq DEF script

(***************************************************************************)
(* The readers.                                                            *)
(***************************************************************************)
LEMMA LeastExists ==
  ASSUME NEW S \in SUBSET Nat, S # {}
  PROVE  \E x \in S : \A y \in S : x <= y
<1> DEFINE R == OpToRel(<, Nat)
<1>1. IsWellFoundedOn(R, Nat)
  BY NatLessThanWellFounded
<1>2. \A x, y \in Nat : y < x => <<y, x>> \in R
  BY DEF OpToRel
<1> HIDE DEF R
<1>3. PICK x \in S : \A y \in S : ~ (<<y, x>> \in R)
  BY <1>1, WFMin
<1>4. \A y \in S : ~(y < x)
  BY <1>2, <1>3
<1> QED
  BY <1>3, <1>4

LEMMA FirstFacts ==
  ASSUME NEW S \in SUBSET Nat, S # {}
  PROVE  First(S) \in S /\ \A h \in S : First(S) <= h
  BY LeastExists DEF First

LEMMA LastFacts ==
  ASSUME NEW S \in SUBSET Nat, S # {}, NEW n \in Nat, \A h \in S : h <= n
  PROVE  Last(S) \in S
<1> DEFINE U == {m \in Nat : \A h \in S : h <= m}
<1>1. PICK m \in U : \A y \in U : m <= y
  BY LeastExists
<1>2. m \in S
  <2> SUFFICES ASSUME m \notin S PROVE FALSE
    OBVIOUS
  <2>1. \A h \in S : h <= m - 1
    OBVIOUS
  <2>2. PICK h \in S : TRUE
    OBVIOUS
  <2>3. h \in Nat /\ h <= m - 1
    BY <2>1
  <2> QED
    BY <1>1, <2>1, <2>3
<1> QED
  BY <1>2 DEF Last

LEMMA DecisiveFacts ==
  ASSUME NEW S \in SUBSET (Nat \ {0}), NEW b, Decisive(b, S) # 0
  PROVE  Decisive(b, S) \in S /\ \A h \in S : Decisive(b, S) <= h
  BY FirstFacts DEF Decisive

LEMMA EmmcFacts ==
  ASSUME NEW b \in Seq(Messages), EmmcAt(b) # 0
  PROVE  EmmcAt(b) \in Responses(b)
<1> DEFINE seen(j) == \E h \in 1..j : b[h].kind = "size"
           S == {j \in 1..Len(b) : \E r \in Responses(b) :
                   r <= j /\ (b[r].value # "ACK" \/ seen(j))}
           T == {r \in Responses(b) : r <= First(S)}
<1>1. EmmcAt(b) = IF S = {} THEN 0 ELSE Last(T)
  BY DEF EmmcAt
<1>2. /\ Len(b) \in Nat /\ S \subseteq 1..Len(b)
      /\ \A j \in S : \E r \in Responses(b) : r <= j
  OBVIOUS
<1> HIDE DEF S
<1>3. S # {} /\ S \in SUBSET Nat
  BY <1>1, <1>2
<1>4. First(S) \in S
  BY <1>3, FirstFacts
<1>5. T # {} /\ T \subseteq Responses(b) /\ T \in SUBSET Nat /\ \A h \in T : h <= Len(b)
  <2>1. PICK r \in Responses(b) : r <= First(S)
    BY <1>2, <1>4
  <2>2. T # {} /\ T \subseteq Responses(b)
    BY <2>1
  <2>3. Responses(b) \subseteq 1..Len(b)
    BY DEF Responses
  <2> HIDE DEF T
  <2> QED
    BY <1>2, <2>2, <2>3
<1> HIDE DEF T
<1>6. Last(T) \in T
  BY <1>2, <1>5, LastFacts
<1> QED
  BY <1>1, <1>3, <1>5, <1>6

\* What decides is a response, and for a program command one that says rawmode,
\* with none such before it.
LEMMA AnswerFacts ==
  ASSUME NEW b \in Seq(Messages), AnswerAt(b) # 0
  PROVE  /\ AnswerAt(b) \in 1..Len(b) /\ b[AnswerAt(b)].kind = "response"
         /\ script[k] = "program" =>
              /\ b[AnswerAt(b)].rawmode # "none"
              /\ \A j \in 1..(AnswerAt(b) - 1) :
                   b[j].kind = "response" => b[j].rawmode = "none"
<1> DEFINE at == AnswerAt(b)
<1>1. /\ Responses(b) \in SUBSET (Nat \ {0})
      /\ \A j \in Responses(b) : j \in 1..Len(b) /\ b[j].kind = "response"
  BY DEF Responses
<1>2. CASE script[k] = "program"
  <2> DEFINE S == {j \in Responses(b) : b[j].rawmode # "none"}
  <2>1. at = Decisive(b, S)
    BY <1>2 DEF AnswerAt, RawModeAt
  <2>2. at \in S /\ \A h \in S : at <= h
    BY <1>1, <2>1, DecisiveFacts
  <2>3. \A j \in 1..(at - 1) : b[j].kind = "response" => b[j].rawmode = "none"
    BY <1>1, <2>2 DEF Responses
  <2> QED
    BY <1>1, <2>2, <2>3
<1>3. CASE script[k] = "emmc"
  BY <1>1, <1>3, EmmcFacts DEF AnswerAt
<1>4. CASE script[k] = "configure"
  <2>1. at = Decisive(b, {j \in Responses(b) : b[j].maxp})
    BY <1>4 DEF AnswerAt, MaxPayloadAt
  <2>2. at \in Responses(b)
    BY <1>1, <2>1, DecisiveFacts
  <2> QED
    BY <1>1, <1>4, <2>2
<1>5. CASE script[k] \notin {"program", "emmc", "configure"}
  <2>1. at = Decisive(b, Responses(b))
    BY <1>5 DEF AnswerAt, CommonAt
  <2>2. at \in Responses(b)
    BY <1>1, <2>1, DecisiveFacts
  <2> QED
    BY <1>1, <1>5, <2>2
<1> QED
  BY <1>2, <1>3, <1>4, <1>5
-------------------------------------------------------------------------------
(***************************************************************************)
(* Messages on their way: the head of s goes to the end of r.              *)
(***************************************************************************)
LEMMA OnlyOne ==
  ASSUME NEW x
  PROVE  <<x>> # <<>> /\ Len(<<x>>) = 1 /\ <<x>>[1] = x /\ Head(<<x>>) = x /\ Tail(<<x>>) = <<>>
  OBVIOUS

LEMMA HeadTailFacts ==
  ASSUME NEW S, NEW s \in Seq(S), s # <<>>
  PROVE  /\ Len(s) \in Nat \ {0} /\ Head(s) = s[1] /\ Head(s) \in S
         /\ Tail(s) \in Seq(S) /\ Len(Tail(s)) = Len(s) - 1
         /\ \A j \in 1..(Len(s) - 1) : Tail(s)[j] = s[j + 1]
  BY HeadTailProperties, EmptySeq, LenProperties, ElementOfSeq

LEMMA AppendFacts ==
  ASSUME NEW S, NEW r \in Seq(S), NEW m \in S
  PROVE  /\ Append(r, m) \in Seq(S) /\ Append(r, m) # <<>> /\ Len(r) \in Nat
         /\ Len(Append(r, m)) = Len(r) + 1 /\ Append(r, m)[Len(r) + 1] = m
         /\ \A j \in 1..Len(r) : Append(r, m)[j] = r[j]
  BY AppendProperties, LenProperties

\* What moves, in terms of the elements of the four sequences.
LEMMA PassFacts ==
  ASSUME NEW r \in Seq(Messages), NEW s \in Seq(Messages), s # <<>>
  PROVE  /\ Append(r, Head(s)) \in Seq(Messages) /\ Tail(s) \in Seq(Messages)
         /\ Len(r) \in Nat /\ Len(s) \in Nat \ {0}
         /\ Len(Append(r, Head(s))) = Len(r) + 1 /\ Len(Tail(s)) = Len(s) - 1
         /\ Append(r, Head(s)) # <<>>
         /\ Append(r, Head(s))[Len(r) + 1] = s[1]
         /\ \A j \in 1..Len(r) : Append(r, Head(s))[j] = r[j]
         /\ \A j \in 1..(Len(s) - 1) : Tail(s)[j] = s[j + 1]
<1>1. /\ Len(s) \in Nat \ {0} /\ Head(s) = s[1] /\ Head(s) \in Messages
      /\ Tail(s) \in Seq(Messages) /\ Len(Tail(s)) = Len(s) - 1
      /\ \A j \in 1..(Len(s) - 1) : Tail(s)[j] = s[j + 1]
  BY HeadTailFacts
<1> QED
  BY <1>1, AppendFacts

LEMMA PassAll ==
  ASSUME NEW r \in Seq(Messages), NEW s \in Seq(Messages), s # <<>>
  PROVE  LET R == Append(r, Head(s))
             T == Tail(s)
         IN /\ NoRaw(s) => NoRaw(T)
            /\ NoRaw(r) /\ NoRaw(s) => NoRaw(R)
            /\ NoResponse(s) => NoResponse(T)
            /\ NoResponse(r) /\ NoResponse(s) => NoResponse(R)
            /\ Own(s) => Own(T)
            /\ Own(r) /\ Own(s) => Own(R)
            /\ Refused(s) => Refused(T)
            /\ Refused(r) /\ Refused(s) => Refused(R)
            /\ TruthfulAll(s) => TruthfulAll(T)
            /\ TruthfulAll(r) /\ TruthfulAll(s) => TruthfulAll(R)
<1> DEFINE R == Append(r, Head(s))
           T == Tail(s)
<1>1. /\ Len(r) \in Nat /\ Len(s) \in Nat \ {0}
      /\ Len(R) = Len(r) + 1 /\ Len(T) = Len(s) - 1
      /\ R[Len(r) + 1] = s[1]
      /\ \A j \in 1..Len(r) : R[j] = r[j]
      /\ \A j \in 1..(Len(s) - 1) : T[j] = s[j + 1]
  BY PassFacts
<1>2. \A j \in 1..Len(T) : \E h \in 1..Len(s) : T[j] = s[h]
  BY <1>1
<1>3. \A j \in 1..Len(R) : (\E h \in 1..Len(r) : R[j] = r[h]) \/ R[j] = s[1]
  <2> SUFFICES ASSUME NEW j \in 1..Len(R)
               PROVE  (\E h \in 1..Len(r) : R[j] = r[h]) \/ R[j] = s[1]
    OBVIOUS
  <2>1. j \in 1..Len(r) \/ j = Len(r) + 1
    BY <1>1
  <2> QED
    BY <1>1, <2>1
<1>4. 1 \in 1..Len(s)
  BY <1>1
<1> HIDE DEF R, T
<1>5. (NoRaw(s) => NoRaw(T)) /\ (NoRaw(r) /\ NoRaw(s) => NoRaw(R))
  <2>1. NoRaw(s) => NoRaw(T)
    BY <1>2 DEF NoRaw
  <2>2. NoRaw(r) /\ NoRaw(s) => NoRaw(R)
    BY <1>3, <1>4 DEF NoRaw
  <2> QED
    BY <2>1, <2>2
<1>6. (NoResponse(s) => NoResponse(T)) /\ (NoResponse(r) /\ NoResponse(s) => NoResponse(R))
  <2>1. NoResponse(s) => NoResponse(T)
    BY <1>2 DEF NoResponse
  <2>2. NoResponse(r) /\ NoResponse(s) => NoResponse(R)
    BY <1>3, <1>4 DEF NoResponse
  <2> QED
    BY <2>1, <2>2
<1>7. (Own(s) => Own(T)) /\ (Own(r) /\ Own(s) => Own(R))
  <2>1. Own(s) => Own(T)
    BY <1>2 DEF Own
  <2>2. Own(r) /\ Own(s) => Own(R)
    BY <1>3, <1>4 DEF Own
  <2> QED
    BY <2>1, <2>2
<1>8. (Refused(s) => Refused(T)) /\ (Refused(r) /\ Refused(s) => Refused(R))
  <2>1. Refused(s) => Refused(T)
    BY <1>2 DEF Refused
  <2>2. Refused(r) /\ Refused(s) => Refused(R)
    BY <1>3, <1>4 DEF Refused
  <2> QED
    BY <2>1, <2>2
<1>9. (TruthfulAll(s) => TruthfulAll(T)) /\ (TruthfulAll(r) /\ TruthfulAll(s) => TruthfulAll(R))
  <2>1. TruthfulAll(s) => TruthfulAll(T)
    BY <1>2 DEF TruthfulAll
  <2>2. TruthfulAll(r) /\ TruthfulAll(s) => TruthfulAll(R)
    BY <1>3, <1>4 DEF TruthfulAll
  <2> QED
    BY <2>1, <2>2
<1> QED
  BY <1>5, <1>6, <1>7, <1>8, <1>9 DEF R, T

LEMMA PassResponse ==
  ASSUME NEW r \in Seq(Messages), NEW s \in Seq(Messages), s # <<>>
  PROVE  LET R == Append(r, Head(s))
             T == Tail(s)
         IN /\ OneResponse(r) /\ NoResponse(s) => OneResponse(R)
            /\ NoResponse(r) /\ OneResponse(s) =>
                 \/ NoResponse(R) /\ OneResponse(T)
                 \/ OneResponse(R) /\ NoResponse(T)
<1> DEFINE R == Append(r, Head(s))
           T == Tail(s)
<1>1. /\ Len(r) \in Nat /\ Len(s) \in Nat \ {0}
      /\ Len(R) = Len(r) + 1 /\ Len(T) = Len(s) - 1
      /\ R[Len(r) + 1] = s[1]
      /\ \A j \in 1..Len(r) : R[j] = r[j]
      /\ \A j \in 1..(Len(s) - 1) : T[j] = s[j + 1]
  BY PassFacts
<1> HIDE DEF R, T
<1>2. ASSUME OneResponse(r), NoResponse(s)
      PROVE  OneResponse(R)
  <2>1. PICK h \in 1..Len(r) :
          /\ r[h].kind = "response" /\ r[h].for = k
          /\ \A j \in 1..Len(r) : j # h => r[j].kind # "response"
    BY <1>2 DEF OneResponse
  <2>2. h \in 1..Len(R) /\ R[h].kind = "response" /\ R[h].for = k
    BY <1>1, <2>1
  <2>3. \A j \in 1..Len(R) : j # h => R[j].kind # "response"
    <3> SUFFICES ASSUME NEW j \in 1..Len(R), j # h PROVE R[j].kind # "response"
      OBVIOUS
    <3>1. CASE j \in 1..Len(r)
      BY <1>1, <2>1, <3>1
    <3>2. CASE j = Len(r) + 1
      BY <1>1, <1>2, <3>2 DEF NoResponse
    <3> QED
      BY <1>1, <3>1, <3>2
  <2> QED
    BY <2>2, <2>3 DEF OneResponse
<1>3. ASSUME NoResponse(r), OneResponse(s)
      PROVE  \/ NoResponse(R) /\ OneResponse(T)
             \/ OneResponse(R) /\ NoResponse(T)
  <2>1. PICK h \in 1..Len(s) :
          /\ s[h].kind = "response" /\ s[h].for = k
          /\ \A j \in 1..Len(s) : j # h => s[j].kind # "response"
    BY <1>3 DEF OneResponse
  <2>2. \A j \in 1..Len(R) : j \in 1..Len(r) \/ j = Len(r) + 1
    BY <1>1
  <2>3. CASE h = 1
    <3>1. R[Len(r) + 1].kind = "response" /\ R[Len(r) + 1].for = k /\ Len(r) + 1 \in 1..Len(R)
      BY <1>1, <2>1, <2>3
    <3>2. \A j \in 1..Len(R) : j # Len(r) + 1 => R[j].kind # "response"
      BY <1>1, <1>3, <2>2 DEF NoResponse
    <3>3. OneResponse(R)
      BY <3>1, <3>2 DEF OneResponse
    <3>4. NoResponse(T)
      BY <1>1, <2>1, <2>3 DEF NoResponse
    <3> QED
      BY <3>3, <3>4
  <2>4. CASE h # 1
    <3>1. NoResponse(R)
      BY <1>1, <1>3, <2>1, <2>2, <2>4 DEF NoResponse
    <3>2. h - 1 \in 1..(Len(s) - 1) /\ (h - 1) + 1 = h
      BY <1>1, <2>4
    <3>3. h - 1 \in 1..Len(T) /\ T[h - 1].kind = "response" /\ T[h - 1].for = k
      BY <1>1, <2>1, <3>2
    <3>4. \A j \in 1..Len(T) : j # h - 1 => j + 1 \in 1..Len(s) /\ j + 1 # h /\ T[j] = s[j + 1]
      BY <1>1, <2>4
    <3>5. \A j \in 1..Len(T) : j # h - 1 => T[j].kind # "response"
      BY <2>1, <3>4
    <3> QED
      BY <3>1, <3>3, <3>5 DEF OneResponse
  <2> QED
    BY <2>3, <2>4
<1> QED
  BY <1>2, <1>3 DEF R, T

LEMMA PassAccept ==
  ASSUME NEW r \in Seq(Messages), NEW s \in Seq(Messages), s # <<>>, Refused(r)
  PROVE  LET R == Append(r, Head(s))
             T == Tail(s)
         IN /\ EndsAccepted(s) =>
                 \/ Refused(R) /\ EndsAccepted(T)
                 \/ EndsAccepted(R) /\ T = <<>>
            /\ s = <<Accept>> => EndsAccepted(R) /\ T = <<>>
<1> DEFINE R == Append(r, Head(s))
           T == Tail(s)
<1>1. /\ Len(r) \in Nat /\ Len(s) \in Nat \ {0}
      /\ Len(R) = Len(r) + 1 /\ Len(T) = Len(s) - 1
      /\ R[Len(r) + 1] = s[1] /\ R # <<>> /\ T \in Seq(Messages)
      /\ \A j \in 1..Len(r) : R[j] = r[j]
      /\ \A j \in 1..(Len(s) - 1) : T[j] = s[j + 1]
  BY PassFacts
<1> HIDE DEF R, T
<1>2. \A j \in 1..Len(R) : j \in 1..Len(r) \/ j = Len(r) + 1
  BY <1>1
<1>3. ASSUME s[1] = Accept PROVE EndsAccepted(R)
  BY <1>1, <1>3 DEF EndsAccepted, Refused
<1>4. ASSUME EndsAccepted(s)
      PROVE  \/ Refused(R) /\ EndsAccepted(T)
             \/ EndsAccepted(R) /\ T = <<>>
  <2>1. s[Len(s)] = Accept /\ \A j \in 1..(Len(s) - 1) : Refusal(s[j])
    BY <1>4 DEF EndsAccepted
  <2>2. CASE Len(s) = 1
    BY <1>1, <1>3, <2>1, <2>2, EmptySeq
  <2>3. CASE Len(s) > 1
    <3>1. Refused(R)
      BY <1>1, <1>2, <2>1, <2>3 DEF Refused
    <3>2. T # <<>> /\ T[Len(T)] = Accept
      BY <1>1, <2>1, <2>3
    <3>3. \A j \in 1..(Len(T) - 1) : Refusal(T[j])
      <4>1. \A j \in 1..(Len(T) - 1) : j + 1 \in 1..(Len(s) - 1) /\ T[j] = s[j + 1]
        BY <1>1
      <4> QED
        BY <2>1, <4>1
    <3> QED
      BY <3>1, <3>2, <3>3 DEF EndsAccepted
  <2> QED
    BY <1>1, <2>2, <2>3
<1>5. ASSUME s = <<Accept>> PROVE EndsAccepted(R) /\ T = <<>>
  <2>1. s[1] = Accept /\ Len(s) = 1
    BY <1>5, OnlyOne
  <2> QED
    BY <1>1, <1>3, <2>1, EmptySeq
<1> QED
  BY <1>4, <1>5 DEF R, T

LEMMA PassData ==
  ASSUME NEW s \in Seq(Messages), DataAnswer(s)
  PROVE  /\ s # <<>> /\ DataAnswer(Append(<<>>, Head(s))) /\ Tail(s) = <<>>
<1>1. Len(s) = 1
  BY DEF DataAnswer
<1>2. <<>> \in Seq(Messages) /\ Len(<<>>) = 0 /\ s # <<>>
  BY <1>1, EmptySeq
<1>3. Len(Append(<<>>, Head(s))) = 1 /\ Append(<<>>, Head(s))[1] = s[1]
  BY <1>1, <1>2, PassFacts
<1>4. Tail(s) \in Seq(Messages) /\ Len(Tail(s)) = 0
  BY <1>1, <1>2, HeadTailFacts
<1> QED
  BY <1>2, <1>3, <1>4, EmptySeq DEF DataAnswer

\* The host reads a message.
LEMMA WaitsRead ==
  ASSUME NEW b \in Seq(Messages), NEW i \in Seq(Messages), NEW e, i # <<>>, Waits(b, i, e)
  PROVE  Waits(Append(b, Head(i)), Tail(i), e)
<1> DEFINE B == Append(b, Head(i))
           I == Tail(i)
<1>1. /\ NoRaw(i) => NoRaw(I)
      /\ NoResponse(i) => NoResponse(I)
      /\ NoResponse(b) /\ NoResponse(i) => NoResponse(B)
      /\ Own(i) => Own(I)
      /\ Own(b) /\ Own(i) => Own(B)
      /\ Refused(i) => Refused(I)
      /\ Refused(b) /\ Refused(i) => Refused(B)
  BY PassAll
<1>2. /\ OneResponse(b) /\ NoResponse(i) => OneResponse(B)
      /\ NoResponse(b) /\ OneResponse(i) =>
           \/ NoResponse(B) /\ OneResponse(I)
           \/ OneResponse(B) /\ NoResponse(I)
  BY PassResponse
<1>3. Refused(b) /\ EndsAccepted(i) =>
        \/ Refused(B) /\ EndsAccepted(I)
        \/ EndsAccepted(B) /\ I = <<>>
  BY PassAccept
<1>4. b = <<>> /\ DataAnswer(i) => DataAnswer(B) /\ I = <<>>
  BY PassData
<1> HIDE DEF B, I
<1>5. DataWaits(b, i, e) => DataWaits(B, I, e)
  BY <1>4 DEF DataWaits
<1>6. ProgramWaits(b, i, e) => ProgramWaits(B, I, e)
  BY <1>1, <1>3 DEF ProgramWaits
<1>7. ASSUME OtherWaits(b, i, e) PROVE OtherWaits(B, I, e)
  <2>1. CASE ~Ahead
    BY <1>1, <1>7, <2>1 DEF OtherWaits
  <2>2. CASE Ahead /\ script[k] = "power"
    BY <1>1, <1>7, <2>2 DEF OtherWaits
  <2>3. CASE Ahead /\ script[k] # "power"
    BY <1>1, <1>2, <1>7, <2>3 DEF OtherWaits
  <2> QED
    BY <2>1, <2>2, <2>3
<1> QED
  BY <1>5, <1>6, <1>7 DEF Waits, B, I

\* A message of the device comes into the IN pipe.
LEMMA WaitsEmit ==
  ASSUME NEW i \in Seq(Messages), NEW e \in Seq(Messages), NEW b, e # <<>>, Waits(b, i, e)
  PROVE  Waits(b, Append(i, Head(e)), Tail(e))
<1> DEFINE I == Append(i, Head(e))
           E == Tail(e)
<1>1. /\ NoRaw(e) => NoRaw(E)
      /\ NoRaw(i) /\ NoRaw(e) => NoRaw(I)
      /\ NoResponse(e) => NoResponse(E)
      /\ NoResponse(i) /\ NoResponse(e) => NoResponse(I)
      /\ Own(e) => Own(E)
      /\ Own(i) /\ Own(e) => Own(I)
      /\ Refused(e) => Refused(E)
      /\ Refused(i) /\ Refused(e) => Refused(I)
  BY PassAll
<1>2. /\ OneResponse(i) /\ NoResponse(e) => OneResponse(I)
      /\ NoResponse(i) /\ OneResponse(e) =>
           \/ NoResponse(I) /\ OneResponse(E)
           \/ OneResponse(I) /\ NoResponse(E)
  BY PassResponse
<1>3. Refused(i) /\ e = <<Accept>> => EndsAccepted(I) /\ E = <<>>
  BY PassAccept
<1>4. i = <<>> /\ DataAnswer(e) => DataAnswer(I) /\ E = <<>>
  BY PassData
<1> HIDE DEF E, I
<1>5. DataWaits(b, i, e) => DataWaits(b, I, E)
  BY <1>4 DEF DataWaits
<1>6. ProgramWaits(b, i, e) => ProgramWaits(b, I, E)
  BY <1>1, <1>3 DEF ProgramWaits
<1>7. ASSUME OtherWaits(b, i, e) PROVE OtherWaits(b, I, E)
  <2>1. CASE ~Ahead
    BY <1>1, <1>7, <2>1 DEF OtherWaits
  <2>2. CASE Ahead /\ script[k] = "power"
    BY <1>1, <1>7, <2>2 DEF OtherWaits
  <2>3. CASE Ahead /\ script[k] # "power"
    BY <1>1, <1>2, <1>7, <2>3 DEF OtherWaits
  <2> QED
    BY <2>1, <2>2, <2>3
<1> QED
  BY <1>5, <1>6, <1>7 DEF Waits, E, I
-------------------------------------------------------------------------------
(***************************************************************************)
(* What the decisive answer tells: the host goes on to its payload only    *)
(* when the device waits for it with empty pipes (Accepted), and to its    *)
(* next command only when nothing of this one can be mistaken (Ready).     *)
(***************************************************************************)
Accepted(i) ==
  /\ mode = "raw" /\ cur = k /\ need = Pieces
  /\ outp = <<>> /\ i = <<>> /\ emit = <<>>

Ready(i) ==
  /\ mode # "raw" /\ NoRaw(i) /\ NoRaw(emit)
  /\ \A j \in 1..Len(outp) : script[outp[j].for] # "program"
  /\ ProgramBefore(k) => outp = <<>> /\ NoResponse(i) /\ NoResponse(emit)

\* The power command may be sent again.
Again(i) ==
  /\ mode # "raw" /\ NoRaw(i) /\ NoRaw(emit)
  /\ \A j \in 1..Len(outp) : script[outp[j].for] # "program"
  /\ Ahead => Own(i) /\ Own(emit) /\ \A j \in 1..Len(outp) : outp[j].for = k

Carried == script[k] \in {"program", "patch"} /\ ProgramBefore(k) => k \in done

AwaitsGo == script[k] = "program" /\ phase = "command"

LEMMA AheadFacts ==
  ASSUME run \in Runs, k \in 1..Len(script)
  PROVE  /\ ProgramBefore(k) <=> Ahead \/ script[k] = "program"
         /\ Ahead => script[k] # "erase"
<1>1. k \in Nat \ {0} /\ Len(script) \in Nat
  BY RunFacts
<1>2. ProgramBefore(k) <=> Ahead \/ script[k] = "program"
  <2>1. \A p \in 1..k : p \in 1..(k - 1) \/ p = k
    BY <1>1
  <2>2. k \in 1..k /\ \A p \in 1..(k - 1) : p \in 1..k
    BY <1>1
  <2> QED
    BY <2>1, <2>2 DEF ProgramBefore, Ahead
<1>3. Ahead => script[k] # "erase"
  <2>1. \A p \in 1..(k - 1) : p \in 1..Len(script) /\ p < k
    BY <1>1
  <2> QED
    BY <2>1, RunFacts DEF Ahead
<1> QED
  BY <1>2, <1>3

\* No program command is in the pipe while the host is at another command.
LEMMA NoProgramInPipe ==
  ASSUME Pipe, mode # "raw", script[k] # "program"
  PROVE  \A j \in 1..Len(outp) : script[outp[j].for] # "program"
  BY DEF Pipe, CommandsOnly

LEMMA DecidesFor ==
  ASSUME run \in Runs, k \in 1..Len(script), phase \in {"command", "data"},
         phase = "data" => script[k] = "program",
         NEW b \in Seq(Messages), NEW i, Waits(b, i, emit), AnswerAt(b) # 0,
         ProgramBefore(k)
  PROVE  b[AnswerAt(b)].for = k
<1> DEFINE at == AnswerAt(b)
<1>1. /\ at \in 1..Len(b) /\ b[at].kind = "response"
      /\ script[k] = "program" => b[at].rawmode # "none"
      /\ Len(b) \in Nat
  BY AnswerFacts, LenProperties
<1> HIDE DEF at
<1>2. CASE phase = "data"
  <2>1. DataWaits(b, i, emit) /\ b # <<>>
    BY <1>1, <1>2 DEF Waits
  <2>2. DataAnswer(b)
    BY <2>1 DEF DataWaits
  <2> QED
    BY <1>1, <2>2 DEF DataAnswer, at
<1>3. CASE phase = "command" /\ script[k] = "program"
  <2>1. ProgramWaits(b, i, emit)
    BY <1>3 DEF Waits
  <2>2. Refused(b) => b[at].for = k
    BY <1>1, <1>3 DEF Refused, Refusal
  <2>3. EndsAccepted(b) => b[at].for = k
    <3>1. at = Len(b) \/ at \in 1..(Len(b) - 1)
      BY <1>1
    <3> QED
      BY <1>1, <1>3, <3>1 DEF EndsAccepted, Refusal, Accept, Response
  <2> QED
    BY <2>1, <2>2, <2>3 DEF ProgramWaits, at
<1>4. CASE phase = "command" /\ script[k] # "program"
  <2>1. OtherWaits(b, i, emit) /\ Ahead
    BY <1>4, AheadFacts DEF Waits
  <2>2. Own(b) \/ OneResponse(b)
    BY <1>1, <2>1 DEF OtherWaits, NoResponse
  <2> QED
    BY <1>1, <2>2 DEF Own, OneResponse, at
<1> QED
  BY <1>2, <1>3, <1>4

LEMMA Decides ==
  ASSUME run \in Runs, k \in 1..Len(script), phase \in {"command", "data"},
         phase = "data" => script[k] = "program", Pipe,
         NEW b \in Seq(Messages), NEW i, Waits(b, i, emit), AnswerAt(b) # 0,
         TruthfulAll(b)
  PROVE  LET m == b[AnswerAt(b)]
             v == Verdict(m)
         IN /\ m.for \in 1..Len(script)
            /\ AwaitsGo /\ v = "ACK" => Accepted(i)
            /\ script[k] # "power" /\ ~AwaitsGo /\ (v = "ACK" \/ script[k] = "erase") =>
                 Ready(i) /\ Carried
            /\ v # "NIL"
<1> DEFINE at == AnswerAt(b)
           m == b[at]
           v == Verdict(m)
<1>1. /\ at \in 1..Len(b) /\ m.kind = "response" /\ m \in Messages
      /\ script[k] = "program" => m.rawmode # "none"
      /\ Len(b) \in Nat
  BY AnswerFacts, LenProperties, ElementOfSeq
<1>2. Truthful(m)
  BY <1>1 DEF TruthfulAll
<1>3. ProgramBefore(k) => m.for = k
  BY DecidesFor
<1>4. m.value \in {"none", "ACK", "NAK"}
  BY <1>1 DEF Messages
<1> HIDE DEF at
<1>5. v # "NIL" /\ (v = "ACK" => m.value = "ACK")
  BY <1>4 DEF Verdict
<1> HIDE DEF m, v
<1>6. ASSUME AwaitsGo, v = "ACK"
      PROVE  Accepted(i)
  <2>1. m.value = "ACK" /\ m.rawmode # "none"
    BY <1>1, <1>5, <1>6 DEF AwaitsGo
  <2>2. ~ Refused(b)
    BY <1>1, <2>1 DEF Refused, Refusal, m
  <2>3. ProgramWaits(b, i, emit)
    BY <1>6 DEF AwaitsGo, Waits
  <2> QED
    BY <2>2, <2>3 DEF ProgramWaits, Accepted
<1>7. ASSUME phase = "data", v = "ACK"
      PROVE  Ready(i) /\ Carried
  <2>1. DataWaits(b, i, emit) /\ b # <<>>
    BY <1>1, <1>7 DEF Waits
  <2>2. DataAnswer(b) /\ mode # "raw" /\ outp = <<>> /\ i = <<>> /\ emit = <<>>
    BY <2>1 DEF DataWaits
  <2>3. Ready(i)
    BY <2>2 DEF Ready, NoRaw, NoResponse
  <2>4. m.rawmode = "false" /\ m.for = k /\ m.value = "ACK"
    BY <1>1, <1>5, <1>7, <2>2 DEF DataAnswer, m
  <2>5. k \in done
    BY <1>1, <1>2, <2>4 DEF Truthful
  <2> QED
    BY <2>3, <2>5 DEF Carried
<1>8. ASSUME script[k] \notin {"power", "program"}, v = "ACK" \/ script[k] = "erase"
      PROVE  Ready(i) /\ Carried
  <2>1. OtherWaits(b, i, emit)
    BY <1>8 DEF Waits
  <2>2. mode # "raw" /\ NoRaw(i) /\ NoRaw(emit)
    BY <2>1 DEF OtherWaits
  <2>3. ProgramBefore(k) <=> Ahead
    BY <1>8, AheadFacts
  <2>4. Ahead => outp = <<>> /\ NoResponse(i) /\ NoResponse(emit)
    BY <1>1, <1>8, <2>1 DEF OtherWaits, NoResponse, m
  <2>5. Ready(i)
    BY <1>8, <2>2, <2>3, <2>4, NoProgramInPipe DEF Ready
  <2>6. script[k] = "patch" /\ ProgramBefore(k) => k \in done
    BY <1>1, <1>2, <1>3, <1>5, <1>8 DEF Truthful
  <2> QED
    BY <1>8, <2>5, <2>6 DEF Carried
<1>9. m.for \in 1..Len(script)
  BY <1>1, <1>2 DEF Truthful
<1> QED
  BY <1>5, <1>6, <1>7, <1>8, <1>9 DEF AwaitsGo, m, v, at

\* When the response loop gives up, an erase is behind and the power command may go again.
LEMMA GivesUp ==
  ASSUME run \in Runs, k \in 1..Len(script), phase \in {"command", "data"},
         phase = "data" => script[k] = "program", Pipe,
         NEW b, NEW i, Waits(b, i, emit)
  PROVE  /\ script[k] = "erase" => Ready(i) /\ Carried
         /\ script[k] = "power" => Again(i)
<1>1. ASSUME script[k] = "erase" PROVE Ready(i) /\ Carried
  <2>1. OtherWaits(b, i, emit) /\ ~ProgramBefore(k)
    BY <1>1, AheadFacts DEF Waits
  <2> QED
    BY <1>1, <2>1, NoProgramInPipe DEF OtherWaits, Ready, Carried
<1>2. ASSUME script[k] = "power" PROVE Again(i)
  <2>1. OtherWaits(b, i, emit)
    BY <1>2 DEF Waits
  <2> QED
    BY <1>2, <2>1, NoProgramInPipe DEF OtherWaits, Again
<1> QED
  BY <1>1, <1>2
-------------------------------------------------------------------------------
(***************************************************************************)
(* The reaction of the host to an answer, or to none.                      *)
(***************************************************************************)
HostTyped ==
  /\ k \in 1..Len(script) /\ pc \in {"send", "read", "stream", "done", "fatal"}
  /\ todo \in Seq({"clear", "write"}) /\ phase \in {"command", "data"}
  /\ tries \in 1..PowerTries /\ piece \in 0..Pieces

Course == HostTyped /\ Pipe /\ Settled /\ ToDo /\ Exchange

LEMMA SendsFacts ==
  ASSUME NEW op
  PROVE  /\ Sends(op) \in Seq({"clear", "write"}) /\ Sends(op) # <<>>
         /\ Len(Sends(op)) \in Nat /\ Sends(op)[Len(Sends(op))] = "write"
         /\ op # "power" => \A j \in 1..(Len(Sends(op)) - 1) : Sends(op)[j] = "clear"
<1>1. CASE op = "program"
  BY <1>1 DEF Sends
<1>2. CASE op = "power"
  BY <1>2 DEF Sends
<1>3. CASE op \notin {"program", "power"}
  <2>1. Sends(op) = <<"clear", "write">>
    BY <1>3 DEF Sends
  <2> QED
    BY <2>1
<1> QED
  BY <1>1, <1>2, <1>3

LEMMA Exits ==
  ASSUME IInv, NEW p \in {"done", "fatal"}, Exit(p), UNCHANGED <<run, device, outp, tries>>,
         p = "done" => k = Len(script) /\ Carried
  PROVE  Course'
<1>1. /\ UNCHANGED <<run, k, todo, phase, piece, tries, mode, need, cur, emit, done, outp>>
      /\ pc' = p /\ k \in 1..Len(script) /\ Len(script) \in Nat
  BY RunFacts DEF Exit, device, IInv, TypeOK
<1>2. HostTyped'
  BY <1>1 DEF HostTyped, IInv, TypeOK, script
<1>3. Pipe'
  BY <1>1 DEF IInv, Pipe, CommandsOnly, script
<1>4. Settled'
  <2> SUFFICES ASSUME NEW j \in 1..Len(script), script[j] \in {"program", "patch"},
                      ProgramBefore(j), j < k \/ p = "done"
               PROVE  j \in done
    BY <1>1 DEF Settled, ProgramBefore, script
  <2>1. j < k \/ j = k
    BY <1>1
  <2> QED
    BY <1>1, <2>1 DEF IInv, Settled, Carried
<1>5. ToDo'
  BY <1>1 DEF ToDo
<1>6. Exchange'
  BY <1>1 DEF IInv, Exchange, script
<1> QED
  BY <1>2, <1>3, <1>4, <1>5, <1>6 DEF Course

LEMMA GoesOn ==
  ASSUME IInv, k < Len(script), Start(k + 1), UNCHANGED <<run, device, outp, tries>>,
         Ready(inp'), Carried
  PROVE  Course'
<1>1. /\ UNCHANGED <<run, tries, mode, need, cur, emit, done, outp>>
      /\ k' = k + 1 /\ pc' = "send" /\ todo' = Sends(script[k + 1]) /\ phase' = "command"
      /\ piece' = 0
      /\ k \in 1..Len(script) /\ Len(script) \in Nat /\ Pieces \in Nat
  BY RunFacts DEF Start, device, IInv, TypeOK
<1>2. /\ todo' \in Seq({"clear", "write"}) /\ todo' # <<>> /\ todo'[Len(todo')] = "write"
      /\ script[k + 1] # "power" => \A j \in 1..(Len(todo') - 1) : todo'[j] = "clear"
  BY <1>1, SendsFacts
<1>3. HostTyped'
  BY <1>1, <1>2 DEF HostTyped, IInv, TypeOK, script
<1>4. mode # "raw" /\ \A j \in 1..Len(outp) : script[outp[j].for] # "program"
  BY DEF Ready
<1>5. Pipe'
  <2>1. CommandsOnly
    BY <1>4 DEF IInv, Pipe
  <2>2. \A j \in 1..Len(outp) : outp[j].kind = "command" /\ outp[j].for \in 1..(k + 1)
    BY <1>1, <2>1 DEF CommandsOnly
  <2>3. CommandsOnly'
    BY <1>1, <1>4, <2>2 DEF CommandsOnly, script
  <2> QED
    BY <1>1, <1>4, <2>3 DEF Pipe
<1>6. Settled'
  <2> SUFFICES ASSUME NEW j \in 1..Len(script), script[j] \in {"program", "patch"},
                      ProgramBefore(j), j < k + 1
               PROVE  j \in done
    BY <1>1 DEF Settled, ProgramBefore, script
  <2>1. j < k \/ j = k
    BY <1>1
  <2> QED
    BY <1>1, <2>1 DEF IInv, Settled, Carried
<1>7. ToDo'
  BY <1>1, <1>2 DEF ToDo, script
<1>8. Sending'
  <2>1. Ahead' => ProgramBefore(k)
    BY <1>1 DEF Ahead, ProgramBefore, script
  <2>2. NoRaw(inp') /\ NoRaw(emit)
    BY DEF Ready
  <2>3. ProgramBefore(k) => outp = <<>> /\ NoResponse(inp') /\ NoResponse(emit)
    BY DEF Ready
  <2>4. NoRaw(inp)' /\ NoRaw(emit)'
    BY <1>1, <2>2 DEF NoRaw
  <2>5. (\A j \in 1..Len(outp) : script[outp[j].for] # "program")'
    BY <1>1, <1>4 DEF script
  <2>6. ASSUME Ahead'
        PROVE  outp' = <<>> /\ NoResponse(inp)' /\ NoResponse(emit)' /\ Own(inp)' /\ Own(emit)'
    BY <1>1, <2>1, <2>3, <2>6 DEF NoResponse, Own
  <2>7. (\A j \in 1..Len(<<>>) : <<>>[j].for = k)'
    OBVIOUS
  <2> QED
    BY <1>1, <1>4, <2>4, <2>5, <2>6, <2>7 DEF Sending
<1>9. Exchange'
  BY <1>1, <1>8 DEF Exchange
<1> QED
  BY <1>3, <1>5, <1>6, <1>7, <1>9 DEF Course

LEMMA TriesAgain ==
  ASSUME IInv, script[k] = "power", Start(k), tries > 1, tries' = tries - 1,
         UNCHANGED <<run, device, outp>>, Again(inp')
  PROVE  Course'
<1>1. /\ UNCHANGED <<run, mode, need, cur, emit, done, outp, k>>
      /\ pc' = "send" /\ todo' = Sends("power") /\ phase' = "command"
      /\ piece' = 0
      /\ k \in 1..Len(script) /\ Len(script) \in Nat /\ Pieces \in Nat
      /\ tries \in 1..PowerTries /\ PowerTries \in Nat
  BY RunFacts DEF Start, device, IInv, TypeOK
<1>2. todo' \in Seq({"clear", "write"}) /\ todo' # <<>> /\ todo'[Len(todo')] = "write"
  BY <1>1, SendsFacts
<1>3. HostTyped'
  <2>1. tries' \in 1..PowerTries
    BY <1>1
  <2> QED
    BY <1>1, <1>2, <2>1 DEF HostTyped, script
<1>4. Pipe'
  BY <1>1 DEF IInv, Pipe, CommandsOnly, script
<1>5. Settled'
  BY <1>1 DEF IInv, Settled, ProgramBefore, script
<1>6. ToDo'
  BY <1>1, <1>2 DEF ToDo, script
<1>7. Sending'
  BY <1>1 DEF Again, Sending, Ahead, NoRaw, Own, script
<1>8. Exchange'
  BY <1>1, <1>7 DEF Exchange
<1> QED
  BY <1>3, <1>4, <1>5, <1>6, <1>8 DEF Course

LEMMA GoesToData ==
  ASSUME IInv, script[k] = "program", phase = "command", phase' = "data",
         todo' = <<"clear">>, pc' = "send",
         UNCHANGED <<run, device, outp, tries, k, piece>>, Accepted(inp')
  PROVE  Course'
<1>1. /\ UNCHANGED <<run, mode, need, cur, emit, done, outp, k, tries, piece>>
      /\ k \in 1..Len(script) /\ Pieces \in Nat \ {0} /\ tries \in 1..PowerTries
  BY RunFacts DEF device, IInv, TypeOK
<1>2. piece = 0
  BY DEF IInv, Exchange
<1>3. <<"clear">> \in Seq({"clear", "write"}) /\ <<"clear">> # <<>>
  OBVIOUS
<1>4. HostTyped'
  BY <1>1, <1>2, <1>3 DEF HostTyped, script
<1>5. Pipe'
  BY <1>1 DEF IInv, Pipe, CommandsOnly, script
<1>6. Settled'
  BY <1>1 DEF IInv, Settled, ProgramBefore, script
<1>7. ToDo'
  BY <1>1, <1>3 DEF ToDo
<1>8. Exchange'
  <2>1. mode = "raw" /\ cur = k /\ need = Pieces /\ outp = <<>> /\ inp' = <<>> /\ emit = <<>>
    BY DEF Accepted
  <2>2. Len(outp') = 0
    BY <1>1, <2>1
  <2>3. Streams' /\ piece' = 0 /\ outp' = <<>>
    BY <1>1, <1>2, <2>1, <2>2 DEF Streams
  <2> QED
    BY <1>1, <2>3 DEF Exchange, script
<1> QED
  BY <1>4, <1>5, <1>6, <1>7, <1>8 DEF Course

LEMMA Reaction ==
  ASSUME IInv, NEW r, React(r), UNCHANGED <<run, device, outp>>,
         AwaitsGo /\ r = "ACK" => Accepted(inp'),
         script[k] # "power" /\ ~AwaitsGo /\ (r = "ACK" \/ script[k] = "erase") =>
           Ready(inp') /\ Carried,
         script[k] = "power" /\ r = "NIL" => Again(inp')
  PROVE  Course'
<1>1. k \in 1..Len(script) /\ Len(script) \in Nat
  BY RunFacts DEF IInv, TypeOK
<1>2. CASE AwaitsGo
  <2>1. script[k] = "program" /\ phase = "command" /\ UNCHANGED tries
    BY <1>2 DEF AwaitsGo, React
  <2>2. CASE r = "ACK"
    <3>1. phase' = "data" /\ todo' = <<"clear">> /\ pc' = "send" /\ UNCHANGED <<k, piece>>
      BY <2>1, <2>2 DEF React, MayStream
    <3> QED
      BY <1>2, <2>1, <2>2, <3>1, GoesToData
  <2>3. CASE r # "ACK"
    <3>1. Exit("fatal")
      BY <2>1, <2>3 DEF React, MayStream
    <3> QED
      BY <2>1, <3>1, Exits
  <2> QED
    BY <2>2, <2>3
<1>3. CASE script[k] = "power"
  <2>1. CASE r = "NIL" /\ tries > 1
    <3>1. Start(k) /\ tries' = tries - 1
      BY <1>3, <2>1 DEF React
    <3> QED
      BY <1>3, <2>1, <3>1, TriesAgain
  <2>2. CASE ~(r = "NIL" /\ tries > 1)
    <3>1. UNCHANGED tries /\ \E p \in {"done", "fatal"} : Exit(p)
      BY <1>3, <2>2 DEF React
    <3>2. Carried
      BY <1>3 DEF Carried
    <3>3. k = Len(script)
      <4>1. run \in Runs /\ Len(script) \in 1..Len(script)
        BY <1>1 DEF IInv, TypeOK
      <4> QED
        BY <1>1, <1>3, <4>1, RunFacts
    <3> QED
      BY <3>1, <3>2, <3>3, Exits
  <2> QED
    BY <2>1, <2>2
<1>4. CASE script[k] # "power" /\ ~AwaitsGo
  <2>1. UNCHANGED tries
    BY <1>4 DEF React, AwaitsGo
  <2>2. CASE r = "ACK" \/ script[k] = "erase"
    <3>1. Ready(inp') /\ Carried
      BY <1>4, <2>2
    <3>2. CASE k < Len(script)
      <4>1. Start(k + 1)
        BY <1>4, <2>2, <3>2 DEF React, AwaitsGo
      <4> QED
        BY <2>1, <3>1, <3>2, <4>1, GoesOn
    <3>3. CASE ~(k < Len(script))
      <4>1. Exit("done") /\ k = Len(script)
        BY <1>1, <1>4, <2>2, <3>3 DEF React, AwaitsGo
      <4> QED
        BY <2>1, <3>1, <4>1, Exits
    <3> QED
      BY <3>2, <3>3
  <2>3. CASE ~(r = "ACK" \/ script[k] = "erase")
    <3>1. Exit("fatal")
      BY <1>4, <2>3 DEF React, AwaitsGo
    <3> QED
      BY <2>1, <3>1, Exits
  <2> QED
    BY <2>2, <2>3
<1> QED
  BY <1>2, <1>3, <1>4 DEF AwaitsGo
-------------------------------------------------------------------------------
(***************************************************************************)
(* The steps of the host.                                                  *)
(***************************************************************************)
PacketType == [kind : {"command", "data"}, for : Nat]

\* What IInv says of the variables, for the steps below.
LEMMA Facts ==
  ASSUME IInv
  PROVE  /\ run \in Runs /\ k \in 1..Len(script) /\ Len(script) \in Nat \ {0}
         /\ Pieces \in Nat \ {0} /\ PowerTries \in Nat /\ MaxRetry \in Nat \ {0}
         /\ respbuf \in Seq(Messages) /\ inp \in Seq(Messages) /\ emit \in Seq(Messages)
         /\ outp \in Seq(PacketType) /\ Len(outp) \in Nat
         /\ todo \in Seq({"clear", "write"}) /\ Len(todo) \in Nat
         /\ <<>> \in Seq(Messages) /\ TruthfulAll(<<>>)
  BY RunFacts, LenProperties DEF IInv, TypeOK, PacketType, TruthfulAll

\* The promises about messages outlast every step: what was done stays done.
LEMMA StillTruthful ==
  ASSUME IInv, UNCHANGED run, done \subseteq done',
         TruthfulAll(respbuf') \/ UNCHANGED respbuf,
         TruthfulAll(inp') \/ UNCHANGED inp, TruthfulAll(emit') \/ UNCHANGED emit
  PROVE  TruthfulAll(respbuf)' /\ TruthfulAll(inp)' /\ TruthfulAll(emit)'
<1>1. TruthfulAll(respbuf') /\ TruthfulAll(inp') /\ TruthfulAll(emit')
  BY DEF IInv
<1> QED
  BY <1>1 DEF TruthfulAll, Truthful, script

LEMMA StillAnswersMatch ==
  ASSUME IInv, UNCHANGED <<run, by>>
  PROVE  AnswersMatch'
  BY DEF IInv, AnswersMatch, ProgramBefore, script

LEMMA StillSettled ==
  ASSUME IInv, UNCHANGED <<run, k>>, pc' # "done" \/ UNCHANGED pc, done \subseteq done'
  PROVE  Settled'
  BY DEF IInv, Settled, ProgramBefore, script

LEMMA WaitsSame ==
  ASSUME UNCHANGED <<run, k, phase, mode, cur, need, outp>>, Waits(respbuf', inp', emit')
  PROVE  Waits(respbuf, inp, emit)'
<1>1. DataWaits(respbuf', inp', emit') => DataWaits(respbuf, inp, emit)'
  BY DEF DataWaits, DataAnswer
<1>2. ProgramWaits(respbuf', inp', emit') => ProgramWaits(respbuf, inp, emit)'
  BY DEF ProgramWaits, Refused, Refusal, EndsAccepted, Accept, Response
<1>3. OtherWaits(respbuf', inp', emit') => OtherWaits(respbuf, inp, emit)'
  BY DEF OtherWaits, Ahead, NoRaw, Own, NoResponse, OneResponse, CommandPkt, script
<1> QED
  BY <1>1, <1>2, <1>3 DEF Waits, script

\* How a wait begins, of a program command and of another one.
LEMMA WaitsForGo ==
  ASSUME UNCHANGED <<run, k, phase>>, phase = "command", script[k] = "program",
         mode' # "raw", Refused(respbuf'), Refused(inp'), Refused(emit')
  PROVE  Waits(respbuf, inp, emit)'
<1>1. ProgramWaits(respbuf, inp, emit)'
  BY DEF ProgramWaits, Refused, Refusal
<1> QED
  BY <1>1 DEF Waits, script

LEMMA WaitsForOther ==
  ASSUME UNCHANGED <<run, k, phase>>, phase = "command", script[k] # "program",
         mode' # "raw", NoRaw(inp'), NoRaw(emit'),
         Ahead /\ script[k] = "power" =>
           /\ Own(respbuf') /\ Own(inp') /\ Own(emit')
           /\ \A j \in 1..Len(outp') : outp'[j].for = k,
         Ahead /\ script[k] # "power" =>
           \/ /\ outp' \in {<<>>, <<CommandPkt(k)>>}
              /\ NoResponse(respbuf') /\ NoResponse(inp') /\ NoResponse(emit')
           \/ /\ outp' = <<>>
              /\ NoResponse(respbuf') /\ NoResponse(inp') /\ OneResponse(emit')
  PROVE  Waits(respbuf, inp, emit)'
<1>1. NoRaw(inp)' /\ NoRaw(emit)' /\ (Ahead' <=> Ahead) /\ script'[k'] = script[k]
  BY DEF NoRaw, Ahead, script
<1>2. ASSUME Ahead, script[k] = "power"
      PROVE  /\ Own(respbuf)' /\ Own(inp)' /\ Own(emit)'
             /\ (\A j \in 1..Len(outp) : outp[j].for = k)'
  BY <1>2 DEF Own
<1>3. ASSUME Ahead, script[k] # "power"
      PROVE  \/ /\ (outp \in {<<>>, <<CommandPkt(k)>>})'
                /\ NoResponse(respbuf)' /\ NoResponse(inp)' /\ NoResponse(emit)'
             \/ /\ outp' = <<>>
                /\ NoResponse(respbuf)' /\ NoResponse(inp)' /\ OneResponse(emit)'
  BY <1>3 DEF NoResponse, OneResponse, CommandPkt
<1>4. OtherWaits(respbuf, inp, emit)'
  BY <1>1, <1>2, <1>3 DEF OtherWaits
<1> QED
  BY <1>4 DEF Waits, script

LEMMA ClearRubbishInv ==
  ASSUME IInv, ClearRubbish
  PROVE  IInv'
<1>1. /\ UNCHANGED <<run, k, phase, tries, piece, by, mode, need, cur, emit, done, outp>>
      /\ pc = "send" /\ Head(todo) = "clear" /\ todo' = Tail(todo) /\ pc' = AfterSends(todo')
      /\ inp' = inp \/ (inp # <<>> /\ inp' = Tail(inp))
      /\ retry' = MaxRetry /\ respbuf' = <<>>
  BY DEF ClearRubbish, FreshLoop, device
<1>2. /\ todo # <<>>
      /\ phase = "command" => todo[Len(todo)] = "write" /\
           (script[k] # "power" => \A j \in 1..(Len(todo) - 1) : todo[j] = "clear")
      /\ phase = "data" => todo = <<"clear">>
  BY <1>1 DEF IInv, ToDo
<1>3. /\ Len(todo) \in Nat \ {0} /\ todo[1] = "clear"
      /\ todo' \in Seq({"clear", "write"}) /\ Len(todo') = Len(todo) - 1
      /\ \A j \in 1..(Len(todo) - 1) : todo'[j] = todo[j + 1]
  BY <1>1, <1>2, Facts, HeadTailFacts
<1>4. phase \in {"command", "data"}
  BY DEF IInv, TypeOK
<1>5. phase = "command" => todo' # <<>> /\ pc' = "send"
  <2>1. phase = "command" => Len(todo) # 1
    BY <1>2, <1>3
  <2>2. phase = "command" => todo' # <<>>
    BY <1>3, <2>1, EmptySeq
  <2> QED
    BY <1>1, <2>2 DEF AfterSends
<1>6. phase = "data" => todo' = <<>> /\ pc' = "stream"
  BY <1>1, <1>2, OnlyOne DEF AfterSends
<1>7. /\ inp' \in Seq(Messages) /\ TruthfulAll(inp')
      /\ NoRaw(inp) => NoRaw(inp')
      /\ NoResponse(inp) => NoResponse(inp')
      /\ Own(inp) => Own(inp')
  <2>1. CASE inp' = inp
    BY <2>1, Facts DEF IInv
  <2>2. CASE inp # <<>> /\ inp' = Tail(inp)
    BY <2>2, Facts, PassAll, PassFacts DEF IInv
  <2> QED
    BY <1>1, <2>1, <2>2
<1>8. TypeOK'
  <2>1. pc' \in {"send", "stream"} /\ retry' \in 0..MaxRetry /\ respbuf' \in Seq(Messages)
    BY <1>1, <1>4, <1>5, <1>6, Facts
  <2> QED
    BY <1>1, <1>3, <1>7, <2>1 DEF IInv, TypeOK, script, MaxRetry
<1>9. Pipe' /\ RawDevice'
  BY <1>1 DEF IInv, Pipe, CommandsOnly, RawDevice, script
<1>10. TruthfulAll(respbuf)' /\ TruthfulAll(inp)' /\ TruthfulAll(emit)'
  BY <1>1, <1>7, Facts, StillTruthful
<1>11. AnswersMatch' /\ Settled'
  BY <1>1, <1>4, <1>5, <1>6, StillAnswersMatch, StillSettled
<1>12. ToDo'
  <2>1. CASE phase = "command"
    <3>1. todo'[Len(todo')] = "write"
      BY <1>2, <1>3, <1>5, <2>1
    <3>2. script[k] # "power" => \A j \in 1..(Len(todo') - 1) : todo'[j] = "clear"
      BY <1>2, <1>3, <2>1
    <3> QED
      BY <1>1, <1>5, <2>1, <3>1, <3>2 DEF ToDo, script
  <2>2. CASE phase = "data"
    BY <1>6, <2>2 DEF ToDo
  <2> QED
    BY <1>4, <2>1, <2>2
<1>13. Exchange'
  <2>1. CASE phase = "command"
    <3>1. Sending /\ piece = 0
      BY <1>1, <2>1 DEF IInv, Exchange
    <3>2. NoRaw(inp)' /\ (NoResponse(inp) => NoResponse(inp)') /\ (Own(inp) => Own(inp)')
      BY <1>1, <1>7, <3>1 DEF Sending, NoRaw, NoResponse, Own
    <3>3. Sending'
      BY <1>1, <3>1, <3>2 DEF Sending, Ahead, NoRaw, NoResponse, Own, script
    <3> QED
      BY <1>1, <1>5, <2>1, <3>1, <3>3 DEF Exchange, script
  <2>2. CASE phase = "data"
    <3>1. Streams /\ script[k] = "program"
      BY <1>1, <2>2 DEF IInv, Exchange
    <3>2. Streams'
      BY <1>1, <3>1 DEF Streams
    <3> QED
      BY <1>1, <1>6, <2>2, <3>1, <3>2 DEF Exchange, script
  <2> QED
    BY <1>4, <2>1, <2>2
<1> QED
  BY <1>8, <1>9, <1>10, <1>11, <1>12, <1>13 DEF IInv

\* What comes to the end of the OUT pipe.
LEMMA PipeGrows ==
  ASSUME IInv, NEW m \in PacketType, outp' = Append(outp, m)
  PROVE  /\ outp' \in Seq(PacketType) /\ outp' # <<>> /\ Len(outp') = Len(outp) + 1
         /\ outp'[Len(outp')] = m /\ \A j \in 1..Len(outp) : outp'[j] = outp[j]
         /\ Len(outp') \in Nat
         /\ \A j \in 1..Len(outp') : j \in 1..Len(outp) \/ j = Len(outp')
  BY Facts, AppendFacts

LEMMA WriteCommandInv ==
  ASSUME IInv, WriteCommand
  PROVE  IInv'
<1>1. /\ UNCHANGED <<run, k, phase, tries, piece, by, mode, need, cur, emit, done, inp>>
      /\ pc = "send" /\ Head(todo) = "write" /\ todo' = Tail(todo) /\ pc' = AfterSends(todo')
      /\ outp' = Append(outp, CommandPkt(k)) \/ outp' = outp
      /\ retry' = MaxRetry /\ respbuf' = <<>>
  BY DEF WriteCommand, FreshLoop, device
<1>2. /\ todo # <<>>
      /\ phase = "command" => todo[Len(todo)] = "write" /\
           (script[k] # "power" => \A j \in 1..(Len(todo) - 1) : todo[j] = "clear")
      /\ phase = "data" => todo = <<"clear">>
  BY <1>1 DEF IInv, ToDo
<1>3. /\ Len(todo) \in Nat \ {0} /\ todo[1] = "write"
      /\ todo' \in Seq({"clear", "write"}) /\ Len(todo') = Len(todo) - 1
      /\ \A j \in 1..(Len(todo) - 1) : todo'[j] = todo[j + 1]
  BY <1>1, <1>2, Facts, HeadTailFacts
<1>4. phase = "command"
  BY <1>1, <1>2, OnlyOne DEF IInv, TypeOK
<1>5. /\ pc' = IF todo' # <<>> THEN "send" ELSE "read"
      /\ todo' # <<>> => script[k] = "power" /\ todo'[Len(todo')] = "write"
  <2>1. todo' # <<>> => Len(todo) > 1
    BY <1>3, EmptySeq
  <2>2. todo' # <<>> => script[k] = "power"
    BY <1>2, <1>3, <1>4, <2>1
  <2>3. todo' # <<>> => todo'[Len(todo')] = "write"
    BY <1>2, <1>3, <1>4, <2>1
  <2> QED
    BY <1>1, <1>4, <2>2, <2>3 DEF AfterSends
<1>6. CommandPkt(k) \in PacketType /\ CommandPkt(k).kind = "command" /\ CommandPkt(k).for = k
  BY Facts DEF CommandPkt, PacketType
<1>7. Sending /\ piece = 0
  BY <1>1, <1>4 DEF IInv, Exchange
<1>8. /\ outp' \in Seq(PacketType) /\ Len(outp') \in Nat
      /\ \A j \in 1..Len(outp') :
           \/ j \in 1..Len(outp) /\ outp'[j] = outp[j]
           \/ j = Len(outp') /\ outp'[j] = CommandPkt(k)
  <2>1. CASE outp' = outp
    BY <2>1, Facts
  <2>2. CASE outp' = Append(outp, CommandPkt(k))
    BY <1>6, <2>2, PipeGrows
  <2> QED
    BY <1>1, <2>1, <2>2
<1>9. TypeOK'
  <2>1. pc' \in {"send", "read"} /\ retry' \in 0..MaxRetry /\ respbuf' \in Seq(Messages)
    BY <1>1, <1>5, Facts
  <2> QED
    BY <1>1, <1>3, <1>8, <2>1 DEF IInv, TypeOK, script, MaxRetry, PacketType
<1>10. Pipe'
  <2>1. mode # "raw" /\ CommandsOnly /\ \A j \in 1..Len(outp) : script[outp[j].for] # "program"
    BY <1>7 DEF Sending, IInv, Pipe
  <2>2. k \in 1..k
    BY Facts
  <2>3. CommandsOnly'
    <3> SUFFICES ASSUME NEW j \in 1..Len(outp')
                 PROVE  /\ outp'[j].kind = "command" /\ outp'[j].for \in 1..k
                        /\ script[outp'[j].for] = "program" => j = Len(outp') /\ outp'[j].for = k
      BY <1>1 DEF CommandsOnly, script
    <3>1. CASE j \in 1..Len(outp) /\ outp'[j] = outp[j]
      BY <2>1, <3>1 DEF CommandsOnly
    <3>2. CASE j = Len(outp') /\ outp'[j] = CommandPkt(k)
      BY <1>6, <2>2, <3>2
    <3> QED
      BY <1>8, <3>1, <3>2
  <2> QED
    BY <1>1, <2>1, <2>3 DEF Pipe
<1>11. RawDevice'
  BY <1>1 DEF IInv, RawDevice, script
<1>12. TruthfulAll(respbuf)' /\ TruthfulAll(inp)' /\ TruthfulAll(emit)'
  BY <1>1, Facts, StillTruthful
<1>13. AnswersMatch' /\ Settled'
  BY <1>1, <1>5, StillAnswersMatch, StillSettled
<1>14. ToDo'
  BY <1>1, <1>4, <1>5 DEF ToDo, script
<1>15. CASE todo' # <<>>
  <2>1. Sending'
    <3>1. \A j \in 1..Len(outp') : script[outp'[j].for] # "program"
      BY <1>5, <1>6, <1>7, <1>8, <1>15 DEF Sending
    <3>2. Ahead => Own(inp) /\ Own(emit) /\ \A j \in 1..Len(outp') : outp'[j].for = k
      BY <1>5, <1>6, <1>7, <1>8, <1>15 DEF Sending
    <3>3. NoRaw(inp)' /\ NoRaw(emit)' /\ mode' # "raw"
      BY <1>1, <1>7 DEF Sending, NoRaw
    <3> QED
      BY <1>1, <1>5, <1>15, <3>1, <3>2, <3>3 DEF Sending, Ahead, Own, script
  <2>2. Exchange'
    BY <1>1, <1>4, <1>5, <1>7, <1>15, <2>1 DEF Exchange, script
  <2> QED
    BY <1>9, <1>10, <1>11, <1>12, <1>13, <1>14, <2>2 DEF IInv
<1>16. CASE todo' = <<>>
  <2>1. ASSUME script[k] = "program" PROVE Waits(respbuf, inp, emit)'
    <3>1. Refused(<<>>) /\ Refused(inp) /\ Refused(emit)
      BY <1>7 DEF Sending, NoRaw, Refused, Refusal
    <3> QED
      BY <1>1, <1>4, <1>7, <2>1, <3>1, WaitsForGo DEF Sending
  <2>2. ASSUME script[k] # "program" PROVE Waits(respbuf, inp, emit)'
    <3>1. mode # "raw" /\ NoRaw(inp) /\ NoRaw(emit)
      BY <1>7 DEF Sending
    <3>2. Own(<<>>) /\ NoResponse(<<>>)
      BY DEF Own, NoResponse
    <3>3. ASSUME Ahead, script[k] = "power"
          PROVE  Own(inp) /\ Own(emit) /\ \A j \in 1..Len(outp') : outp'[j].for = k
      BY <1>6, <1>7, <1>8, <3>3 DEF Sending
    <3>4. ASSUME Ahead, script[k] # "power"
          PROVE  /\ outp' \in {<<>>, <<CommandPkt(k)>>}
                 /\ NoResponse(inp) /\ NoResponse(emit)
      BY <1>1, <1>7, <3>4 DEF Sending
    <3> QED
      BY <1>1, <1>4, <2>2, <3>1, <3>2, <3>3, <3>4, WaitsForOther
  <2>3. Exchange'
    BY <1>1, <1>4, <1>5, <1>7, <1>16, <2>1, <2>2 DEF Exchange, script
  <2> QED
    BY <1>9, <1>10, <1>11, <1>12, <1>13, <1>14, <2>3 DEF IInv
<1> QED
  BY <1>15, <1>16

LEMMA StreamPieceInv ==
  ASSUME IInv, StreamPiece
  PROVE  IInv'
<1>1. /\ UNCHANGED <<run, k, todo, phase, tries, by, mode, need, cur, emit, done, inp>>
      /\ pc = "stream" /\ outp' = Append(outp, DataPkt) /\ piece' = piece + 1
      /\ pc' = IF piece + 1 = Pieces THEN "read" ELSE "stream"
      /\ retry' = MaxRetry /\ respbuf' = <<>>
  BY DEF StreamPiece, FreshLoop, device
<1>2. Streams /\ phase = "data" /\ script[k] = "program"
  BY <1>1 DEF IInv, Exchange
<1>3. piece \in 0..Pieces /\ need \in 0..Pieces /\ Pieces \in Nat /\ Len(outp) \in Nat
  BY Facts DEF IInv, TypeOK
<1>4. /\ mode = "raw" /\ cur = k /\ inp = <<>> /\ emit = <<>>
      /\ piece < Pieces /\ need + piece = Pieces + Len(outp)
  BY <1>2 DEF Streams
<1>5. DataPkt \in PacketType /\ DataPkt.kind = "data"
  BY DEF DataPkt, PacketType
<1>6. /\ outp' \in Seq(PacketType) /\ Len(outp') = Len(outp) + 1
      /\ outp'[Len(outp')] = DataPkt /\ \A j \in 1..Len(outp) : outp'[j] = outp[j]
      /\ \A j \in 1..Len(outp') : j \in 1..Len(outp) \/ j = Len(outp')
  BY <1>1, <1>5, PipeGrows
<1>7. TypeOK'
  <2>1. /\ pc' \in {"read", "stream"} /\ retry' \in 0..MaxRetry /\ respbuf' \in Seq(Messages)
        /\ piece' \in 0..Pieces
    BY <1>1, <1>3, <1>4, Facts
  <2> QED
    BY <1>1, <1>6, <2>1 DEF IInv, TypeOK, script, MaxRetry, PacketType
<1>8. Pipe'
  <2>1. \A j \in 1..Len(outp) : outp[j].kind = "data"
    BY <1>4 DEF IInv, Pipe
  <2>2. \A j \in 1..Len(outp') : outp'[j].kind = "data"
    BY <1>5, <1>6, <2>1
  <2>3. Len(outp') <= need
    BY <1>3, <1>4, <1>6
  <2> QED
    BY <1>1, <1>4, <2>2, <2>3 DEF Pipe
<1>9. RawDevice'
  BY <1>1 DEF IInv, RawDevice, script
<1>10. TruthfulAll(respbuf)' /\ TruthfulAll(inp)' /\ TruthfulAll(emit)'
  BY <1>1, Facts, StillTruthful
<1>11. AnswersMatch' /\ Settled'
  BY <1>1, StillAnswersMatch, StillSettled
<1>12. ToDo'
  BY <1>1 DEF ToDo
<1>13. Exchange'
  <2>1. CASE piece + 1 = Pieces
    <3>1. need = Len(outp')
      BY <1>3, <1>4, <1>6, <2>1
    <3>2. DataWaits(respbuf, inp, emit)'
      BY <1>1, <1>4, <3>1 DEF DataWaits
    <3>3. Waits(respbuf, inp, emit)'
      BY <1>1, <1>2, <3>2 DEF Waits
    <3> QED
      BY <1>1, <1>2, <2>1, <3>3 DEF Exchange, script
  <2>2. CASE piece + 1 # Pieces
    <3>1. piece' < Pieces /\ need + piece' = Pieces + Len(outp')
      BY <1>1, <1>3, <1>4, <1>6, <2>2
    <3>2. Streams'
      BY <1>1, <1>4, <3>1 DEF Streams
    <3> QED
      BY <1>1, <1>2, <2>2, <3>2 DEF Exchange, script
  <2> QED
    BY <2>1, <2>2
<1> QED
  BY <1>7, <1>8, <1>9, <1>10, <1>11, <1>12, <1>13 DEF IInv

LEMMA StreamFailsInv ==
  ASSUME IInv, StreamFails
  PROVE  IInv'
<1>1. /\ UNCHANGED <<run, k, todo, phase, retry, respbuf, tries, piece, by, mode, need, cur,
                     emit, done, inp, outp>>
      /\ pc' = "fatal"
  BY DEF StreamFails, device
<1>2. TypeOK'
  BY <1>1 DEF IInv, TypeOK, script, MaxRetry
<1>3. Pipe' /\ RawDevice'
  BY <1>1 DEF IInv, Pipe, CommandsOnly, RawDevice, script
<1>4. TruthfulAll(respbuf)' /\ TruthfulAll(inp)' /\ TruthfulAll(emit)'
  BY <1>1, StillTruthful
<1>5. AnswersMatch' /\ Settled'
  BY <1>1, StillAnswersMatch, StillSettled
<1>6. ToDo' /\ Exchange'
  BY <1>1 DEF IInv, ToDo, Exchange, script
<1> QED
  BY <1>2, <1>3, <1>4, <1>5, <1>6 DEF IInv

\* The decision about command k is noted, with who made it.
LEMMA DecisionNoted ==
  ASSUME IInv, UNCHANGED run, NEW c \in 0..Len(script), by' = [by EXCEPT ![k] = c],
         ProgramBefore(k) => c \in {0, k}
  PROVE  by' \in [1..Len(script) -> 0..Len(script)] /\ AnswersMatch'
<1>1. by \in [1..Len(script) -> 0..Len(script)] /\ k \in 1..Len(script)
  BY DEF IInv, TypeOK
<1>2. \A j \in 1..Len(script) : ProgramBefore(j) => by'[j] \in {0, j}
  BY <1>1 DEF IInv, AnswersMatch
<1>3. by' \in [1..Len(script) -> 0..Len(script)]
  BY <1>1
<1>4. AnswersMatch'
  BY <1>2 DEF AnswersMatch, ProgramBefore, script
<1> QED
  BY <1>3, <1>4

LEMMA RetriesSpentInv ==
  ASSUME IInv, RetriesSpent
  PROVE  IInv'
<1>1. /\ UNCHANGED <<run, retry, respbuf, device, mode, need, cur, emit, done, inp, outp>>
      /\ pc = "read" /\ React("NIL") /\ by' = [by EXCEPT ![k] = 0]
  BY DEF RetriesSpent, device
<1>2. /\ run \in Runs /\ k \in 1..Len(script) /\ phase \in {"command", "data"}
      /\ phase = "data" => script[k] = "program"
      /\ Pipe /\ Waits(respbuf, inp', emit)
  BY <1>1 DEF IInv, TypeOK, Exchange
<1>3. /\ script[k] = "erase" => Ready(inp') /\ Carried
      /\ script[k] = "power" => Again(inp')
  BY <1>2, GivesUp
<1>4. Course'
  BY <1>1, <1>3, Reaction
<1>5. by' \in [1..Len(script) -> 0..Len(script)] /\ AnswersMatch'
  <2>1. 0 \in 0..Len(script) /\ 0 \in {0, k}
    BY Facts
  <2> QED
    BY <1>1, <2>1, DecisionNoted
<1>6. TypeOK'
  BY <1>1, <1>4, <1>5 DEF IInv, TypeOK, Course, HostTyped, script, MaxRetry
<1>7. RawDevice'
  BY <1>1 DEF IInv, RawDevice, script
<1>8. TruthfulAll(respbuf)' /\ TruthfulAll(inp)' /\ TruthfulAll(emit)'
  BY <1>1, StillTruthful
<1> QED
  BY <1>4, <1>5, <1>6, <1>7, <1>8 DEF IInv, Course

LEMMA ReadTurnInv ==
  ASSUME IInv, ReadTurn
  PROVE  IInv'
<1>1. PICK got, timeout \in BOOLEAN :
        /\ got <=> inp # <<>>
        /\ inp' = IF got THEN Tail(inp) ELSE inp
        /\ respbuf' = IF got THEN Append(respbuf, Head(inp)) ELSE respbuf
        /\ LET at == IF timeout THEN AnswerAt(respbuf') ELSE 0 IN
           IF at # 0
           THEN /\ React(Verdict(respbuf'[at]))
                /\ by' = [by EXCEPT ![k] = respbuf'[at].for]
                /\ UNCHANGED retry
           ELSE /\ SpendRetry
                /\ UNCHANGED <<k, pc, todo, phase, tries, piece, by>>
  BY DEF ReadTurn
<1>2. /\ UNCHANGED <<run, device, mode, need, cur, emit, done, outp>>
      /\ pc = "read" /\ retry > 0
  BY DEF ReadTurn, device
<1>3. /\ run \in Runs /\ k \in 1..Len(script) /\ phase \in {"command", "data"}
      /\ phase = "data" => script[k] = "program"
      /\ Pipe /\ Waits(respbuf, inp, emit)
  BY <1>2 DEF IInv, TypeOK, Exchange
<1>4. /\ respbuf' \in Seq(Messages) /\ inp' \in Seq(Messages)
      /\ TruthfulAll(respbuf') /\ TruthfulAll(inp')
      /\ Waits(respbuf', inp', emit)
  <2>1. CASE inp = <<>>
    BY <1>1, <1>3, <2>1, Facts DEF IInv
  <2>2. CASE inp # <<>>
    <3>1. inp' = Tail(inp) /\ respbuf' = Append(respbuf, Head(inp))
      BY <1>1, <2>2
    <3>2. respbuf' \in Seq(Messages) /\ inp' \in Seq(Messages)
      BY <2>2, <3>1, Facts, PassFacts
    <3>3. TruthfulAll(respbuf') /\ TruthfulAll(inp')
      BY <2>2, <3>1, Facts, PassAll DEF IInv
    <3>4. Waits(respbuf', inp', emit)
      BY <1>3, <2>2, <3>1, Facts, WaitsRead
    <3> QED
      BY <3>2, <3>3, <3>4
  <2> QED
    BY <2>1, <2>2
<1>5. TruthfulAll(respbuf)' /\ TruthfulAll(inp)' /\ TruthfulAll(emit)'
  BY <1>2, <1>4, StillTruthful
<1>6. RawDevice'
  BY <1>2 DEF IInv, RawDevice, script
<1>7. CASE timeout /\ AnswerAt(respbuf') # 0
  <2> DEFINE m == respbuf'[AnswerAt(respbuf')]
  <2>1. React(Verdict(m)) /\ by' = [by EXCEPT ![k] = m.for] /\ UNCHANGED retry
    BY <1>1, <1>7
  <2>2. /\ m.for \in 1..Len(script) /\ Verdict(m) # "NIL"
        /\ AwaitsGo /\ Verdict(m) = "ACK" => Accepted(inp')
        /\ script[k] # "power" /\ ~AwaitsGo /\ (Verdict(m) = "ACK" \/ script[k] = "erase") =>
             Ready(inp') /\ Carried
    BY <1>3, <1>4, <1>7, Decides
  <2>3. ProgramBefore(k) => m.for = k
    BY <1>3, <1>4, <1>7, DecidesFor
  <2> HIDE DEF m
  <2>4. Course'
    BY <1>2, <2>1, <2>2, Reaction
  <2>5. by' \in [1..Len(script) -> 0..Len(script)] /\ AnswersMatch'
    <3>1. m.for \in 0..Len(script)
      BY <2>2, Facts
    <3> QED
      BY <1>2, <2>1, <2>3, <3>1, DecisionNoted
  <2>6. TypeOK'
    BY <1>2, <1>4, <2>1, <2>4, <2>5 DEF IInv, TypeOK, Course, HostTyped, script, MaxRetry
  <2> QED
    BY <1>5, <1>6, <2>4, <2>5, <2>6 DEF IInv, Course
<1>8. CASE ~(timeout /\ AnswerAt(respbuf') # 0)
  <2>1. retry' = retry - 1 /\ UNCHANGED <<k, pc, todo, phase, tries, piece, by>>
    BY <1>1, <1>8 DEF SpendRetry
  <2>2. TypeOK'
    <3>1. retry \in 0..MaxRetry /\ MaxRetry \in Nat
      BY Facts DEF IInv, TypeOK
    <3>2. retry' \in 0..MaxRetry
      BY <1>2, <2>1, <3>1
    <3> QED
      BY <1>2, <1>4, <2>1, <3>2 DEF IInv, TypeOK, script, MaxRetry
  <2>3. Pipe'
    BY <1>2, <2>1 DEF IInv, Pipe, CommandsOnly, script
  <2>4. AnswersMatch' /\ Settled'
    BY <1>2, <2>1, StillAnswersMatch, StillSettled
  <2>5. ToDo'
    BY <1>2, <2>1 DEF ToDo
  <2>6. Waits(respbuf', inp', emit')
    BY <1>2, <1>4
  <2>7. Waits(respbuf, inp, emit)'
    BY <1>2, <2>1, <2>6, WaitsSame
  <2>8. Exchange'
    BY <1>2, <2>1, <2>7 DEF IInv, Exchange, script
  <2> QED
    BY <1>5, <1>6, <2>2, <2>3, <2>4, <2>5, <2>8 DEF IInv
<1> QED
  BY <1>7, <1>8
-------------------------------------------------------------------------------
(***************************************************************************)
(* The steps of the device.                                                *)
(***************************************************************************)
LEMMA ResponseFacts ==
  ASSUME NEW v \in {"ACK", "NAK"}, NEW raw \in {"none", "true", "false"}, NEW m \in BOOLEAN,
         NEW c \in Nat
  PROVE  /\ Response(v, raw, m, c) \in Messages
         /\ Response(v, raw, m, c).kind = "response" /\ Response(v, raw, m, c).value = v
         /\ Response(v, raw, m, c).rawmode = raw /\ Response(v, raw, m, c).for = c
  BY DEF Response, Messages, Kinds

LEMMA LogFacts ==
  /\ Log \in Messages /\ SizeLog \in Messages
  /\ Log.kind # "response" /\ SizeLog.kind # "response"
  /\ Log.rawmode = "none" /\ SizeLog.rawmode = "none"
  BY DEF Log, SizeLog, Messages, Kinds

\* An answer is one response to the command, positive if and only if the
\* device took it, and only a program command's says rawmode.
Shaped(c, ack, e) ==
  /\ e \in Seq(Messages)
  /\ \E h \in 1..Len(e) :
       /\ e[h].kind = "response" /\ e[h].for = c
       /\ \A j \in 1..Len(e) : j # h => e[j].kind # "response"
  /\ \A j \in 1..Len(e) :
       /\ e[j].kind = "response" => e[j].for = c /\ e[j].value = IF ack THEN "ACK" ELSE "NAK"
       /\ e[j].kind # "response" => e[j].rawmode = "none"
       /\ script[c] # "program" => e[j].rawmode = "none"
  /\ script[c] = "program" =>
       IF ack THEN e = <<Response("ACK", "true", FALSE, c)>>
       ELSE \A j \in 1..Len(e) : e[j].value = "NAK" /\ e[j].for = c

LEMMA AnswerShape ==
  ASSUME NEW c \in Nat, NEW ack \in BOOLEAN, NEW e \in Answer(c, ack)
  PROVE  Shaped(c, ack, e)
<1> DEFINE v == IF ack THEN "ACK" ELSE "NAK"
<1>1. v \in {"ACK", "NAK"} /\ v = IF ack THEN "ACK" ELSE "NAK"
  OBVIOUS
<1>0. Answer(c, ack) =
        CASE script[c] = "emmc" ->
               IF ack THEN {<<SizeLog, Response(v, "none", FALSE, c)>>,
                            <<Response(v, "none", FALSE, c), SizeLog>>}
                      ELSE {<<Response(v, "none", FALSE, c)>>}
          [] script[c] \in {"configure", "reconfigure"} -> {<<Response(v, "none", TRUE, c)>>}
          [] script[c] = "program" ->
               IF ack THEN {<<Response(v, "true", FALSE, c)>>}
                      ELSE {<<Response(v, m, FALSE, c)>> : m \in {"none", "false"}}
          [] OTHER -> {<<Response(v, "none", FALSE, c)>>, <<Log, Response(v, "none", FALSE, c)>>}
  BY DEF Answer
<1> HIDE DEF v
<1>2. CASE script[c] # "program"
  <2>1. \E m \in BOOLEAN, l \in {Log, SizeLog} :
          e \in {<<Response(v, "none", m, c)>>, <<l, Response(v, "none", m, c)>>,
                 <<Response(v, "none", m, c), l>>}
    <3>1. CASE script[c] = "emmc"
      BY <1>0, <3>1
    <3>2. CASE script[c] \in {"configure", "reconfigure"}
      BY <1>0, <3>2
    <3>3. CASE script[c] \notin {"emmc", "configure", "reconfigure", "program"}
      BY <1>0, <3>3
    <3> QED
      BY <1>2, <3>1, <3>2, <3>3
  <2>2. PICK m \in BOOLEAN, l \in {Log, SizeLog} :
          e \in {<<Response(v, "none", m, c)>>, <<l, Response(v, "none", m, c)>>,
                 <<Response(v, "none", m, c), l>>}
    BY <2>1
  <2> DEFINE a == Response(v, "none", m, c)
  <2>3. a \in Messages /\ a.kind = "response" /\ a.value = v /\ a.rawmode = "none" /\ a.for = c
    BY <1>1, ResponseFacts
  <2>4. e \in {<<a>>, <<l, a>>, <<a, l>>}
    BY <2>2
  <2>5. l \in Messages /\ l.kind # "response" /\ l.rawmode = "none"
    BY LogFacts
  <2> HIDE DEF a
  <2>6. /\ e \in Seq(Messages)
        /\ \E h \in 1..Len(e) : e[h] = a /\ \A j \in 1..Len(e) : j # h => e[j].kind # "response"
        /\ \A j \in 1..Len(e) : e[j] = a \/ (e[j].kind # "response" /\ e[j].rawmode = "none")
    <3>1. CASE e = <<a>>
      BY <2>3, <3>1
    <3>2. CASE e = <<l, a>>
      <4>1. Len(e) = 2 /\ e[1] = l /\ e[2] = a /\ e \in Seq(Messages)
        BY <2>3, <2>5, <3>2
      <4> QED
        BY <2>5, <4>1
    <3>3. CASE e = <<a, l>>
      <4>1. Len(e) = 2 /\ e[1] = a /\ e[2] = l /\ e \in Seq(Messages)
        BY <2>3, <2>5, <3>3
      <4> QED
        BY <2>5, <4>1
    <3> QED
      BY <2>4, <3>1, <3>2, <3>3
  <2> QED
    BY <1>1, <1>2, <2>3, <2>6 DEF Shaped
<1>3. CASE script[c] = "program"
  <2>1. PICK raw \in {"none", "true", "false"}, m \in BOOLEAN :
          e = <<Response(v, raw, m, c)>> /\ m = FALSE /\ (ack => raw = "true")
    BY <1>0, <1>3
  <2> DEFINE a == Response(v, raw, m, c)
  <2>2. a \in Messages /\ a.kind = "response" /\ a.value = v /\ a.for = c
    BY <1>1, ResponseFacts
  <2>3. ack => e = <<Response("ACK", "true", FALSE, c)>>
    BY <1>1, <2>1
  <2>4. e = <<a>>
    BY <2>1
  <2> HIDE DEF a
  <2>5. Len(e) = 1 /\ e[1] = a /\ e \in Seq(Messages)
    BY <2>2, <2>4
  <2>6. \A j \in 1..Len(e) : e[j] = a /\ j = 1
    BY <2>5
  <2>7. 1 \in 1..Len(e)
    BY <2>5
  <2>8. \E h \in 1..Len(e) :
          /\ e[h].kind = "response" /\ e[h].for = c
          /\ \A j \in 1..Len(e) : j # h => e[j].kind # "response"
    BY <2>2, <2>5, <2>6, <2>7
  <2> QED
    BY <1>1, <1>3, <2>2, <2>3, <2>5, <2>6, <2>8 DEF Shaped
<1> QED
  BY <1>2, <1>3

\* What the device takes from the OUT pipe.
LEMMA PipeShrinks ==
  ASSUME IInv, outp # <<>>, outp' = Tail(outp)
  PROVE  /\ Len(outp) \in Nat \ {0} /\ Head(outp) = outp[1] /\ outp[1] \in PacketType
         /\ outp' \in Seq(PacketType) /\ Len(outp') = Len(outp) - 1
         /\ \A j \in 1..Len(outp') : j + 1 \in 1..Len(outp) /\ outp'[j] = outp[j + 1]
         /\ Len(outp) = 1 => outp' = <<>>
<1>1. /\ Len(outp) \in Nat \ {0} /\ Head(outp) = outp[1] /\ Head(outp) \in PacketType
      /\ outp' \in Seq(PacketType) /\ Len(outp') = Len(outp) - 1
      /\ \A j \in 1..(Len(outp) - 1) : outp'[j] = outp[j + 1]
  BY Facts, HeadTailFacts
<1>2. \A j \in 1..Len(outp') : j + 1 \in 1..Len(outp) /\ outp'[j] = outp[j + 1]
  BY <1>1
<1>3. Len(outp) = 1 => outp' = <<>>
  BY <1>1, EmptySeq
<1> QED
  BY <1>1, <1>2, <1>3

LEMMA ShrinksToCommands ==
  ASSUME IInv, outp # <<>>, outp' = Tail(outp), CommandsOnly, UNCHANGED <<run, k>>
  PROVE  CommandsOnly'
<1>1. /\ Len(outp) \in Nat \ {0} /\ Len(outp') = Len(outp) - 1
      /\ \A j \in 1..Len(outp') : j + 1 \in 1..Len(outp) /\ outp'[j] = outp[j + 1]
  BY PipeShrinks
<1>2. \A j \in 1..Len(outp') : j + 1 = Len(outp) => j = Len(outp')
  <2>1. \A n \in Nat : \A j \in 1..(n - 1) : j + 1 = n => j = n - 1
    OBVIOUS
  <2> QED
    BY <1>1, <2>1
<1>3. \A j \in 1..Len(outp) :
        /\ outp[j].kind = "command" /\ outp[j].for \in 1..k
        /\ script[outp[j].for] = "program" => j = Len(outp) /\ outp[j].for = k
  BY DEF CommandsOnly
<1>4. \A j \in 1..Len(outp') :
        /\ outp'[j].kind = "command" /\ outp'[j].for \in 1..k
        /\ script[outp'[j].for] = "program" => j = Len(outp') /\ outp'[j].for = k
  <2> SUFFICES ASSUME NEW j \in 1..Len(outp')
               PROVE  /\ outp'[j].kind = "command" /\ outp'[j].for \in 1..k
                      /\ script[outp'[j].for] = "program" => j = Len(outp') /\ outp'[j].for = k
    OBVIOUS
  <2>1. j + 1 \in 1..Len(outp) /\ outp'[j] = outp[j + 1]
    BY <1>1
  <2>2. /\ outp'[j].kind = "command" /\ outp'[j].for \in 1..k
        /\ script[outp'[j].for] = "program" => j + 1 = Len(outp) /\ outp'[j].for = k
    BY <1>3, <2>1
  <2> QED
    BY <1>2, <2>2
<1> QED
  BY <1>4 DEF CommandsOnly, script

\* The type of what the device leaves alone.
LEMMA HostSame ==
  ASSUME IInv, UNCHANGED <<run, host>>
  PROVE  /\ UNCHANGED <<run, k, pc, todo, phase, retry, respbuf, tries, piece, by>>
         /\ script' = script /\ MaxRetry' = MaxRetry /\ ToDo' /\ AnswersMatch'
  BY StillAnswersMatch DEF host, ToDo, IInv, script, MaxRetry

LEMMA DeviceCommandInv ==
  ASSUME IInv, DeviceCommand
  PROVE  IInv'
<1> DEFINE c == Head(outp).for
<1>1. PICK ack \in BOOLEAN :
        /\ emit' \in Answer(c, ack)
        /\ cur' = c
        /\ mode' = IF ack /\ script[c] = "program" THEN "raw" ELSE "cmd"
        /\ need' = IF ack /\ script[c] = "program" THEN Pieces ELSE 0
        /\ done' = IF ack /\ script[c] # "program" THEN done \cup {c} ELSE done
  BY DEF DeviceCommand
<1>2. /\ mode = "cmd" /\ emit = <<>> /\ outp # <<>> /\ Head(outp).kind = "command"
      /\ outp' = Tail(outp) /\ UNCHANGED <<run, host, inp>>
  BY DEF DeviceCommand
<1>3. /\ UNCHANGED <<run, k, pc, todo, phase, retry, respbuf, tries, piece, by, inp>>
      /\ script' = script /\ MaxRetry' = MaxRetry /\ ToDo' /\ AnswersMatch'
  BY <1>2, HostSame
<1>4. /\ Len(outp) \in Nat \ {0} /\ Head(outp) = outp[1]
      /\ outp' \in Seq(PacketType) /\ Len(outp') = Len(outp) - 1
      /\ \A j \in 1..Len(outp') : j + 1 \in 1..Len(outp) /\ outp'[j] = outp[j + 1]
      /\ Len(outp) = 1 => outp' = <<>>
  BY <1>2, PipeShrinks
<1>5. CommandsOnly /\ c = outp[1].for
  BY <1>2, <1>4 DEF IInv, Pipe
<1>6. c \in 1..k /\ (script[c] = "program" => c = k /\ outp' = <<>>)
  BY <1>4, <1>5 DEF CommandsOnly
<1> HIDE DEF c
<1>7. c \in 1..Len(script) /\ c \in Nat /\ k \in 1..Len(script)
  BY <1>6, Facts
<1>8. /\ emit' \in Seq(Messages)
      /\ \E h \in 1..Len(emit') :
           /\ emit'[h].kind = "response" /\ emit'[h].for = c
           /\ \A j \in 1..Len(emit') : j # h => emit'[j].kind # "response"
      /\ \A j \in 1..Len(emit') :
           /\ emit'[j].kind = "response" =>
                emit'[j].for = c /\ emit'[j].value = IF ack THEN "ACK" ELSE "NAK"
           /\ emit'[j].kind # "response" => emit'[j].rawmode = "none"
           /\ script[c] # "program" => emit'[j].rawmode = "none"
      /\ script[c] = "program" =>
           IF ack THEN emit' = <<Response("ACK", "true", FALSE, c)>>
           ELSE \A j \in 1..Len(emit') : emit'[j].value = "NAK" /\ emit'[j].for = c
  <2>1. emit' \in Answer(c, ack) /\ c \in Nat /\ ack \in BOOLEAN
    BY <1>1, <1>7
  <2>2. Shaped(c, ack, emit')
    BY <2>1, AnswerShape
  <2> QED
    BY <2>2 DEF Shaped
<1>9. TypeOK'
  <2>1. Pieces \in Nat /\ done \subseteq 1..Len(script)
    BY Facts DEF IInv, TypeOK
  <2>2. need' \in 0..Pieces /\ mode' \in {"cmd", "raw"} /\ cur' \in 0..Len(script)
    BY <1>1, <1>7, <2>1
  <2>3. done' \subseteq 1..Len(script)
    BY <1>1, <1>7, <2>1
  <2> QED
    BY <1>3, <1>4, <1>8, <2>2, <2>3 DEF IInv, TypeOK, PacketType
<1>10. Pipe'
  <2>1. CommandsOnly'
    BY <1>2, <1>3, <1>5, ShrinksToCommands
  <2>2. mode' = "raw" => outp' = <<>>
    BY <1>1, <1>6
  <2> QED
    BY <2>1, <2>2 DEF Pipe
<1>11. RawDevice'
  BY <1>1, <1>3, <1>7, Facts DEF RawDevice
<1>12. done \subseteq done'
  BY <1>1
<1>13. TruthfulAll(emit)'
  <2> SUFFICES ASSUME NEW j \in 1..Len(emit')
               PROVE  /\ emit'[j].kind = "response" => emit'[j].for \in 1..Len(script)
                      /\ emit'[j].kind # "response" => emit'[j].rawmode = "none"
                      /\ emit'[j].kind = "response" /\ emit'[j].value = "ACK"
                           /\ (emit'[j].rawmode = "false" \/ script[emit'[j].for] # "program") =>
                         emit'[j].for \in done'
    BY <1>3 DEF TruthfulAll, Truthful
  <2>1. CASE script[c] # "program"
    BY <1>1, <1>7, <1>8, <2>1
  <2>2. CASE script[c] = "program" /\ ~ack
    BY <1>7, <1>8, <2>2
  <2>3. CASE script[c] = "program" /\ ack
    <3>1. emit'[j] = Response("ACK", "true", FALSE, c)
      <4>1. PICK x : x = Response("ACK", "true", FALSE, c)
        OBVIOUS
      <4>2. emit' = <<x>>
        BY <1>8, <2>3, <4>1
      <4>3. Len(emit') = 1 /\ emit'[1] = x
        BY <4>2
      <4>4. j = 1
        BY <4>3
      <4> QED
        BY <4>1, <4>3, <4>4
    <3>2. emit'[j].rawmode = "true" /\ emit'[j].for = c /\ emit'[j].kind = "response"
      BY <3>1 DEF Response
    <3> QED
      BY <1>7, <2>3, <3>2
  <2> QED
    BY <2>1, <2>2, <2>3
<1>14. TruthfulAll(respbuf)' /\ TruthfulAll(inp)'
  BY <1>3, <1>12 DEF IInv, TruthfulAll, Truthful
<1>15. Settled'
  BY <1>3, <1>12, StillSettled
<1>16. script[c] # "program" => mode' = "cmd" /\ NoRaw(emit')
  BY <1>1, <1>8 DEF NoRaw
<1>17. pc = "send" => phase = "command" /\ Sending'
  <2> SUFFICES ASSUME pc = "send"
               PROVE  phase = "command" /\ Sending'
    OBVIOUS
  <2>1. Sending /\ phase = "command"
    BY <1>2 DEF IInv, TypeOK, Exchange
  <2>2. script[c] # "program" /\ \A j \in 1..Len(outp') : script[outp'[j].for] # "program"
    BY <1>4, <1>5, <2>1 DEF Sending
  <2>3. Ahead => script[k] = "power" /\ c = k /\ \A j \in 1..Len(outp') : outp'[j].for = k
    BY <1>2, <1>4, <1>5, <2>1 DEF Sending
  <2>4. mode' # "raw" /\ NoRaw(emit)' /\ NoRaw(inp)'
    BY <1>3, <1>16, <2>1, <2>2 DEF Sending, NoRaw
  <2>5. ASSUME Ahead
        PROVE  Own(inp)' /\ Own(emit)'
    BY <1>3, <1>8, <2>1, <2>3, <2>5 DEF Sending, Own
  <2>6. Ahead' <=> Ahead
    BY <1>3 DEF Ahead
  <2> QED
    BY <1>3, <2>1, <2>2, <2>3, <2>4, <2>5, <2>6 DEF Sending
<1>18. pc # "stream" /\ (phase = "data" => pc # "read")
  BY <1>2 DEF IInv, Exchange, Streams, Waits, DataWaits
<1>19. ASSUME pc = "read", phase = "command", script[k] = "program"
       PROVE  Waits(respbuf, inp, emit)'
  <2>1. ProgramWaits(respbuf, inp, emit)
    BY <1>19 DEF IInv, Exchange, Waits
  <2>2. Refused(respbuf) /\ Refused(inp)
    BY <1>2, <2>1 DEF ProgramWaits
  <2>3. CASE script[c] = "program" /\ ack
    <3>1. /\ mode' = "raw" /\ cur' = k /\ need' = Pieces /\ outp' = <<>>
          /\ emit' = <<Response("ACK", "true", FALSE, k)>>
      BY <1>1, <1>6, <1>8, <2>3
    <3>2. ProgramWaits(respbuf, inp, emit)'
      BY <1>3, <2>2, <3>1 DEF ProgramWaits, Refused, Refusal, Accept, Response
    <3> QED
      BY <1>3, <1>19, <3>2 DEF Waits
  <2>4. CASE ~(script[c] = "program" /\ ack)
    <3>1. Refused(emit')
      BY <1>6, <1>8, <2>4 DEF Refused, Refusal
    <3>2. mode' # "raw" /\ Refused(respbuf') /\ Refused(inp')
      BY <1>1, <1>3, <2>2, <2>4
    <3> QED
      BY <1>3, <1>19, <3>1, <3>2, WaitsForGo
  <2> QED
    BY <2>3, <2>4
<1>20. ASSUME pc = "read", phase = "command", script[k] # "program"
       PROVE  Waits(respbuf, inp, emit)'
  <2>1. OtherWaits(respbuf, inp, emit)
    BY <1>20 DEF IInv, Exchange, Waits
  <2>2. script[c] # "program"
    BY <1>6, <1>20
  <2>3. mode' # "raw" /\ NoRaw(emit') /\ NoRaw(inp')
    BY <1>3, <1>16, <2>1, <2>2 DEF OtherWaits
  <2>4. ASSUME Ahead, script[k] = "power"
        PROVE  /\ Own(respbuf') /\ Own(inp') /\ Own(emit')
               /\ \A j \in 1..Len(outp') : outp'[j].for = k
    <3>1. Own(respbuf) /\ Own(inp) /\ \A j \in 1..Len(outp) : outp[j].for = k
      BY <2>1, <2>4 DEF OtherWaits
    <3>2. c = k
      BY <1>4, <1>5, <3>1
    <3> QED
      BY <1>3, <1>4, <1>8, <3>1, <3>2 DEF Own
  <2>5. ASSUME Ahead, script[k] # "power"
        PROVE  /\ outp' = <<>>
               /\ NoResponse(respbuf') /\ NoResponse(inp') /\ OneResponse(emit')
    <3>1. outp = <<CommandPkt(k)>> /\ NoResponse(respbuf) /\ NoResponse(inp)
      BY <1>2, <2>1, <2>5 DEF OtherWaits
    <3>2. c = k /\ outp' = <<>>
      BY <1>4, <1>5, <3>1, OnlyOne DEF CommandPkt
    <3> QED
      BY <1>3, <1>8, <3>1, <3>2 DEF OneResponse
  <2> QED
    BY <1>3, <1>20, <2>3, <2>4, <2>5, WaitsForOther
<1>21. Exchange'
  <2>1. phase \in {"command", "data"}
    BY DEF IInv, TypeOK
  <2> QED
    BY <1>3, <1>17, <1>18, <1>19, <1>20, <2>1 DEF IInv, Exchange
<1> QED
  BY <1>3, <1>9, <1>10, <1>11, <1>13, <1>14, <1>15, <1>21 DEF IInv

LEMMA DeviceDataInv ==
  ASSUME IInv, DeviceData
  PROVE  IInv'
<1>1. PICK ack \in BOOLEAN :
        IF need > 1 THEN UNCHANGED <<mode, emit, done>>
        ELSE /\ mode' = "cmd"
             /\ emit' = <<Response(IF ack THEN "ACK" ELSE "NAK", "false", FALSE, cur)>>
             /\ done' = IF ack THEN done \cup {cur} ELSE done
  BY DEF DeviceData
<1>2. /\ mode = "raw" /\ emit = <<>> /\ outp # <<>> /\ Head(outp).kind = "data"
      /\ need' = need - 1 /\ outp' = Tail(outp) /\ UNCHANGED <<run, host, cur, inp>>
  BY DEF DeviceData
<1>3. /\ UNCHANGED <<run, k, pc, todo, phase, retry, respbuf, tries, piece, by, inp, cur>>
      /\ script' = script /\ MaxRetry' = MaxRetry /\ ToDo' /\ AnswersMatch'
  BY <1>2, HostSame
<1>4. /\ Len(outp) \in Nat \ {0} /\ Head(outp) = outp[1]
      /\ outp' \in Seq(PacketType) /\ Len(outp') = Len(outp) - 1
      /\ \A j \in 1..Len(outp') : j + 1 \in 1..Len(outp) /\ outp'[j] = outp[j + 1]
      /\ Len(outp) = 1 => outp' = <<>>
  BY <1>2, PipeShrinks
<1>5. /\ Len(outp) <= need /\ \A j \in 1..Len(outp) : outp[j].kind = "data"
      /\ need \in 1..Pieces /\ Pieces \in Nat
      /\ cur \in 1..Len(script) /\ script[cur] = "program"
  BY <1>2, Facts DEF IInv, Pipe, RawDevice, TypeOK
<1>6. need = 1 => outp' = <<>>
  BY <1>4, <1>5
<1>7. done \subseteq done' /\ done' \subseteq 1..Len(script)
  BY <1>1, <1>5 DEF IInv, TypeOK
<1>8. need = 1 =>
        /\ emit' \in Seq(Messages) /\ Len(emit') = 1 /\ emit'[1].kind = "response"
        /\ emit'[1].rawmode = "false" /\ emit'[1].for = cur
        /\ emit'[1].value = "ACK" => cur \in done'
  <2> SUFFICES ASSUME need = 1
               PROVE  /\ emit' \in Seq(Messages) /\ Len(emit') = 1 /\ emit'[1].kind = "response"
                      /\ emit'[1].rawmode = "false" /\ emit'[1].for = cur
                      /\ emit'[1].value = "ACK" => cur \in done'
    OBVIOUS
  <2>1. PICK m \in BOOLEAN, v \in {"ACK", "NAK"} :
          emit' = <<Response(v, "false", m, cur)>> /\ (v = "ACK" => cur \in done')
    <3>1. CASE ack
      <4>1. emit' = <<Response("ACK", "false", FALSE, cur)>> /\ cur \in done'
        BY <1>1, <3>1 DEF Response
      <4> QED
        BY <4>1
    <3>2. CASE ~ack
      <4>1. emit' = <<Response("NAK", "false", FALSE, cur)>>
        BY <1>1, <3>2 DEF Response
      <4> QED
        BY <4>1
    <3> QED
      BY <3>1, <3>2
  <2> DEFINE a == Response(v, "false", m, cur)
  <2>2. /\ a \in Messages /\ a.kind = "response" /\ a.value = v
        /\ a.rawmode = "false" /\ a.for = cur
    BY <1>5, ResponseFacts
  <2>3. emit' = <<a>>
    BY <2>1
  <2> HIDE DEF a
  <2>4. Len(emit') = 1 /\ emit'[1] = a /\ emit' \in Seq(Messages)
    BY <2>2, <2>3
  <2> QED
    BY <2>1, <2>2, <2>4
<1>9. need > 1 => mode' = "raw" /\ emit' = <<>> /\ done' = done
  BY <1>1, <1>2
<1>10. need = 1 => mode' = "cmd"
  BY <1>1
<1>11. need = 1 \/ need > 1
  BY <1>5
<1>12. TypeOK'
  <2>1. need' \in 0..Pieces
    BY <1>2, <1>5
  <2>2. mode' \in {"cmd", "raw"} /\ emit' \in Seq(Messages)
    BY <1>8, <1>9, <1>10, <1>11, Facts
  <2> QED
    BY <1>3, <1>4, <1>7, <2>1, <2>2 DEF IInv, TypeOK, PacketType
<1>13. Pipe'
  <2>1. CASE need = 1
    BY <1>6, <1>10, <2>1 DEF Pipe, CommandsOnly
  <2>2. CASE need > 1
    <3>1. \A j \in 1..Len(outp') : outp'[j].kind = "data"
      BY <1>4, <1>5
    <3>2. Len(outp') <= need'
      BY <1>2, <1>4, <1>5
    <3> QED
      BY <1>9, <2>2, <3>1, <3>2 DEF Pipe
  <2> QED
    BY <1>11, <2>1, <2>2
<1>14. RawDevice'
  <2>1. need > 1 => need' > 0
    BY <1>2, <1>5
  <2> QED
    BY <1>3, <1>5, <1>9, <1>10, <1>11, <2>1 DEF RawDevice
<1>15. TruthfulAll(respbuf)' /\ TruthfulAll(inp)'
  BY <1>3, <1>7 DEF IInv, TruthfulAll, Truthful
<1>16. TruthfulAll(emit)'
  <2>1. CASE need = 1
    <3>1. \A j \in 1..Len(emit') : j = 1
      <4>1. Len(emit') = 1
        BY <1>8, <2>1
      <4> QED
        BY <4>1
    <3> QED
      BY <1>3, <1>5, <1>8, <2>1, <3>1 DEF TruthfulAll, Truthful
  <2>2. CASE need > 1
    BY <1>9, <2>2 DEF TruthfulAll
  <2> QED
    BY <1>11, <2>1, <2>2
<1>17. Settled'
  BY <1>3, <1>7, StillSettled
<1>18. /\ pc # "send" /\ (pc = "read" => phase = "data")
       /\ phase = "data" => script[k] = "program"
       /\ phase = "command" => piece = 0
       /\ pc = "stream" => Streams /\ phase = "data"
  <2>1. phase \in {"command", "data"}
    BY DEF IInv, TypeOK
  <2> QED
    BY <1>2, <2>1 DEF IInv, Exchange, Sending, Waits, ProgramWaits, OtherWaits
<1>19. ASSUME pc = "stream" PROVE Streams'
  <2>1. /\ cur = k /\ inp = <<>> /\ piece < Pieces /\ piece \in Nat
        /\ need + piece = Pieces + Len(outp)
    BY <1>18, <1>19 DEF Streams, IInv, TypeOK
  <2>2. need > 1
    BY <1>4, <1>5, <2>1
  <2>3. need' + piece' = Pieces + Len(outp')
    BY <1>2, <1>3, <1>4, <1>5, <2>1
  <2> QED
    BY <1>3, <1>9, <2>1, <2>2, <2>3 DEF Streams
<1>20. ASSUME pc = "read" PROVE Waits(respbuf, inp, emit)'
  <2>1. DataWaits(respbuf, inp, emit)
    BY <1>18, <1>20 DEF IInv, Exchange, Waits
  <2>2. cur = k /\ need = Len(outp) /\ respbuf = <<>> /\ inp = <<>>
    BY <1>2, <2>1 DEF DataWaits
  <2>3. DataWaits(respbuf, inp, emit)'
    <3>1. CASE need = 1
      BY <1>3, <1>6, <1>8, <1>10, <2>2, <3>1 DEF DataWaits, DataAnswer
    <3>2. CASE need > 1
      <4>1. need' = Len(outp')
        BY <1>2, <1>4, <2>2
      <4> QED
        BY <1>3, <1>9, <2>2, <3>2, <4>1 DEF DataWaits
    <3> QED
      BY <1>11, <3>1, <3>2
  <2> QED
    BY <1>3, <1>18, <1>20, <2>3 DEF Waits
<1>21. Exchange'
  BY <1>3, <1>18, <1>19, <1>20 DEF Exchange
<1> QED
  BY <1>3, <1>12, <1>13, <1>14, <1>15, <1>16, <1>17, <1>21 DEF IInv

LEMMA DevicePowersOffInv ==
  ASSUME IInv, DevicePowersOff
  PROVE  IInv'
<1>1. /\ UNCHANGED <<run, host, need, cur, emit, done, inp, outp>>
      /\ mode = "cmd" /\ mode' = "off"
  BY DEF DevicePowersOff
<1>2. /\ UNCHANGED <<run, k, pc, todo, phase, retry, respbuf, tries, piece, by>>
      /\ script' = script /\ MaxRetry' = MaxRetry /\ ToDo' /\ AnswersMatch'
  BY <1>1, HostSame
<1>3. TypeOK'
  BY <1>1, <1>2 DEF IInv, TypeOK
<1>4. Pipe' /\ RawDevice'
  BY <1>1, <1>2 DEF IInv, Pipe, CommandsOnly, RawDevice
<1>5. TruthfulAll(respbuf)' /\ TruthfulAll(inp)' /\ TruthfulAll(emit)'
  BY <1>1, <1>2, StillTruthful
<1>6. Settled'
  BY <1>1, <1>2, StillSettled
<1>7. Sending => Sending'
  BY <1>1, <1>2 DEF Sending, Ahead, NoRaw, NoResponse, Own
<1>8. ~Streams
  BY <1>1 DEF Streams
<1>9. Waits(respbuf, inp, emit) => Waits(respbuf, inp, emit)'
  <2>1. DataWaits(respbuf, inp, emit) => DataWaits(respbuf, inp, emit)'
    BY <1>1, <1>2 DEF DataWaits, DataAnswer
  <2>2. ProgramWaits(respbuf, inp, emit) => ProgramWaits(respbuf, inp, emit)'
    BY <1>1, <1>2 DEF ProgramWaits, Refused, Refusal
  <2>3. OtherWaits(respbuf, inp, emit) => OtherWaits(respbuf, inp, emit)'
    BY <1>1, <1>2 DEF OtherWaits, Ahead, NoRaw, Own, NoResponse, OneResponse, CommandPkt
  <2> QED
    BY <1>2, <2>1, <2>2, <2>3 DEF Waits
<1>10. Exchange'
  BY <1>1, <1>2, <1>7, <1>8, <1>9 DEF IInv, Exchange
<1> QED
  BY <1>2, <1>3, <1>4, <1>5, <1>6, <1>10 DEF IInv

LEMMA DeviceGoneInv ==
  ASSUME IInv, DeviceGone
  PROVE  IInv'
<1>1. /\ UNCHANGED <<run, host, device, mode, need, cur, emit, done, inp>>
      /\ mode = "off" /\ outp # <<>> /\ outp' = Tail(outp)
  BY DEF DeviceGone, device
<1>2. /\ UNCHANGED <<run, k, pc, todo, phase, retry, respbuf, tries, piece, by>>
      /\ script' = script /\ MaxRetry' = MaxRetry /\ ToDo' /\ AnswersMatch'
  BY <1>1, HostSame
<1>3. /\ Len(outp) \in Nat \ {0} /\ outp' \in Seq(PacketType)
      /\ \A j \in 1..Len(outp') : j + 1 \in 1..Len(outp) /\ outp'[j] = outp[j + 1]
      /\ Len(outp) = 1 => outp' = <<>>
  BY <1>1, PipeShrinks
<1>4. TypeOK'
  BY <1>1, <1>2, <1>3 DEF IInv, TypeOK, PacketType
<1>5. Pipe' /\ RawDevice'
  <2>1. CommandsOnly
    BY <1>1 DEF IInv, Pipe
  <2>2. CommandsOnly'
    BY <1>1, <1>2, <2>1, ShrinksToCommands
  <2> QED
    BY <1>1, <2>2 DEF Pipe, RawDevice
<1>6. TruthfulAll(respbuf)' /\ TruthfulAll(inp)' /\ TruthfulAll(emit)'
  BY <1>1, <1>2, StillTruthful
<1>7. Settled'
  BY <1>1, <1>2, StillSettled
<1>8. Sending => Sending'
  <2> SUFFICES ASSUME Sending PROVE Sending'
    OBVIOUS
  <2>1. \A j \in 1..Len(outp') : script[outp'[j].for] # "program"
    BY <1>3 DEF Sending
  <2>2. Ahead => script[k] = "power" /\ \A j \in 1..Len(outp') : outp'[j].for = k
    BY <1>1, <1>3 DEF Sending
  <2> QED
    BY <1>1, <1>2, <2>1, <2>2 DEF Sending, Ahead, NoRaw, NoResponse, Own
<1>9. ~Streams
  BY <1>1 DEF Streams
<1>10. ASSUME Waits(respbuf, inp, emit), phase \in {"command", "data"}
       PROVE  Waits(respbuf, inp, emit)'
  <2>1. phase = "command"
    BY <1>1, <1>10 DEF Waits, DataWaits
  <2>2. CASE script[k] = "program"
    <3>1. ProgramWaits(respbuf, inp, emit)
      BY <1>10, <2>1, <2>2 DEF Waits
    <3>2. Refused(respbuf') /\ Refused(inp') /\ Refused(emit')
      BY <1>1, <1>2, <3>1 DEF ProgramWaits, Refused, Refusal
    <3> QED
      BY <1>1, <1>2, <2>1, <2>2, <3>2, WaitsForGo
  <2>3. CASE script[k] # "program"
    <3>1. OtherWaits(respbuf, inp, emit)
      BY <1>10, <2>1, <2>3 DEF Waits
    <3>2. NoRaw(inp') /\ NoRaw(emit')
      BY <1>1, <3>1 DEF OtherWaits
    <3>3. ASSUME Ahead, script[k] = "power"
          PROVE  /\ Own(respbuf') /\ Own(inp') /\ Own(emit')
                 /\ \A j \in 1..Len(outp') : outp'[j].for = k
      BY <1>1, <1>2, <1>3, <3>1, <3>3 DEF OtherWaits, Own
    <3>4. ASSUME Ahead, script[k] # "power"
          PROVE  /\ outp' = <<>>
                 /\ NoResponse(respbuf') /\ NoResponse(inp') /\ NoResponse(emit')
      <4>1. /\ outp = <<CommandPkt(k)>>
            /\ NoResponse(respbuf) /\ NoResponse(inp) /\ NoResponse(emit)
        BY <1>1, <3>1, <3>4 DEF OtherWaits
      <4> QED
        BY <1>1, <1>2, <4>1, OnlyOne
    <3> QED
      BY <1>1, <1>2, <2>1, <2>3, <3>2, <3>3, <3>4, WaitsForOther
  <2> QED
    BY <2>2, <2>3
<1>11. Exchange'
  BY <1>1, <1>2, <1>8, <1>9, <1>10 DEF IInv, Exchange, TypeOK
<1> QED
  BY <1>2, <1>4, <1>5, <1>6, <1>7, <1>11 DEF IInv

LEMMA DeviceEmitInv ==
  ASSUME IInv, DeviceEmit
  PROVE  IInv'
<1>1. /\ UNCHANGED <<run, host, mode, need, cur, done, outp>>
      /\ emit # <<>> /\ inp' = Append(inp, Head(emit)) /\ emit' = Tail(emit)
  BY DEF DeviceEmit
<1>2. /\ UNCHANGED <<run, k, pc, todo, phase, retry, respbuf, tries, piece, by>>
      /\ script' = script /\ MaxRetry' = MaxRetry /\ ToDo' /\ AnswersMatch'
  BY <1>1, HostSame
<1>3. inp' \in Seq(Messages) /\ emit' \in Seq(Messages)
  BY <1>1, Facts, PassFacts
<1>4. /\ NoRaw(emit) => NoRaw(emit')
      /\ NoRaw(inp) /\ NoRaw(emit) => NoRaw(inp')
      /\ NoResponse(emit) => NoResponse(emit')
      /\ NoResponse(inp) /\ NoResponse(emit) => NoResponse(inp')
      /\ Own(emit) => Own(emit')
      /\ Own(inp) /\ Own(emit) => Own(inp')
      /\ TruthfulAll(emit) => TruthfulAll(emit')
      /\ TruthfulAll(inp) /\ TruthfulAll(emit) => TruthfulAll(inp')
  BY <1>1, Facts, PassAll
<1>5. TypeOK'
  BY <1>1, <1>2, <1>3 DEF IInv, TypeOK
<1>6. Pipe' /\ RawDevice'
  BY <1>1, <1>2 DEF IInv, Pipe, CommandsOnly, RawDevice
<1>7. TruthfulAll(respbuf)' /\ TruthfulAll(inp)' /\ TruthfulAll(emit)'
  BY <1>1, <1>2, <1>4, StillTruthful DEF IInv
<1>8. Settled'
  BY <1>1, <1>2, StillSettled
<1>9. Sending => Sending'
  <2> SUFFICES ASSUME Sending PROVE Sending'
    OBVIOUS
  <2>1. NoRaw(inp)' /\ NoRaw(emit)'
    BY <1>4 DEF Sending, NoRaw
  <2>2. Ahead => IF script[k] = "power"
                 THEN Own(inp') /\ Own(emit') /\ \A j \in 1..Len(outp) : outp[j].for = k
                 ELSE outp = <<>> /\ NoResponse(inp') /\ NoResponse(emit')
    BY <1>4 DEF Sending
  <2> QED
    BY <1>1, <1>2, <2>1, <2>2 DEF Sending, Ahead, NoResponse, Own
<1>10. ~Streams
  BY <1>1 DEF Streams
<1>11. Waits(respbuf, inp, emit) => Waits(respbuf, inp, emit)'
  <2>1. Waits(respbuf, inp, emit) => Waits(respbuf', inp', emit')
    BY <1>1, <1>2, Facts, WaitsEmit
  <2> QED
    BY <1>1, <1>2, <2>1, WaitsSame
<1>12. Exchange'
  BY <1>1, <1>2, <1>9, <1>10, <1>11 DEF IInv, Exchange
<1> QED
  BY <1>2, <1>5, <1>6, <1>7, <1>8, <1>12 DEF IInv
-------------------------------------------------------------------------------
LEMMA InitInv ==
  Init => IInv
<1> SUFFICES ASSUME Init PROVE IInv
  OBVIOUS
<1>1. /\ run \in Runs /\ script \in Seq(Ops) /\ Len(script) \in Nat \ {0}
      /\ MaxRetry \in Nat \ {0} /\ Pieces \in Nat \ {0} /\ PowerTries \in Nat \ {0}
  BY RunFacts DEF Init
<1>2. /\ k = 1 /\ pc = "send" /\ todo = Sends(script[1]) /\ phase = "command"
      /\ retry = MaxRetry /\ respbuf = <<>> /\ tries = PowerTries /\ piece = 0
      /\ outp = <<>> /\ inp = <<>>
      /\ mode = "cmd" /\ need = 0 /\ cur = 0 /\ emit = <<>> /\ done = {}
      /\ by = [j \in 1..Len(script) |-> 0]
  BY DEF Init
<1>3. /\ todo \in Seq({"clear", "write"}) /\ todo # <<>> /\ todo[Len(todo)] = "write"
      /\ script[k] # "power" => \A j \in 1..(Len(todo) - 1) : todo[j] = "clear"
  BY <1>2, SendsFacts
<1>4. TypeOK
  <2>1. <<>> \in Seq(Messages) /\ <<>> \in Seq([kind : {"command", "data"}, for : Nat])
    OBVIOUS
  <2>2. by \in [1..Len(script) -> 0..Len(script)]
    BY <1>1, <1>2
  <2> QED
    BY <1>1, <1>2, <1>3, <2>1, <2>2 DEF TypeOK
<1>5. Pipe /\ RawDevice
  BY <1>2 DEF Pipe, CommandsOnly, RawDevice
<1>6. TruthfulAll(respbuf) /\ TruthfulAll(inp) /\ TruthfulAll(emit)
  BY <1>2 DEF TruthfulAll
<1>7. Settled
  BY <1>1, <1>2 DEF Settled
<1>8. AnswersMatch
  BY <1>2 DEF AnswersMatch
<1>9. ToDo
  BY <1>2, <1>3 DEF ToDo
<1>10. Exchange
  <2>1. NoRaw(inp) /\ NoRaw(emit) /\ \A j \in 1..Len(outp) : script[outp[j].for] # "program"
    BY <1>2 DEF NoRaw
  <2>2. ~Ahead
    BY <1>2 DEF Ahead
  <2>3. Sending
    BY <1>2, <2>1, <2>2 DEF Sending
  <2> QED
    BY <1>2, <2>3 DEF Exchange
<1> QED
  BY <1>4, <1>5, <1>6, <1>7, <1>8, <1>9, <1>10 DEF IInv

LEMMA StutterInv ==
  ASSUME IInv, UNCHANGED vars
  PROVE  IInv'
<1>1. UNCHANGED <<run, k, pc, todo, phase, retry, respbuf, tries, piece, by,
                  mode, need, cur, emit, done, outp, inp>>
  BY DEF vars, host, device
<1>2. TypeOK'
  BY <1>1 DEF IInv, TypeOK, script, MaxRetry
<1>3. Pipe' /\ RawDevice'
  BY <1>1 DEF IInv, Pipe, CommandsOnly, RawDevice, script
<1>4. TruthfulAll(respbuf)' /\ TruthfulAll(inp)' /\ TruthfulAll(emit)'
  BY <1>1, StillTruthful
<1>5. AnswersMatch' /\ Settled' /\ ToDo'
  BY <1>1, StillAnswersMatch, StillSettled DEF IInv, ToDo, script
<1>6. Sending => Sending'
  BY <1>1 DEF Sending, Ahead, NoRaw, NoResponse, Own, script
<1>7. Streams => Streams'
  BY <1>1 DEF Streams
<1>8. Waits(respbuf, inp, emit) => Waits(respbuf, inp, emit)'
  BY <1>1, WaitsSame
<1>9. Exchange'
  BY <1>1, <1>6, <1>7, <1>8 DEF IInv, Exchange, script
<1> QED
  BY <1>2, <1>3, <1>4, <1>5, <1>9 DEF IInv

LEMMA NextInv ==
  IInv /\ [Next]_vars => IInv'
<1> SUFFICES ASSUME IInv, [Next]_vars PROVE IInv'
  OBVIOUS
<1>1. CASE HostStep
  BY <1>1, ClearRubbishInv, WriteCommandInv, StreamPieceInv, StreamFailsInv, ReadTurnInv,
     RetriesSpentInv DEF HostStep
<1>2. CASE DeviceStep
  BY <1>2, DeviceCommandInv, DeviceDataInv, DevicePowersOffInv, DeviceGoneInv, DeviceEmitInv
     DEF DeviceStep
<1>3. CASE Exited \/ UNCHANGED vars
  BY <1>3, StutterInv DEF Exited
<1> QED
  BY <1>1, <1>2, <1>3 DEF Next

LEMMA Invariance == Spec => []IInv
<1> QED
  BY InitInv, NextInv, PTL DEF Spec

(***************************************************************************)
(* Every variable has its type: in particular the pieces written and the   *)
(* pieces the device expects stay within the length that the program       *)
(* command announced, in transmit_chunk and in the device.                 *)
(***************************************************************************)
THEOREM TypeCorrect == Spec => []TypeOK
<1>1. IInv => TypeOK
  BY DEF IInv
<1> QED
  BY <1>1, Invariance, PTL

(***************************************************************************)
(* The device never takes payload of transmit_chunk for a command nor a    *)
(* command of send_command for payload, for every script in the order of   *)
(* main, every MAX_RETRY and every timing of the answers.                  *)
(***************************************************************************)
THEOREM NeverMisread == Spec => []NoMisread
<1>1. ASSUME IInv, outp # <<>>
      PROVE  /\ mode = "cmd" => Head(outp).kind = "command"
             /\ mode = "raw" => Head(outp).kind = "data"
  <2>1. Len(outp) \in Nat \ {0} /\ Head(outp) = outp[1]
    BY <1>1, Facts, HeadTailFacts
  <2>2. 1 \in 1..Len(outp)
    BY <2>1
  <2> QED
    BY <1>1, <2>1, <2>2 DEF IInv, Pipe, CommandsOnly
<1>2. IInv => NoMisread
  BY <1>1 DEF NoMisread
<1> QED
  BY <1>2, Invariance, PTL

(***************************************************************************)
(* From the first program command on, every command that the response loop *)
(* of firehose.c decides is decided by the device's answer to it.          *)
(***************************************************************************)
THEOREM AnswersAreMatched == Spec => []AnswersMatch
<1>1. IInv => AnswersMatch
  BY DEF IInv
<1> QED
  BY <1>1, Invariance, PTL

(***************************************************************************)
(* When main prints "all done:)" the device has carried out every program  *)
(* command and every patch after one.                                      *)
(***************************************************************************)
THEOREM DoneIsDone == Spec => []DoneMeansDone
<1>1. IInv => DoneMeansDone
  BY DEF IInv, Settled, DoneMeansDone
<1> QED
  BY <1>1, Invariance, PTL
===============================================================================
