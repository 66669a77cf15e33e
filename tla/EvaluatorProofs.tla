--------------------------- MODULE EvaluatorProofs ---------------------------
(***************************************************************************)
(* Four results about evaluator and the loop over rawprogram0.xml that     *)
(* calls it.  ValuesMatch: an expression is given the value of its syntax  *)
(* tree; what is on operator_stack is always a chain of nodes in which     *)
(* each is under the right side of the one before it, and postfix_string   *)
(* is the code of what lies to the left of that chain.                     *)
(* LinesDecide: the image routines are called with what the lines of the   *)
(* file say.                                                               *)
(* TypeCorrect: the types of both.                                         *)
(* StacksSuffice, with which it begins: the arrays of evaluator are large  *)
(* enough for every text that is not longer than postfix_string, whatever  *)
(* is in it: a number takes a character and the next one another, so there *)
(* are at most half as many numbers as characters; every other entry of    *)
(* the stacks is a character of its own; and the calculation never holds   *)
(* more values than there are numbers before the next one to be pushed.    *)
(***************************************************************************)
EXTENDS RawProgram, SequenceTheorems, FiniteSetTheorems, WellFoundedInduction, TLAPS

OpChars == Operators \union {"("}
Entry == [op : OpChars \union {"n"}, k : Nat]

Typed ==
    /\ text \in Seq(STRING) /\ ops \in Seq(OpChars) /\ postfix \in Seq(Entry)
    /\ \E S : numbers \in Seq(S)
    /\ \E S : calc \in Seq(S)
    /\ i \in Nat /\ from \in Nat

\* The characters that have been scanned pay for what is on the stacks.
Between ==
    /\ Len(postfix) + Len(ops) <= i - 1
    /\ \/ 2 * Len(numbers) <= i - 1
       \/ 2 * Len(numbers) <= i /\ Ch \notin DigitSet
Inside ==
    /\ from \in 1..(i - 1)
    /\ Len(postfix) + Len(ops) <= from - 1
    /\ 2 * Len(numbers) <= from - 1
Scanned ==
    pc = "scan" =>
        /\ i \in 1..(Len(text) + 1)
        /\ from = 0 => Between
        /\ from # 0 => Inside
        /\ Len(calc) = 0

\* The numbers stand in postfix_string in the order of their list of n.
InOrder(p, n) ==
    /\ \A x \in 1..Len(p) : p[x].op = "n" => p[x].k \in 1..n
    /\ \A x, y \in 1..Len(p) : (x < y /\ p[x].op = "n" /\ p[y].op = "n") => p[x].k < p[y].k
Ordered == pc \in {"scan", "calc"} => InOrder(postfix, Len(numbers))

Held ==
    pc = "calc" =>
        /\ i \in 1..(Len(postfix) + 1)
        /\ 2 * Len(numbers) <= Len(text) + 1
        /\ \A q \in i..Len(postfix) : postfix[q].op = "n" => Len(calc) < postfix[q].k

Fresh ==
    pc \in {"sectors", "points"} =>
        /\ i = 1 /\ from = 0
        /\ Len(ops) = 0 /\ Len(postfix) = 0 /\ Len(numbers) = 0 /\ Len(calc) = 0

IInv == Typed /\ Fresh /\ Scanned /\ Ordered /\ Held /\ ShortTextsFit

(***************************************************************************)
(* Sequences.                                                              *)
(***************************************************************************)
LEMMA Lengths ==
  ASSUME Typed
  PROVE  /\ Len(text) \in Nat /\ Len(ops) \in Nat /\ Len(postfix) \in Nat
         /\ Len(numbers) \in Nat /\ Len(calc) \in Nat
BY DEF Typed

LEMMA GrowsByOne ==
  ASSUME NEW s, \E S : s \in Seq(S), NEW e
  PROVE  /\ \E S : Append(s, e) \in Seq(S)
         /\ Len(Append(s, e)) = Len(s) + 1
<1>1. PICK S : s \in Seq(S)
  OBVIOUS
<1>2. s \in Seq(S \union {e})
  BY <1>1, SeqMonotonic
<1>3. Append(s, e) \in Seq(S \union {e}) /\ Len(Append(s, e)) = Len(s) + 1
  BY <1>2
<1> QED
  BY <1>3

LEMMA PoppedFacts ==
  ASSUME Typed, NEW j \in 0..Len(ops)
  PROVE  /\ Popped(j) \in Seq(Entry)
         /\ Len(Popped(j)) = Len(ops) - j
         /\ \A n \in 1..Len(Popped(j)) : Popped(j)[n].op # "n"
<1>1. Len(ops) - j \in Nat /\ \A n \in 1..(Len(ops) - j) : ops[Len(ops) + 1 - n] \in OpChars
  BY DEF Typed
<1>2. \A n \in 1..(Len(ops) - j) :
        /\ [op |-> ops[Len(ops) + 1 - n], k |-> 0] \in Entry
        /\ ops[Len(ops) + 1 - n] # "n"
  <2>1. \A c \in OpChars : c # "n"
    BY DEF OpChars, Operators
  <2>2. \A c \in OpChars : [op |-> c, k |-> 0] \in Entry
    BY DEF Entry
  <2> QED
    BY <1>1, <2>1, <2>2
<1>3. Popped(j) \in [1..(Len(ops) - j) -> Entry]
  BY <1>2 DEF Popped
<1>4. Popped(j) \in Seq(Entry)
  BY <1>1, <1>3, SeqDef
<1>5. Len(Popped(j)) = Len(ops) - j
  BY <1>1, <1>3, <1>4, LenProperties
<1> QED
  BY <1>2, <1>4, <1>5 DEF Popped

LEMMA ConcatInOrder ==
  ASSUME NEW p \in Seq(Entry), NEW n \in Nat, InOrder(p, n),
         NEW e \in Seq(Entry), \A x \in 1..Len(e) : e[x].op # "n"
  PROVE  InOrder(p \o e, n)
<1>1. Len(p \o e) = Len(p) + Len(e) /\ Len(p) \in Nat /\ Len(e) \in Nat
  OBVIOUS
<1>2. \A x \in 1..Len(p \o e) :
        /\ x <= Len(p) => (p \o e)[x] = p[x]
        /\ x > Len(p) => (p \o e)[x].op # "n"
  <2> TAKE x \in 1..Len(p \o e)
  <2>1. CASE x <= Len(p)
    BY <2>1, <1>1
  <2>2. CASE x > Len(p)
    <3>1. x - Len(p) \in 1..Len(e) /\ (p \o e)[x] = e[x - Len(p)]
      BY <2>2, <1>1
    <3> QED
      BY <3>1, <2>2
  <2> QED
    BY <2>1, <2>2, <1>1
<1>3. \A x \in 1..Len(p \o e) : (p \o e)[x].op = "n" => x \in 1..Len(p) /\ (p \o e)[x] = p[x]
  BY <1>1, <1>2
<1> QED
  BY <1>3 DEF InOrder

LEMMA AppendInOrder ==
  ASSUME NEW p \in Seq(Entry), NEW n \in Nat, InOrder(p, n)
  PROVE  InOrder(Append(p, [op |-> "n", k |-> n + 1]), n + 1)
<1> DEFINE e == [op |-> "n", k |-> n + 1]
<1> e \in Entry
  BY DEF Entry
<1> HIDE DEF e
<1>1. /\ Len(Append(p, e)) = Len(p) + 1 /\ Len(p) \in Nat
      /\ \A x \in 1..Len(p) : Append(p, e)[x] = p[x]
      /\ Append(p, e)[Len(p) + 1] = e
  OBVIOUS
<1>2. e.k = n + 1
  BY DEF e
<1>3. \A x \in 1..(Len(p) + 1) : x \in 1..Len(p) \/ x = Len(p) + 1
  BY <1>1
<1>4. \A x \in 1..Len(p) : p[x].op = "n" => p[x].k \in 1..n
  BY DEF InOrder
<1>5. \A x \in 1..Len(Append(p, e)) : Append(p, e)[x].op = "n" => Append(p, e)[x].k \in 1..(n + 1)
  BY <1>1, <1>2, <1>3, <1>4
<1>6. ASSUME NEW x \in 1..Len(Append(p, e)), NEW y \in 1..Len(Append(p, e)),
             x < y, Append(p, e)[x].op = "n", Append(p, e)[y].op = "n"
      PROVE  Append(p, e)[x].k < Append(p, e)[y].k
  <2>1. x \in 1..Len(p) /\ Append(p, e)[x].k \in 1..n
    BY <1>1, <1>3, <1>4, <1>6
  <2>2. CASE y = Len(p) + 1
    BY <2>1, <2>2, <1>1, <1>2
  <2>3. CASE y \in 1..Len(p)
    BY <2>1, <2>3, <1>1, <1>6 DEF InOrder
  <2> QED
    BY <2>2, <2>3, <1>1, <1>3
<1>7. InOrder(Append(p, e), n + 1)
  BY <1>5, <1>6 DEF InOrder
<1> QED
  BY <1>7 DEF e

(***************************************************************************)
(* The steps.                                                              *)
(***************************************************************************)
LEMMA Constants ==
  /\ BufferSize \in Nat /\ PostfixSize \in Nat /\ OperatorSize \in Nat
  /\ NumberListSize \in Nat /\ CalculationSize \in Nat
  /\ PostfixSize < BufferSize /\ PostfixSize <= OperatorSize
  /\ PostfixSize <= 2 * NumberListSize /\ NumberListSize <= CalculationSize
BY SizesFit

\* A call starts from nothing.
LEMMA CallInv ==
  ASSUME IInv, NEW s \in Seq(STRING), Call(s)
  PROVE  IInv'
<1>1. Typed'
  <2>1. \A S : <<>> \in Seq(S)
    OBVIOUS
  <2> QED
    BY <2>1 DEF Call, Typed
<1> QED
  BY <1>1 DEF Call, IInv, Fresh, Scanned, Ordered, Held, ShortTextsFit

LEMMA ReplaceInv ==
  ASSUME IInv, pc \in {"sectors", "points"}, NEW c, NEW r \in Seq(STRING), Replace(c, r)
  PROVE  IInv'
<1>1. PICK p \in 1..Len(text) :
        text' = SubSeq(text, 1, p - 1) \o r \o SubSeq(text, p + 1, Len(text))
  BY DEF Replace
<1>2. text \in Seq(STRING) /\ Len(text) \in Nat
  BY Lengths DEF IInv, Typed
<1>3. SubSeq(text, 1, p - 1) \in Seq(STRING) /\ SubSeq(text, p + 1, Len(text)) \in Seq(STRING)
  BY <1>2
<1>4. text' \in Seq(STRING)
  BY <1>1, <1>3
<1>5. Typed'
  BY <1>4 DEF IInv, Typed, Replace
<1> QED
  BY <1>5 DEF IInv, Replace, Fresh, Scanned, Ordered, Held, ShortTextsFit

LEMMA PreparedInv ==
  ASSUME IInv, CopyToBuffer \/ PointsRemoved
  PROVE  IInv'
<1>1. Typed'
  BY DEF IInv, Typed, CopyToBuffer, PointsRemoved
<1>2. Fresh'
  BY DEF IInv, Fresh, CopyToBuffer, PointsRemoved
<1>3. Scanned' /\ Held'
  BY Lengths DEF IInv, Fresh, Scanned, Held, Between, Ch, CopyToBuffer, PointsRemoved
<1>4. Ordered'
  BY Lengths DEF IInv, Fresh, Ordered, InOrder, CopyToBuffer, PointsRemoved
<1>5. ShortTextsFit'
  BY Lengths, Constants DEF IInv, ShortTextsFit, CopyToBuffer, PointsRemoved
<1> QED
  BY <1>1, <1>2, <1>3, <1>4, <1>5 DEF IInv

\* Characters that go nowhere.
LEMMA NoPushInv ==
  ASSUME IInv, BeginNumber \/ InNumber \/ OtherChar
  PROVE  IInv'
<1>1. i <= Len(text)
  BY Lengths DEF BeginNumber, InNumber, OtherChar, Ch, DigitSet, IInv, Typed
<1>2. Typed' /\ Fresh' /\ Ordered' /\ Held' /\ ShortTextsFit'
  BY DEF IInv, Typed, Fresh, Ordered, Held, ShortTextsFit, BeginNumber, InNumber, OtherChar
<1>3. Scanned'
  <2>1. CASE BeginNumber
    BY <2>1, <1>1, Lengths DEF IInv, Typed, Scanned, Between, Inside, BeginNumber
  <2>2. CASE InNumber
    BY <2>2, <1>1, Lengths DEF IInv, Typed, Scanned, Between, Inside, InNumber
  <2>3. CASE OtherChar
    BY <2>3, <1>1, Lengths DEF IInv, Typed, Scanned, Between, Inside, OtherChar
  <2> QED
    BY <2>1, <2>2, <2>3
<1> QED
  BY <1>2, <1>3 DEF IInv

LEMMA EndNumberInv ==
  ASSUME IInv, EndNumber
  PROVE  IInv'
<1> USE Lengths, Constants
<1> DEFINE e == [op |-> "n", k |-> Len(numbers) + 1]
<1>1. Inside /\ i <= Len(text) + 1 /\ Len(calc) = 0 /\ i \in Nat /\ from \in Nat
  BY DEF IInv, Typed, Scanned, EndNumber
<1>2. CASE pc' # "scan"
  <2>1. pc' = "overrun" => Len(text) > PostfixSize
    BY <1>1, <1>2 DEF EndNumber, Inside
  <2>2. pc' \in {"overrun", "refused"} /\ UNCHANGED <<text, ops, postfix, numbers, calc, i>> /\ from' = 0
    BY <1>2 DEF EndNumber
  <2> QED
    BY <2>1, <2>2 DEF IInv, Typed, Fresh, Scanned, Ordered, Held, ShortTextsFit
<1>3. CASE pc' = "scan"
  <2>1. /\ postfix' = Append(postfix, e)
        /\ numbers' = Append(numbers, NumberOf(SubSeq(text, from, i - 1)))
        /\ from' = 0 /\ UNCHANGED <<text, pc, i, ops, calc>> /\ Ch \notin DigitSet
    BY <1>3 DEF EndNumber
  <2>2. (\E S : numbers' \in Seq(S)) /\ Len(numbers') = Len(numbers) + 1
    BY <2>1, GrowsByOne DEF IInv, Typed
  <2>3. e \in Entry
    BY DEF Entry
  <2>4. postfix' \in Seq(Entry) /\ Len(postfix') = Len(postfix) + 1
    BY <2>1, <2>3 DEF IInv, Typed
  <2>5. Typed'
    BY <2>1, <2>2, <2>4 DEF IInv, Typed
  <2>6. Scanned'
    BY <1>1, <2>1, <2>2, <2>4 DEF Scanned, Between, Inside, Ch
  <2>7. InOrder(postfix, Len(numbers)) /\ postfix \in Seq(Entry)
    BY DEF IInv, Typed, Ordered, EndNumber
  <2>8. InOrder(Append(postfix, e), Len(numbers) + 1)
    BY <2>7, AppendInOrder
  <2>9. Ordered'
    BY <2>1, <2>2, <2>8 DEF Ordered
  <2> QED
    BY <1>3, <2>5, <2>6, <2>9 DEF IInv, Fresh, Held, ShortTextsFit
<1> QED
  BY <1>2, <1>3

LEMMA OpenParenInv ==
  ASSUME IInv, OpenParen
  PROVE  IInv'
<1> USE Lengths, Constants
<1>1. Between /\ i \in 1..Len(text) /\ Len(calc) = 0 /\ from = 0
  BY DEF IInv, Typed, Scanned, OpenParen, Ch
<1>2. CASE pc' = "overrun"
  <2>1. Len(text) > PostfixSize
    BY <1>1, <1>2 DEF OpenParen, Between
  <2> QED
    BY <1>2, <2>1 DEF OpenParen, IInv, Typed, Fresh, Scanned, Ordered, Held, ShortTextsFit
<1>3. CASE pc' = "scan"
  <2>1. ops' = Append(ops, "(") /\ i' = i + 1 /\ UNCHANGED <<text, pc, from, postfix, numbers, calc>>
    BY <1>3 DEF OpenParen
  <2>2. ops' \in Seq(OpChars) /\ Len(ops') = Len(ops) + 1
    BY <2>1 DEF IInv, Typed, OpChars
  <2>3. Typed' /\ Ordered'
    BY <2>1, <2>2 DEF IInv, Typed, Ordered
  <2>4. Scanned'
    BY <1>1, <2>1, <2>2 DEF Scanned, Between
  <2> QED
    BY <1>3, <2>3, <2>4 DEF IInv, Fresh, Held, ShortTextsFit
<1> QED
  BY <1>2, <1>3 DEF OpenParen

\* What moving operators to postfix_string does to its order and length.
LEMMA MovedFacts ==
  ASSUME Typed, InOrder(postfix, Len(numbers)), NEW j \in 0..Len(ops)
  PROVE  /\ postfix \o Popped(j) \in Seq(Entry)
         /\ Len(postfix \o Popped(j)) = Len(postfix) + Len(ops) - j
         /\ InOrder(postfix \o Popped(j), Len(numbers))
<1>1. postfix \in Seq(Entry) /\ Popped(j) \in Seq(Entry) /\ Len(Popped(j)) = Len(ops) - j
  BY PoppedFacts DEF Typed
<1>2. postfix \o Popped(j) \in Seq(Entry) /\ Len(postfix \o Popped(j)) = Len(postfix) + Len(Popped(j))
  BY <1>1, ConcatProperties
<1>3. InOrder(postfix \o Popped(j), Len(numbers))
  BY <1>1, PoppedFacts, ConcatInOrder, Lengths
<1> QED
  BY <1>1, <1>2, <1>3, Lengths

LEMMA StackPart ==
  ASSUME NEW s \in Seq(OpChars), NEW j \in Int, j <= Len(s)
  PROVE  /\ SubSeq(s, 1, j) \in Seq(OpChars)
         /\ Len(SubSeq(s, 1, j)) = IF j > 0 THEN j ELSE 0
<1>1. Len(s) \in Nat
  OBVIOUS
<1> QED
  BY <1>1

LEMMA CloseParenInv ==
  ASSUME IInv, CloseParen
  PROVE  IInv'
<1> USE Lengths, Constants
<1>1. /\ Between /\ i \in 1..Len(text) /\ Len(calc) = 0 /\ from = 0
      /\ InOrder(postfix, Len(numbers)) /\ Typed
  BY DEF IInv, Typed, Scanned, Ordered, CloseParen, Ch
<1>2. PICK j \in 0..Len(ops) :
        IF Len(postfix) + Len(ops) - j > PostfixSize
        THEN pc' = "overrun" /\ UNCHANGED <<ops, postfix>>
        ELSE /\ postfix' = postfix \o Popped(j)
             /\ ops' = SubSeq(ops, 1, j - 1)
             /\ UNCHANGED pc
  BY DEF CloseParen
<1>3. i' = i + 1 /\ UNCHANGED <<source, text, from, numbers, calc>> /\ pc = "scan"
  BY DEF CloseParen
<1>4. CASE pc' = "overrun"
  <2>1. Len(postfix) + Len(ops) - j > PostfixSize /\ UNCHANGED <<ops, postfix>>
    BY <1>2, <1>3, <1>4
  <2>2. Len(text) > PostfixSize
    BY <1>1, <2>1 DEF Between
  <2> QED
    BY <1>3, <1>4, <2>1, <2>2 DEF IInv, Typed, Fresh, Scanned, Ordered, Held, ShortTextsFit
<1>5. CASE pc' # "overrun"
  <2>1. postfix' = postfix \o Popped(j) /\ ops' = SubSeq(ops, 1, j - 1) /\ pc' = "scan"
    BY <1>2, <1>3, <1>5
  <2>2. /\ postfix' \in Seq(Entry) /\ Len(postfix') = Len(postfix) + Len(ops) - j
        /\ InOrder(postfix', Len(numbers))
    BY <2>1, <1>1, MovedFacts
  <2>3. ops' \in Seq(OpChars) /\ Len(ops') = IF j - 1 > 0 THEN j - 1 ELSE 0
    BY <2>1, <1>1, StackPart DEF Typed
  <2>4. Typed' /\ Ordered'
    BY <1>1, <1>3, <2>2, <2>3 DEF Typed, Ordered
  <2>5. Scanned'
    BY <1>1, <1>3, <2>2, <2>3 DEF Scanned, Between, Typed
  <2> QED
    BY <2>1, <2>4, <2>5 DEF IInv, Fresh, Held, ShortTextsFit
<1> QED
  BY <1>4, <1>5

LEMMA OperatorInv ==
  ASSUME IInv, Operator
  PROVE  IInv'
<1> USE Lengths, Constants
<1>1. /\ Between /\ i \in 1..Len(text) /\ Len(calc) = 0 /\ from = 0
      /\ InOrder(postfix, Len(numbers)) /\ Typed /\ Ch \in OpChars
  BY DEF IInv, Typed, Scanned, Ordered, Operator, Operators, OpChars, Ch
<1>2. PICK j \in 0..Len(ops) :
        IF Len(postfix) + Len(ops) - j > PostfixSize \/ j = OperatorSize
        THEN pc' = "overrun" /\ UNCHANGED <<ops, postfix>>
        ELSE /\ postfix' = postfix \o Popped(j)
             /\ ops' = Append(SubSeq(ops, 1, j), Ch)
             /\ UNCHANGED pc
  BY DEF Operator
<1>3. i' = i + 1 /\ UNCHANGED <<source, text, from, numbers, calc>> /\ pc = "scan"
  BY DEF Operator
<1>4. CASE pc' = "overrun"
  <2>1. /\ Len(postfix) + Len(ops) - j > PostfixSize \/ j = OperatorSize
        /\ UNCHANGED <<ops, postfix>>
    BY <1>2, <1>3, <1>4
  <2>2. Len(text) > PostfixSize
    BY <1>1, <2>1 DEF Between
  <2> QED
    BY <1>3, <1>4, <2>1, <2>2 DEF IInv, Typed, Fresh, Scanned, Ordered, Held, ShortTextsFit
<1>5. CASE pc' # "overrun"
  <2>1. /\ postfix' = postfix \o Popped(j) /\ ops' = Append(SubSeq(ops, 1, j), Ch)
        /\ pc' = "scan"
    BY <1>2, <1>3, <1>5
  <2>2. /\ postfix' \in Seq(Entry) /\ Len(postfix') = Len(postfix) + Len(ops) - j
        /\ InOrder(postfix', Len(numbers))
    BY <2>1, <1>1, MovedFacts
  <2>3. SubSeq(ops, 1, j) \in Seq(OpChars) /\ Len(SubSeq(ops, 1, j)) = j
    BY <1>1, StackPart DEF Typed
  <2>4. ops' \in Seq(OpChars) /\ Len(ops') = j + 1
    BY <2>1, <2>3, <1>1
  <2>5. Typed' /\ Ordered'
    BY <1>1, <1>3, <2>2, <2>4 DEF Typed, Ordered
  <2>6. Scanned'
    BY <1>1, <1>3, <2>2, <2>4 DEF Scanned, Between, Typed
  <2> QED
    BY <2>1, <2>5, <2>6 DEF IInv, Fresh, Held, ShortTextsFit
<1> QED
  BY <1>4, <1>5

LEMMA EndScanInv ==
  ASSUME IInv, EndScan
  PROVE  IInv'
<1> USE Lengths, Constants
<1>1. /\ Between /\ i = Len(text) + 1 /\ Len(calc) = 0 /\ from = 0
      /\ InOrder(postfix, Len(numbers)) /\ Typed
  BY DEF IInv, Typed, Scanned, Ordered, EndScan
<1>2. UNCHANGED <<source, text, from, numbers, calc>> /\ pc = "scan"
  BY DEF EndScan
<1>3. CASE pc' = "overrun"
  <2>1. Len(text) > PostfixSize /\ UNCHANGED <<ops, postfix, i>>
    BY <1>1, <1>3 DEF EndScan, Between
  <2> QED
    BY <1>2, <1>3, <2>1 DEF IInv, Typed, Fresh, Scanned, Ordered, Held, ShortTextsFit
<1>4. CASE pc' # "overrun"
  <2>1. postfix' = postfix \o Popped(0) /\ ops' = <<>> /\ i' = 1 /\ pc' = "calc"
    BY <1>4 DEF EndScan
  <2>2. postfix' \in Seq(Entry) /\ Len(postfix') \in Nat /\ InOrder(postfix', Len(numbers))
    BY <2>1, <1>1, MovedFacts
  <2>3. Typed' /\ Ordered'
    BY <1>1, <1>2, <2>1, <2>2 DEF Typed, Ordered
  <2>4. Held'
    <3>1. 2 * Len(numbers) <= Len(text) + 1 /\ Len(calc) = 0
      BY <1>1 DEF Between
    <3>2. \A q \in 1..Len(postfix') : postfix'[q].op = "n" => 0 < postfix'[q].k
      BY <2>2, <1>1 DEF InOrder
    <3> QED
      BY <1>2, <2>1, <2>2, <3>1, <3>2 DEF Held
  <2> QED
    BY <2>1, <2>3, <2>4 DEF IInv, Fresh, Scanned, ShortTextsFit
<1> QED
  BY <1>3, <1>4

LEMMA PushNumberInv ==
  ASSUME IInv, PushNumber
  PROVE  IInv'
<1> USE Lengths, Constants
<1>1. /\ i \in 1..Len(postfix) /\ 2 * Len(numbers) <= Len(text) + 1
      /\ \A q \in i..Len(postfix) : postfix[q].op = "n" => Len(calc) < postfix[q].k
      /\ InOrder(postfix, Len(numbers)) /\ Typed /\ postfix[i].op = "n"
  BY DEF IInv, Typed, Held, Ordered, PushNumber
<1>2. i' = i + 1 /\ UNCHANGED <<source, text, from, ops, postfix, numbers>> /\ pc = "calc"
  BY DEF PushNumber
<1>3. postfix[i].k \in 1..Len(numbers) /\ Len(calc) < postfix[i].k
  BY <1>1 DEF InOrder
<1>4. CASE pc' = "overrun"
  <2>1. Len(calc) = CalculationSize /\ UNCHANGED calc
    BY <1>2, <1>4 DEF PushNumber
  <2>2. Len(text) > PostfixSize
    BY <1>1, <1>3, <2>1
  <2> QED
    BY <1>2, <1>4, <2>1, <2>2 DEF IInv, Typed, Fresh, Scanned, Ordered, Held, ShortTextsFit
<1>5. CASE pc' # "overrun"
  <2>1. calc' = Append(calc, numbers[postfix[i].k]) /\ pc' = "calc"
    BY <1>2, <1>5 DEF PushNumber
  <2>2. (\E S : calc' \in Seq(S)) /\ Len(calc') = Len(calc) + 1
    BY <1>1, <2>1, GrowsByOne DEF Typed
  <2>3. Typed' /\ Ordered'
    BY <1>1, <1>2, <2>2 DEF Typed, Ordered
  <2>4. \A q \in (i + 1)..Len(postfix) : postfix[q].op = "n" => postfix[i].k < postfix[q].k
    BY <1>1 DEF InOrder
  <2>5. \A q \in (i + 1)..Len(postfix) : postfix[q].op = "n" => postfix[q].k \in Nat
    BY <1>1 DEF InOrder
  <2>6. Len(calc) \in Nat /\ postfix[i].k \in Nat
    BY <1>1, <1>3
  <2>7. \A q \in (i + 1)..Len(postfix) : postfix[q].op = "n" => Len(calc') < postfix[q].k
    BY ONLY <1>3, <2>2, <2>4, <2>5, <2>6
  <2>8. i + 1 \in 1..(Len(postfix) + 1)
    BY <1>1
  <2>9. Held'
    BY <1>1, <1>2, <2>7, <2>8 DEF Held
  <2> QED
    BY <2>1, <2>3, <2>9 DEF IInv, Fresh, Scanned, ShortTextsFit
<1> QED
  BY <1>4, <1>5

LEMMA FrontPart ==
  ASSUME NEW S, NEW s \in Seq(S), NEW n \in Nat, n <= Len(s)
  PROVE  SubSeq(s, 1, n) \in Seq(S) /\ Len(SubSeq(s, 1, n)) = n
OBVIOUS

LEMMA OperateInv ==
  ASSUME IInv, Operate
  PROVE  IInv'
<1> USE Lengths
<1>1. /\ i \in 1..Len(postfix) /\ Typed /\ Held /\ Ordered /\ pc = "calc" /\ i' = i + 1
      /\ UNCHANGED <<source, text, from, ops, postfix, numbers>>
  <2>1. /\ i <= Len(postfix) /\ pc = "calc" /\ i' = i + 1
        /\ UNCHANGED <<source, text, from, ops, postfix, numbers>>
    BY DEF Operate
  <2>2. Typed /\ Held /\ Ordered
    BY DEF IInv
  <2>3. i \in 1..(Len(postfix) + 1)
    BY <2>1, <2>2 DEF Held
  <2> QED
    BY <2>1, <2>2, <2>3
<1>2. CASE pc' \in {"wild", "sigfpe"} /\ UNCHANGED calc
  <2>1. Typed'
    BY <1>1, <1>2 DEF Typed
  <2> QED
    BY <1>2, <2>1 DEF IInv, Fresh, Scanned, Ordered, Held, ShortTextsFit
<1>3. CASE /\ Len(calc) >= 2 /\ UNCHANGED pc
           /\ calc' = Append(SubSeq(calc, 1, Len(calc) - 2),
                             Apply(postfix[i].op, calc[Len(calc) - 1], calc[Len(calc)]))
  <2>1. PICK S : calc \in Seq(S)
    BY <1>1 DEF Typed
  <2>2. SubSeq(calc, 1, Len(calc) - 2) \in Seq(S) /\ Len(SubSeq(calc, 1, Len(calc) - 2)) = Len(calc) - 2
    <3>1. Len(calc) - 2 \in Nat /\ Len(calc) - 2 <= Len(calc)
      BY <1>1, <1>3
    <3> QED
      BY <2>1, <3>1, FrontPart
  <2>3. (\E T : calc' \in Seq(T)) /\ Len(calc') = Len(calc) - 1
    <3> DEFINE front == SubSeq(calc, 1, Len(calc) - 2)
               x == Apply(postfix[i].op, calc[Len(calc) - 1], calc[Len(calc)])
    <3>1. calc' = Append(front, x)
      BY <1>3
    <3>2. (\E T : front \in Seq(T)) /\ Len(front) = Len(calc) - 2
      BY <2>2
    <3>3. Len(calc) \in Nat
      BY <1>1
    <3> HIDE DEF front, x
    <3>4. (\E T : Append(front, x) \in Seq(T)) /\ Len(Append(front, x)) = Len(front) + 1
      BY ONLY <3>2, GrowsByOne
    <3> QED
      BY <3>1, <3>2, <3>3, <3>4
  <2>4. Typed' /\ Ordered'
    BY <1>1, <2>3 DEF Typed, Ordered
  <2>5. \A q \in 1..Len(postfix) : postfix[q].k \in Nat
    <3>1. \A q \in 1..Len(postfix) : postfix[q] \in Entry
      BY <1>1 DEF Typed
    <3> QED
      BY <3>1 DEF Entry
  <2>6. Held'
    <3>0. i \in 1..Len(postfix) /\ i' = i + 1 /\ Len(postfix) \in Nat
      BY <1>1
    <3>1. /\ pc' = "calc" /\ i' \in 1..(Len(postfix) + 1)
          /\ 2 * Len(numbers) <= Len(text) + 1
      <4>1. pc' = "calc" /\ 2 * Len(numbers) <= Len(text) + 1
        BY ONLY <1>1, <1>3 DEF Held
      <4>2. i' \in 1..(Len(postfix) + 1)
        BY ONLY <3>0
      <4> QED
        BY <4>1, <4>2
    <3>2. \A q \in (i + 1)..Len(postfix) : postfix[q].op = "n" => Len(calc) < postfix[q].k
      BY <1>1 DEF Held
    <3>3. i \in Nat /\ Len(postfix) \in Nat /\ Len(calc) \in Nat /\ i' = i + 1
      BY <1>1
    <3>4. \A q \in (i + 1)..Len(postfix) : q \in 1..Len(postfix)
      BY <3>3
    <3>5. \A q \in (i + 1)..Len(postfix) : postfix[q].op = "n" => Len(calc') < postfix[q].k
      BY ONLY <2>3, <2>5, <3>2, <3>3, <3>4
    <3> QED
      BY <1>1, <3>1, <3>3, <3>5 DEF Held
  <2> QED
    BY <1>1, <1>3, <2>4, <2>6 DEF IInv, Fresh, Scanned, ShortTextsFit
<1> QED
  BY <1>2, <1>3 DEF Operate

LEMMA CalculatedInv ==
  ASSUME IInv, UnclosedParen \/ Calculated
  PROVE  IInv'
BY DEF UnclosedParen, Calculated, IInv, Typed, Fresh, Scanned, Ordered, Held, ShortTextsFit

\* A step of the evaluator.
LEMMA EvaluatorInv ==
  ASSUME IInv, EvaluatorStep
  PROVE  IInv'
<1>1. CASE ReplaceWord
  BY <1>1, ReplaceInv, DigitsAreText DEF ReplaceWord
<1>2. CASE RemovePoint
  <2>1. <<>> \in Seq(STRING)
    OBVIOUS
  <2> QED
    BY <1>2, <2>1, ReplaceInv DEF RemovePoint
<1> QED
  BY <1>1, <1>2, PreparedInv, NoPushInv, EndNumberInv, OpenParenInv, CloseParenInv,
     OperatorInv, EndScanInv, PushNumberInv, OperateInv, CalculatedInv
     DEF EvaluatorStep

(***************************************************************************)
(* The loop around it.                                                     *)
(***************************************************************************)
AtLine ==
    /\ lines \in Seq(Line) /\ l \in Nat \ {0} /\ a \in Nat \ {0}
    /\ at \in {"attribute", "number"} => l <= Len(lines)

LEMMA InitInv == Init => IInv /\ AtLine
<1> SUFFICES ASSUME Init PROVE IInv /\ AtLine
  OBVIOUS
<1>1. \A S : <<>> \in Seq(S) /\ Len(<<>>) = 0
  OBVIOUS
<1>2. Typed
  BY <1>1 DEF Init, EvaluatorInit, Typed
<1>3. AtLine
  BY FilesAreText DEF Init, AtLine
<1> QED
  BY <1>2, <1>3 DEF Init, EvaluatorInit, IInv, Fresh, Scanned, Ordered, Held, ShortTextsFit

LEMMA StutterInv == IInv /\ UNCHANGED evaluatorVars => IInv'
BY DEF evaluatorVars, IInv, Typed, Fresh, Scanned, Between, Inside, Ch, Ordered, InOrder, Held,
       ShortTextsFit

LEMMA ReadNumberInv ==
  ASSUME IInv, AtLine, ReadNumber
  PROVE  IInv'
<1>1. l \in 1..Len(lines)
  BY DEF AtLine, ReadNumber, MoreAttributes
<1>2. lines[l] \in Line
  BY <1>1 DEF AtLine
<1>3. lines[l].attributes \in Seq([name : STRING, value : Seq(STRING)])
  BY <1>2 DEF Line
<1>4. a \in 1..Len(lines[l].attributes)
  BY <1>3 DEF AtLine, ReadNumber, MoreAttributes
<1>5. Attribute \in [name : STRING, value : Seq(STRING)]
  <2> DEFINE R == [name : STRING, value : Seq(STRING)]
             s == lines[l].attributes
  <2>1. s \in Seq(R) /\ a \in 1..Len(s)
    BY <1>3, <1>4
  <2> HIDE DEF R, s
  <2>2. s[a] \in R
    BY <2>1, ElementOfSeq
  <2> QED
    BY <2>2 DEF R, s, Attribute
<1>6. Attribute.value \in Seq(STRING) /\ <<>> \in Seq(STRING)
  BY <1>5
<1>7. Call(Attribute.value) \/ Call(<<>>)
  BY DEF ReadNumber
<1>8. \A s \in Seq(STRING) : Call(s) => IInv'
  BY CallInv
<1> QED
  BY ONLY <1>6, <1>7, <1>8

LEMMA LoopSteps ==
  ASSUME AtLine, [Next]_vars
  PROVE  /\ AtLine'
         /\ EvaluatorStep \/ ReadNumber \/ UNCHANGED evaluatorVars
<1>1. Len(lines) \in Nat
  BY DEF AtLine
<1>2. CASE StartLine \/ EndOfFile
  BY <1>1, <1>2 DEF StartLine, EndOfFile, AtLine
<1>3. CASE ReadNumber \/ Evaluate \/ StoreNumber \/ EvaluatorFails
  BY <1>1, <1>3 DEF ReadNumber, Evaluate, StoreNumber, EvaluatorFails, AtLine, MoreAttributes, loopVars
<1>4. CASE ReadName \/ ReadSparse \/ IgnoreAttribute
  BY <1>1, <1>4 DEF ReadName, ReadSparse, IgnoreAttribute, AtLine, MoreAttributes
<1>5. CASE SkipLine \/ OpenSimlock \/ WriteImage \/ WriteSimlock
  BY <1>1, <1>5 DEF SkipLine, OpenSimlock, WriteImage, WriteSimlock, AtLine, AttributesRead
<1>6. CASE UNCHANGED vars
  BY <1>6 DEF vars, AtLine, evaluatorVars
<1> QED
  BY <1>2, <1>3, <1>4, <1>5, <1>6 DEF Next

\* The arrays of the evaluator suffice for every rawprogram0.xml whose numeric
\* attributes, the number of sectors put in, have no more than 16 characters.
THEOREM StacksSuffice == Spec => []ShortTextsFit
<1>1. Init => IInv /\ AtLine
  BY InitInv
<1>2. IInv /\ AtLine /\ [Next]_vars => (IInv /\ AtLine)'
  BY LoopSteps, EvaluatorInv, ReadNumberInv, StutterInv
<1>3. IInv => ShortTextsFit
  BY DEF IInv
<1> QED
  BY <1>1, <1>2, <1>3, PTL DEF Spec

(***************************************************************************)
(* Types.  Every number that strtoul has returned fits size_t, since       *)
(* number_buffer is short, and so does what is calculated from it.         *)
(***************************************************************************)
Word == 0..(WordSize - 1)

Ranged ==
    /\ numbers \in Seq(Word) /\ calc \in Seq(Word)
    /\ \A n \in 1..Len(postfix) : postfix[n].op = "n" => postfix[n].k \in 1..Len(numbers)
    /\ from <= i
    /\ pc = "scan" /\ from # 0 => \A q \in from..(i - 1) : text[q] \in DigitSet

AtField ==
    /\ l <= Len(lines) + 1
    /\ pass \in {"program", "simlock"}
    /\ at \in {"line", "attribute", "number", "end", "exit"}

LEMMA NumberInWord ==
  ASSUME IInv, Ranged, EndNumber, ~(i - from > DigitLimit)
  PROVE  NumberOf(SubSeq(text, from, i - 1)) \in Word
<1> DEFINE n == i - from
           s == [k \in 1..n |-> text[k + from - 1]]
<1>1. /\ text \in Seq(STRING) /\ from \in 1..(i - 1) /\ i \in Nat /\ DigitLimit \in Nat
      /\ \A q \in from..(i - 1) : text[q] \in DigitSet
  BY SizesFit DEF IInv, Typed, Scanned, Inside, Ranged, EndNumber
<1>2. n \in 1..DigitLimit
  BY <1>1
<1>3. SubSeq(text, from, i - 1) = s
  BY <1>1
<1>4. s \in [1..n -> DigitSet]
  <2>1. \A k \in 1..n : text[k + from - 1] \in DigitSet
    BY <1>1
  <2> QED
    BY <2>1
<1> HIDE DEF n, s
<1> QED
  BY <1>2, <1>3, <1>4, NumbersFitWord DEF Word

LEMMA ApplyInWord ==
  ASSUME NEW op \in Operators, NEW x \in Word, NEW y \in Word, op = "/" => y # 0
  PROVE  Apply(op, x, y) \in Word
<1>1. WordSize \in Nat \ {0} /\ x \in Nat /\ y \in Nat
  BY SizesFit DEF Word
<1>2. \A z \in Int : z % WordSize \in Word
  BY <1>1 DEF Word
<1>3. x + y \in Int /\ x - y \in Int /\ x * y \in Int
  BY <1>1
<1>4. y # 0 => x \div y \in Int
  BY <1>1
<1>5. CASE op \in {"+", "-", "*"}
  BY <1>2, <1>3, <1>5 DEF Apply
<1>6. CASE op = "/"
  BY <1>2, <1>4, <1>6 DEF Apply
<1> QED
  BY <1>5, <1>6 DEF Operators

\* The steps that leave the numbers alone.
LEMMA QuietRanged ==
  ASSUME IInv, IInv', Ranged, UNCHANGED <<numbers, calc>>,
         ReplaceWord \/ CopyToBuffer \/ RemovePoint \/ PointsRemoved
           \/ BeginNumber \/ InNumber \/ OpenParen \/ CloseParen \/ Operator \/ OtherChar
           \/ EndScan \/ UnclosedParen \/ Calculated
  PROVE  Ranged'
<1>1. i \in Nat /\ from \in Nat /\ i' \in Nat /\ from' \in Nat
  BY DEF IInv, Typed
<1>2. \A n \in 1..Len(postfix') : postfix'[n].op = "n" => postfix'[n].k \in 1..Len(numbers')
  <2>1. CASE pc' \in {"scan", "calc"}
    BY <2>1 DEF IInv, Ordered, InOrder
  <2>2. CASE UNCHANGED postfix
    BY <2>2 DEF Ranged
  <2> QED
    BY <2>1, <2>2
       DEF ReplaceWord, CopyToBuffer, RemovePoint, PointsRemoved, Replace, BeginNumber, InNumber,
           OpenParen, CloseParen, Operator, OtherChar, EndScan, UnclosedParen, Calculated
<1>3. from' <= i' /\ (pc' = "scan" /\ from' # 0 => \A q \in from'..(i' - 1) : text'[q] \in DigitSet)
  <2>1. CASE ReplaceWord \/ CopyToBuffer \/ RemovePoint \/ PointsRemoved
    <3>1. from = 0
      BY <2>1 DEF IInv, Fresh, ReplaceWord, CopyToBuffer, RemovePoint, PointsRemoved
    <3>2. from' = 0
      BY <2>1, <3>1 DEF ReplaceWord, CopyToBuffer, RemovePoint, PointsRemoved, Replace
    <3> QED
      BY <1>1, <3>2
  <2>2. CASE OpenParen \/ CloseParen \/ Operator \/ OtherChar \/ EndScan
    <3>1. from' = 0
      BY <2>2 DEF OpenParen, CloseParen, Operator, OtherChar, EndScan
    <3> QED
      BY <1>1, <3>1
  <2>3. CASE BeginNumber
    <3>1. text[i] \in DigitSet
      BY <2>3 DEF BeginNumber, Ch, DigitSet
    <3> QED
      BY <1>1, <2>3, <3>1 DEF BeginNumber
  <2>4. CASE InNumber
    <3>1. text[i] \in DigitSet
      BY <2>4 DEF InNumber, Ch, DigitSet
    <3>2. /\ pc = "scan" /\ from # 0 /\ from' = from /\ i' = i + 1 /\ text' = text
          /\ from <= i /\ \A q \in from..(i - 1) : text[q] \in DigitSet
      BY <2>4 DEF InNumber, Ranged
    <3>3. \A q \in from..i : q = i \/ q \in from..(i - 1)
      BY <1>1
    <3> QED
      BY <1>1, <3>1, <3>2, <3>3
  <2>5. CASE UnclosedParen \/ Calculated
    BY <2>5 DEF UnclosedParen, Calculated, Ranged
  <2> QED
    BY <2>1, <2>2, <2>3, <2>4, <2>5
<1> QED
  BY <1>2, <1>3 DEF Ranged

LEMMA EndNumberRanged ==
  ASSUME IInv, IInv', Ranged, EndNumber
  PROVE  Ranged'
<1>1. from' = 0 /\ i' = i /\ calc' = calc /\ i \in Nat
  BY DEF EndNumber, IInv, Typed
<1>2. CASE pc' = "scan"
  <2>1. /\ ~(i - from > DigitLimit)
        /\ numbers' = Append(numbers, NumberOf(SubSeq(text, from, i - 1)))
    BY <1>2 DEF EndNumber
  <2>2. numbers' \in Seq(Word)
    BY <2>1, NumberInWord DEF Ranged
  <2> QED
    BY <1>1, <1>2, <2>2 DEF Ranged, IInv, Ordered, InOrder
<1>3. CASE pc' # "scan"
  BY <1>1, <1>3 DEF EndNumber, Ranged
<1> QED
  BY <1>2, <1>3

LEMMA CalcRanged ==
  ASSUME IInv, Ranged, PushNumber \/ Operate
  PROVE  Ranged'
<1>1. /\ i \in Nat /\ i' = i + 1 /\ UNCHANGED <<text, from, postfix, numbers>> /\ pc = "calc"
      /\ i \in 1..Len(postfix) /\ pc' # "scan"
  BY DEF PushNumber, Operate, IInv, Typed, Held
<1>2. calc' \in Seq(Word)
  <2>1. CASE calc' = calc
    BY <2>1 DEF Ranged
  <2>2. CASE PushNumber /\ calc' # calc
    <3>1. calc' = Append(calc, numbers[postfix[i].k])
      BY <2>2 DEF PushNumber
    <3>2. numbers[postfix[i].k] \in Word
      BY <1>1, <2>2 DEF PushNumber, Ranged
    <3> QED
      BY <3>1, <3>2 DEF Ranged
  <2>3. CASE Operate /\ calc' # calc
    <3> DEFINE n == Len(calc)
               x == Apply(postfix[i].op, calc[n - 1], calc[n])
    <3>1. /\ n \in Nat /\ n >= 2 /\ postfix[i].op \in Operators
          /\ postfix[i].op = "/" => calc[n] # 0
          /\ calc' = Append(SubSeq(calc, 1, n - 2), x)
      BY <2>3 DEF Operate, Ranged
    <3>2. calc[n - 1] \in Word /\ calc[n] \in Word
      BY <3>1 DEF Ranged
    <3>3. x \in Word
      BY <3>1, <3>2, ApplyInWord
    <3>4. SubSeq(calc, 1, n - 2) \in Seq(Word)
      BY <3>1, FrontPart DEF Ranged
    <3> HIDE DEF x
    <3> QED
      BY <3>1, <3>3, <3>4
  <2> QED
    BY <2>1, <2>2, <2>3
<1> QED
  BY <1>1, <1>2 DEF Ranged, IInv, Typed

LEMMA RangedNext ==
  ASSUME IInv, IInv', Ranged, EvaluatorStep \/ ReadNumber \/ UNCHANGED evaluatorVars
  PROVE  Ranged'
<1>1. CASE EndNumber
  BY <1>1, EndNumberRanged
<1>2. CASE PushNumber \/ Operate
  BY <1>2, CalcRanged
<1>3. CASE EvaluatorStep /\ ~EndNumber /\ ~PushNumber /\ ~Operate
  <2>1. UNCHANGED <<numbers, calc>>
    BY <1>3 DEF EvaluatorStep, ReplaceWord, CopyToBuffer, RemovePoint, PointsRemoved, Replace,
                BeginNumber, InNumber, OpenParen, CloseParen, Operator, OtherChar, EndScan,
                UnclosedParen, Calculated
  <2> QED
    BY <1>3, <2>1, QuietRanged DEF EvaluatorStep
<1>4. CASE ReadNumber
  <2>1. PICK s : Call(s)
    BY <1>4 DEF ReadNumber
  <2>2. <<>> \in Seq(Word) /\ Len(<<>>) = 0
    OBVIOUS
  <2> QED
    BY <2>1, <2>2 DEF Call, Ranged
<1>5. CASE UNCHANGED evaluatorVars
  BY <1>5 DEF evaluatorVars, Ranged
<1> QED
  BY <1>1, <1>2, <1>3, <1>4, <1>5 DEF EvaluatorStep

LEMMA FieldNext ==
  ASSUME AtLine, AtField, [Next]_vars
  PROVE  AtField'
<1>1. l \in Nat /\ Len(lines) \in Nat
  BY DEF AtLine
<1>2. CASE StartLine \/ EndOfFile
  BY <1>1, <1>2 DEF StartLine, EndOfFile, AtField
<1>3. CASE ReadNumber \/ Evaluate \/ StoreNumber \/ EvaluatorFails
  BY <1>3 DEF ReadNumber, Evaluate, StoreNumber, EvaluatorFails, AtField, loopVars
<1>4. CASE ReadName \/ ReadSparse \/ IgnoreAttribute
  BY <1>4 DEF ReadName, ReadSparse, IgnoreAttribute, AtField
<1>5. CASE SkipLine \/ OpenSimlock \/ WriteImage \/ WriteSimlock
  BY <1>1, <1>5 DEF SkipLine, OpenSimlock, WriteImage, WriteSimlock, AtField, AtLine, AttributesRead
<1>6. CASE UNCHANGED vars
  BY <1>6 DEF vars, AtField
<1> QED
  BY <1>2, <1>3, <1>4, <1>5, <1>6 DEF Next

LEMMA TypesFollow == IInv /\ AtLine /\ Ranged /\ AtField => TypeOK
<1> SUFFICES ASSUME IInv, AtLine, Ranged, AtField PROVE TypeOK
  OBVIOUS
<1>1. /\ l \in 1..(Len(lines) + 1) /\ a \in Nat /\ pass \in {"program", "simlock"}
      /\ at \in {"line", "attribute", "number", "end", "exit"}
  BY DEF AtLine, AtField
<1>2. /\ text \in Seq(STRING) /\ from \in 0..i
      /\ pc = "scan" => i \in 1..(Len(text) + 1)
      /\ pc = "calc" => i \in 1..(Len(postfix) + 1)
      /\ ops \in Seq(Operators \union {"("})
  BY DEF IInv, Typed, Scanned, Held, Ranged, OpChars
<1>3. \A n \in DOMAIN postfix :
        IF postfix[n].op = "n" THEN postfix[n].k \in DOMAIN numbers
                               ELSE postfix[n].op \in Operators \union {"("}
  <2>1. /\ DOMAIN postfix = 1..Len(postfix) /\ DOMAIN numbers = 1..Len(numbers)
        /\ \A n \in 1..Len(postfix) : postfix[n] \in Entry
    BY DEF IInv, Typed, Ranged
  <2> QED
    BY <2>1 DEF Ranged, Entry, OpChars
<1>4. /\ \A n \in DOMAIN numbers : numbers[n] \in 0..(WordSize - 1)
      /\ \A n \in DOMAIN calc : calc[n] \in 0..(WordSize - 1)
  <2>1. /\ \A n \in DOMAIN numbers : numbers[n] \in Word
        /\ \A n \in DOMAIN calc : calc[n] \in Word
    BY DEF Ranged
  <2> QED
    BY <2>1 DEF Word
<1> QED
  BY <1>1, <1>2, <1>3, <1>4 DEF TypeOK

LEMMA InitRanged == Init => Ranged /\ AtField
<1> SUFFICES ASSUME Init PROVE Ranged /\ AtField
  OBVIOUS
<1>1. \A S : <<>> \in Seq(S) /\ Len(<<>>) = 0
  OBVIOUS
<1>2. Ranged
  BY <1>1 DEF Init, EvaluatorInit, Ranged
<1>3. AtField
  BY FilesAreText DEF Init, AtField
<1> QED
  BY <1>2, <1>3

\* For every rawprogram0.xml the loop is at a line and an attribute there are,
\* and the evaluator at a place of its buffer, with numbers of a size_t.
THEOREM TypeCorrect == Spec => []TypeOK
<1>1. Init => IInv /\ AtLine /\ Ranged /\ AtField
  BY InitInv, InitRanged
<1>2. IInv /\ AtLine /\ Ranged /\ AtField /\ [Next]_vars => (IInv /\ AtLine /\ Ranged /\ AtField)'
  <2> SUFFICES ASSUME IInv, AtLine, Ranged, AtField, [Next]_vars
               PROVE  (IInv /\ AtLine /\ Ranged /\ AtField)'
    OBVIOUS
  <2>1. AtLine' /\ (EvaluatorStep \/ ReadNumber \/ UNCHANGED evaluatorVars)
    BY LoopSteps
  <2>2. IInv'
    BY <2>1, EvaluatorInv, ReadNumberInv, StutterInv
  <2> QED
    BY <2>1, <2>2, RangedNext, FieldNext
<1>3. IInv /\ AtLine /\ Ranged /\ AtField => TypeOK
  BY TypesFollow
<1> QED
  BY <1>1, <1>2, <1>3, PTL DEF Spec
-----------------------------------------------------------------------------
(***************************************************************************)
(* The lines of rawprogram0.xml.  Means is what a line says of a field;    *)
(* Filled, that the record that is being filled has it for the attributes  *)
(* that were read; it starts with none, so that nothing is said of what a  *)
(* line before has left.                                                   *)
(***************************************************************************)
Means(line, f) ==
    IF f \in NumberFields THEN Number(line, f)
    ELSE IF f = "sparse" THEN ValueOf(line, f) = <<"true">>
    ELSE ValueOf(line, f)

Has(p, line, f) == p[f] = Means(line, f) /\ (f \in NumberFields => p[f] \in Int)

Filled(p, line, n) ==
    \A m \in 1..n : line.attributes[m].name \in Fields => Has(p, line, line.attributes[m].name)

Record(p) == p = [f \in Fields |-> p[f]]

\* The value the evaluator is at work on is that of the current attribute.
Reading ==
    /\ Record(program) /\ Record(slk)
    /\ pc = "done" => result \in Int
    /\ at \in {"attribute", "number"} => lines[l].isProgram
    /\ at = "number" =>
         /\ a <= Len(lines[l].attributes) /\ Attribute.name \in NumberFields
         /\ Attribute.value \notin TooLong => source = Attribute.value

Filling ==
    at \in {"attribute", "number"} =>
        \A line \in {lines[l]}, p \in {program}, s \in {slk} :
            Complete(line) =>
                /\ pass = "program" => Filled(p, line, a - 1)
                /\ pass = "simlock" =>
                     /\ Filled(s, line, a - 1)
                     /\ \A f \in Fields : Has(p, line, f)
                     /\ p["filename"] \in Present /\ ViaSimlock

\* writes so far, for the lines before the current one.
Written ==
    /\ \E S : writes \in Seq(S)
    /\ \A n \in 1..Len(writes) : writes[n].line \in 1..(l - 1)
    /\ \A m, n \in 1..Len(writes) : m < n => writes[m].line < writes[n].line
    /\ \A n \in 1..Len(writes) : \A j \in {writes[n].line} : \A line \in {lines[j]} :
         Complete(line) => Due(line) /\ writes[n] = Asked(line, j)
    /\ \A j \in 1..(l - 1) : \A line \in {lines[j]} :
         Due(line) => \E n \in 1..Len(writes) : writes[n].line = j

LEMMA OnlyAttribute ==
  ASSUME NEW line \in Line, Complete(line), NEW m \in 1..Len(line.attributes),
         line.attributes[m].name \in Fields
  PROVE  LET f == line.attributes[m].name
         IN  ValueOf(line, f) = line.attributes[m].value /\ ValueOf(line, f) \notin TooLong
<1> DEFINE f == line.attributes[m].name
           G == Given(line, f)
<1>1. line.attributes \in Seq([name : STRING, value : Seq(STRING)])
  BY DEF Line
<1>2. DOMAIN line.attributes = 1..Len(line.attributes) /\ Len(line.attributes) \in Nat
  BY <1>1
<1>3. G \in SUBSET (1..Len(line.attributes)) /\ m \in G
  BY <1>2 DEF Given
<1>4. Cardinality(G) = 1 /\ ValueOf(line, f) \notin TooLong
  BY DEF Complete
<1> HIDE DEF G
<1>5. IsFiniteSet(1..Len(line.attributes))
  BY <1>2, FS_Interval
<1>6. IsFiniteSet(G)
  BY <1>3, <1>5, FS_Subset
<1>7. PICK x : G = {x}
  BY <1>4, <1>6, FS_Singleton
<1>8. (CHOOSE n \in G : TRUE) = m
  BY <1>3, <1>7
<1> QED
  BY <1>4, <1>8 DEF ValueOf, G

LEMMA GivenSomewhere ==
  ASSUME NEW line \in Line, Complete(line), NEW f \in Fields
  PROVE  \E m \in 1..Len(line.attributes) : line.attributes[m].name = f
<1> DEFINE G == Given(line, f)
<1>1. line.attributes \in Seq([name : STRING, value : Seq(STRING)])
  BY DEF Line
<1>2. DOMAIN line.attributes = 1..Len(line.attributes) /\ Len(line.attributes) \in Nat
  BY <1>1
<1>3. G \in SUBSET (1..Len(line.attributes)) /\ Cardinality(G) = 1
  BY <1>2 DEF Given, Complete
<1> HIDE DEF G
<1>4. IsFiniteSet(G)
  <2>1. 1 \in Int /\ Len(line.attributes) \in Int
    BY <1>2
  <2>2. IsFiniteSet(1..Len(line.attributes))
    BY <2>1, FS_Interval
  <2> QED
    BY <1>3, <2>2, FS_Subset
<1>5. PICK x : G = {x}
  BY <1>3, <1>4, FS_Singleton
<1>6. x \in 1..Len(line.attributes) /\ x \in G
  BY <1>3, <1>5
<1> QED
  BY <1>6 DEF G, Given

LEMMA AllFilled ==
  ASSUME NEW line \in Line, Complete(line), NEW p, NEW n \in Int, Len(line.attributes) <= n,
         Filled(p, line, n), NEW f \in Fields
  PROVE  Has(p, line, f)
<1>1. PICK m \in 1..Len(line.attributes) : line.attributes[m].name = f
  BY GivenSomewhere
<1>2. Len(line.attributes) \in Nat
  <2>1. line.attributes \in Seq([name : STRING, value : Seq(STRING)])
    BY DEF Line
  <2> QED
    BY <2>1
<1>3. m \in 1..n
  BY <1>1, <1>2
<1> QED
  BY <1>1, <1>3 DEF Filled

\* One more attribute.
LEMMA FillOne ==
  ASSUME NEW line, NEW p, Record(p), NEW n \in Nat, Filled(p, line, n),
         NEW f \in Fields, NEW v, line.attributes[n + 1].name = f,
         v = Means(line, f), f \in NumberFields => v \in Int
  PROVE  Filled([p EXCEPT ![f] = v], line, n + 1)
<1> DEFINE q == [p EXCEPT ![f] = v]
<1>1. q[f] = v /\ \A g \in Fields \ {f} : q[g] = p[g]
  BY DEF Record
<1> HIDE DEF q
<1>2. \A m \in 1..(n + 1) : m \in 1..n \/ m = n + 1
  OBVIOUS
<1> SUFFICES ASSUME NEW m \in 1..(n + 1), line.attributes[m].name \in Fields
             PROVE  Has(q, line, line.attributes[m].name)
  BY DEF Filled, q
<1>3. CASE line.attributes[m].name = f
  BY <1>1, <1>3 DEF Has
<1>4. CASE line.attributes[m].name # f
  <2>1. m \in 1..n
    BY <1>2, <1>4
  <2>2. Has(p, line, line.attributes[m].name)
    BY <2>1 DEF Filled
  <2> QED
    BY <1>1, <1>4, <2>2 DEF Has
<1> QED
  BY <1>3, <1>4

LEMMA StoredRecord ==
  ASSUME NEW p, Record(p), NEW f, NEW v
  PROVE  Record([p EXCEPT ![f] = v])
BY DEF Record

(***************************************************************************)
(* The actions of the loop.                                                *)
(***************************************************************************)
LEMMA CurrentLine ==
  ASSUME AtLine, at \in {"attribute", "number"}
  PROVE  /\ lines[l] \in Line /\ l \in 1..Len(lines)
         /\ lines[l].attributes \in Seq([name : STRING, value : Seq(STRING)])
         /\ Len(lines[l].attributes) \in Nat
<1>1. l \in 1..Len(lines)
  BY DEF AtLine
<1>2. lines[l] \in Line
  BY <1>1 DEF AtLine
<1>3. lines[l].attributes \in Seq([name : STRING, value : Seq(STRING)])
  BY <1>2 DEF Line
<1> QED
  BY <1>1, <1>2, <1>3

\* What the evaluator does not touch; its result is a number.
LEMMA EvaluatorKeeps ==
  ASSUME IInv, Ranged, EvaluatorStep
  PROVE  source' = source /\ (pc' = "done" => result' \in Int)
<1>1. CASE Calculated
  <2>1. pc' = "done" => calc # <<>> /\ result' = calc[Len(calc)]
    BY <1>1 DEF Calculated
  <2>2. pc' = "done" => Len(calc) \in 1..Len(calc)
    BY <2>1 DEF Ranged
  <2>3. pc' = "done" => result' \in Word
    BY <2>1, <2>2 DEF Ranged
  <2>4. \A x \in Word : x \in Int
    BY DEF Word
  <2> QED
    BY <1>1, <2>3, <2>4 DEF Calculated
<1>2. CASE EvaluatorStep /\ ~Calculated
  BY <1>2 DEF EvaluatorStep, ReplaceWord, CopyToBuffer, RemovePoint, PointsRemoved, Replace,
              BeginNumber, InNumber, EndNumber, OpenParen, CloseParen, Operator, OtherChar,
              EndScan, PushNumber, Operate, UnclosedParen
<1> QED
  BY <1>1, <1>2

LoopInv == IInv /\ AtLine /\ Ranged /\ AtField /\ Reading /\ Filling /\ Written

\* Steps that fill program or slk with the current attribute, or do not.
LEMMA FillStep ==
  ASSUME LoopInv, at \in {"attribute", "number"}, a <= Len(lines[l].attributes),
         NEW f, NEW v, f = Attribute.name,
         UNCHANGED <<lines, option, l, pass, writes>>, a' = a + 1, at' = "attribute",
         Complete(lines[l]) /\ f \in Fields =>
             /\ Store(f, v) /\ v = Means(lines[l], f) /\ (f \in NumberFields => v \in Int),
         Store(f, v) \/ UNCHANGED <<program, slk>>, f \notin Fields => UNCHANGED <<program, slk>>
  PROVE  Filling' /\ Record(program)' /\ Record(slk)'
<1>1. /\ lines[l] \in Line /\ a \in Nat \ {0} /\ a - 1 \in Nat /\ (a - 1) + 1 = a
      /\ (a + 1) - 1 = a
  BY CurrentLine DEF LoopInv, AtLine
<1>2. Record(program)' /\ Record(slk)'
  BY DEF Store, LoopInv, Reading, Record
<1>3. pass \in {"program", "simlock"}
  BY DEF LoopInv, AtField
<1>4. PICK line, p, s, q, t : line = lines[l] /\ p = program /\ s = slk /\ q = program' /\ t = slk'
  OBVIOUS
<1>5. Record(p) /\ Record(s)
  BY <1>4 DEF LoopInv, Reading
<1>6. Complete(line) =>
        /\ pass = "program" => Filled(p, line, a - 1)
        /\ pass = "simlock" =>
             /\ Filled(s, line, a - 1)
             /\ \A g \in Fields : Has(p, line, g)
             /\ p["filename"] \in Present /\ ViaSimlock
  BY <1>4 DEF LoopInv, Filling
<1>7. line.attributes[(a - 1) + 1].name = f
  BY <1>1, <1>4 DEF Attribute
<1>8. ASSUME NEW r, NEW u, Record(r), Filled(r, line, a - 1), Complete(line),
             u = r \/ u = [r EXCEPT ![f] = v], f \in Fields => u = [r EXCEPT ![f] = v]
      PROVE  Filled(u, line, a) \/ (f \notin Fields /\ u # r)
  <2>1. CASE f \in Fields
    <3>1. v = Means(line, f) /\ (f \in NumberFields => v \in Int)
      BY <1>4, <1>8, <2>1
    <3>2. Filled([r EXCEPT ![f] = v], line, (a - 1) + 1)
      BY <1>1, <1>7, <1>8, <2>1, <3>1, FillOne
    <3> QED
      BY <1>1, <1>8, <2>1, <3>2
  <2>2. CASE f \notin Fields /\ u = r
    BY <1>1, <1>7, <1>8, <2>2 DEF Filled
  <2> QED
    BY <2>1, <2>2
<1>9. Complete(line) =>
        /\ pass = "program" => Filled(q, line, a)
        /\ pass = "simlock" =>
             /\ Filled(t, line, a)
             /\ \A g \in Fields : Has(q, line, g)
             /\ q["filename"] \in Present /\ ViaSimlock'
  <2> SUFFICES ASSUME Complete(line)
               PROVE  /\ pass = "program" => Filled(q, line, a)
                      /\ pass = "simlock" =>
                           /\ Filled(t, line, a)
                           /\ \A g \in Fields : Has(q, line, g)
                           /\ q["filename"] \in Present /\ ViaSimlock'
    OBVIOUS
  <2>1. CASE pass = "program"
    <3>1. /\ q = p \/ q = [p EXCEPT ![f] = v]
          /\ f \in Fields => q = [p EXCEPT ![f] = v]
          /\ f \notin Fields => q = p
      BY <1>4, <2>1 DEF Store
    <3> QED
      BY <1>5, <1>6, <1>8, <2>1, <3>1
  <2>2. CASE pass = "simlock"
    <3>1. /\ t = s \/ t = [s EXCEPT ![f] = v]
          /\ f \in Fields => t = [s EXCEPT ![f] = v]
          /\ f \notin Fields => t = s
      BY <1>4, <2>2 DEF Store
    <3>2. q = p /\ program' = program
      BY <1>4, <2>2 DEF Store
    <3>3. Filled(t, line, a)
      BY <1>5, <1>6, <1>8, <2>2, <3>1
    <3>4. (\A g \in Fields : Has(p, line, g)) /\ p["filename"] \in Present /\ ViaSimlock
      BY <1>6, <2>2
    <3>5. ViaSimlock'
      BY <3>2, <3>4 DEF ViaSimlock
    <3> QED
      BY <2>2, <3>2, <3>3, <3>4, <3>5
  <2> QED
    BY <1>3, <2>1, <2>2
<1>10. Filling'
  BY <1>1, <1>4, <1>9 DEF Filling
<1> QED
  BY <1>2, <1>10

LEMMA AskedStays ==
  ASSUME UNCHANGED option
  PROVE  \A line, j : Asked(line, j)' = Asked(line, j)
BY DEF Asked

\* The line is through without a write, and there was nothing to write.
LEMMA WrittenOn ==
  ASSUME Written, AtLine, UNCHANGED <<lines, option, writes>>, l' = l + 1, ~Due(lines[l])
  PROVE  Written'
<1>1. \A j \in 1..(l' - 1) : j \in 1..(l - 1) \/ (j = l /\ ~Due(lines[j]))
  BY DEF AtLine
<1>2. \A n \in 1..(l - 1) : n \in 1..(l' - 1)
  BY DEF AtLine
<1> QED
  BY <1>1, <1>2, AskedStays DEF Written

\* The line is through with a write of its own, which is right.
LEMMA WrittenMore ==
  ASSUME Written, AtLine, UNCHANGED <<lines, option>>, l' = l + 1,
         NEW w, writes' = Append(writes, w), w.line = l,
         Complete(lines[l]) => Due(lines[l]) /\ w = Asked(lines[l], l)
  PROVE  Written'
<1>1. l \in Nat \ {0} /\ l' - 1 = l
  BY DEF AtLine
<1>2. PICK W : W = writes'
  OBVIOUS
<1>3. /\ \E S : W \in Seq(S)
      /\ Len(W) = Len(writes) + 1 /\ Len(writes) \in Nat
      /\ \A n \in 1..Len(writes) : W[n] = writes[n]
      /\ W[Len(writes) + 1] = w
  <2>1. PICK S : writes \in Seq(S)
    BY DEF Written
  <2>2. \E R : Append(writes, w) \in Seq(R)
    BY <2>1, GrowsByOne
  <2> QED
    BY <1>2, <2>1, <2>2, GrowsByOne
<1>4. \A n \in 1..Len(W) : n \in 1..Len(writes) \/ n = Len(writes) + 1
  BY <1>3
<1>5. \A n \in 1..Len(W) : W[n].line \in 1..l
  BY <1>1, <1>3, <1>4 DEF Written
<1>6. \A m, n \in 1..Len(W) : m < n => W[m].line < W[n].line
  <2> SUFFICES ASSUME NEW m \in 1..Len(W), NEW n \in 1..Len(W), m < n
               PROVE  W[m].line < W[n].line
    OBVIOUS
  <2>1. m \in 1..Len(writes) /\ W[m] = writes[m] /\ writes[m].line \in 1..(l - 1)
    BY <1>3, <1>4 DEF Written
  <2>2. CASE n \in 1..Len(writes)
    BY <1>3, <2>1, <2>2 DEF Written
  <2>3. CASE n = Len(writes) + 1
    BY <1>1, <1>3, <2>1, <2>3
  <2> QED
    BY <1>4, <2>2, <2>3
<1>7. \A n \in 1..Len(W) : \A j \in {W[n].line} : \A line \in {lines[j]} :
        Complete(line) => Due(line) /\ W[n] = Asked(line, j)
  BY <1>3, <1>4 DEF Written
<1>8. \A j \in 1..l : \A line \in {lines[j]} : Due(line) => \E n \in 1..Len(W) : W[n].line = j
  <2> SUFFICES ASSUME NEW j \in 1..l, Due(lines[j])
               PROVE  \E n \in 1..Len(W) : W[n].line = j
    OBVIOUS
  <2>1. CASE j = l
    BY <1>3, <2>1
  <2>2. CASE j # l
    <3>1. PICK n \in 1..Len(writes) : writes[n].line = j
      BY <1>1, <2>2 DEF Written
    <3> QED
      BY <1>3, <3>1
  <2> QED
    BY <2>1, <2>2
<1>9. \A n \in 1..Len(W) : \A j \in {W[n].line} : \A line \in {lines[j]} :
        Complete(line) => Due(line) /\ W[n] = Asked(line, j)'
  BY <1>7, AskedStays
<1>10. \E S : W \in Seq(S)
  BY <1>3
<1>11. W = writes' /\ lines' = lines /\ l' - 1 = l
  BY <1>1, <1>2
<1>12. /\ \E S : writes' \in Seq(S)
       /\ \A n \in 1..Len(writes') : writes'[n].line \in 1..(l' - 1)
       /\ \A m, n \in 1..Len(writes') : m < n => writes'[m].line < writes'[n].line
  BY ONLY <1>5, <1>6, <1>10, <1>11
<1>13. \A j \in 1..(l' - 1) : \A line \in {lines'[j]} :
         Due(line) => \E n \in 1..Len(writes') : writes'[n].line = j
  BY ONLY <1>8, <1>11
<1>14. \A n \in 1..Len(writes') : \A j \in {writes'[n].line} : \A line \in {lines'[j]} :
         Complete(line) => Due(line) /\ writes'[n] = Asked(line, j)'
  BY ONLY <1>9, <1>11
<1> QED
  BY ONLY <1>12, <1>13, <1>14 DEF Written

\* Nothing is written: what was, stays as it is.
LEMMA WrittenStays ==
  ASSUME Written, UNCHANGED <<lines, option, l, writes>>
  PROVE  Written'
BY AskedStays DEF Written

LEMMA AttributeStep ==
  ASSUME LoopInv, ReadName \/ ReadSparse \/ IgnoreAttribute
  PROVE  Reading' /\ Filling' /\ Written'
<1> DEFINE f == Attribute.name
           v == IF f = "sparse" THEN Attribute.value = <<"true">> ELSE Attribute.value
<1>1. /\ at = "attribute" /\ a <= Len(lines[l].attributes) /\ a' = a + 1
      /\ UNCHANGED <<lines, option, l, at, pass, writes, evaluatorVars>>
      /\ f \notin NumberFields /\ (f \notin Fields => UNCHANGED <<program, slk>>)
  BY DEF ReadName, ReadSparse, IgnoreAttribute, MoreAttributes, Fields, NumberFields, NameFields
<1>2. Store(f, v) \/ UNCHANGED <<program, slk>>
  BY DEF ReadName, ReadSparse, IgnoreAttribute, NameFields
<1>3. /\ lines[l] \in Line /\ l \in 1..Len(lines) /\ a \in 1..Len(lines[l].attributes)
  BY <1>1, CurrentLine DEF LoopInv, AtLine
<1>4. ASSUME Complete(lines[l]), f \in Fields
      PROVE  Store(f, v) /\ v = Means(lines[l], f)
  <2>1. ValueOf(lines[l], f) = Attribute.value /\ Attribute.value \notin TooLong
    BY <1>3, <1>4, OnlyAttribute DEF Attribute
  <2>2. f = "sparse" => Attribute.value \in {<<"true">>, <<"false">>}
    BY <1>4, <2>1 DEF Complete
  <2>3. Store(f, v)
    BY <1>4, <2>1, <2>2 DEF ReadName, ReadSparse, IgnoreAttribute, NameFields
  <2>4. v = Means(lines[l], f)
    BY <1>1, <2>1 DEF Means
  <2> QED
    BY <2>3, <2>4
<1> HIDE DEF v
<1>5. Filling' /\ Record(program)' /\ Record(slk)'
  <2>1. at' = "attribute"
    BY <1>1
  <2> QED
    BY <1>1, <1>2, <1>4, <2>1, FillStep
<1>6. Reading'
  BY <1>1, <1>5 DEF Reading, LoopInv, evaluatorVars
<1> QED
  BY <1>1, <1>5, <1>6, WrittenStays DEF LoopInv

LEMMA StoreNumberStep ==
  ASSUME LoopInv, StoreNumber, ValueMatches, NumbersAreDocuments, lines \in Files
  PROVE  Reading' /\ Filling' /\ Written'
<1> DEFINE f == Attribute.name
<1>1. /\ at = "number" /\ pc = "done" /\ a <= Len(lines[l].attributes) /\ a' = a + 1
      /\ at' = "attribute" /\ Store(f, result)
      /\ UNCHANGED <<lines, option, l, pass, writes, evaluatorVars>>
      /\ f \in NumberFields /\ result \in Int
      /\ Attribute.value \notin TooLong => source = Attribute.value
  BY DEF StoreNumber, LoopInv, Reading
<1>2. /\ lines[l] \in Line /\ l \in 1..Len(lines) /\ a \in 1..Len(lines[l].attributes)
      /\ l \in DOMAIN lines /\ f \in Fields
  BY <1>1, CurrentLine DEF LoopInv, AtLine, Fields
<1>3. ASSUME Complete(lines[l])
      PROVE  result = Means(lines[l], f)
  <2>1. ValueOf(lines[l], f) = Attribute.value /\ Attribute.value \notin TooLong
    BY <1>2, <1>3, OnlyAttribute DEF Attribute
  <2>2. ValueOf(lines[l], f) \in Sources
    BY <1>1, <1>2, <1>3 DEF NumbersAreDocuments
  <2> DEFINE d == CHOOSE d \in Documents : d.source = ValueOf(lines[l], f)
  <2>3. d \in Documents /\ d.source = source
    BY <1>1, <2>1, <2>2 DEF Sources
  <2>4. result = Worth(d)
    BY <1>1, <2>3 DEF ValueMatches, Calculates
  <2> QED
    BY <1>1, <2>4 DEF Means, Number
<1>4. Filling' /\ Record(program)' /\ Record(slk)'
  BY <1>1, <1>2, <1>3, FillStep
<1>5. Reading'
  BY <1>1, <1>4 DEF Reading, LoopInv, evaluatorVars
<1> QED
  BY <1>1, <1>4, <1>5, WrittenStays DEF LoopInv

LEMMA StartLineStep ==
  ASSUME LoopInv, StartLine
  PROVE  Reading' /\ Filling' /\ Written'
<1>1. at = "line" /\ l \in Nat \ {0} /\ l <= Len(lines) /\ Len(lines) \in Nat
  BY DEF StartLine, LoopInv, AtLine
<1>2. CASE lines[l].isProgram
  <2>1. /\ at' = "attribute" /\ a' = 1 /\ pass' = "program" /\ program' \in {program, Unset}
        /\ UNCHANGED <<lines, option, l, slk, writes, evaluatorVars>>
    BY <1>2 DEF StartLine
  <2>2. Record(program)' /\ Record(slk)'
    BY <2>1 DEF LoopInv, Reading, Record, Unset
  <2>3. Reading'
    BY <1>2, <2>1, <2>2 DEF LoopInv, Reading, evaluatorVars
  <2>4. a' - 1 = 0 /\ \A m \in 1..0 : FALSE
    BY <2>1
  <2>5. Filling'
    BY <2>1, <2>4 DEF Filling, Filled
  <2> QED
    BY <2>1, <2>3, <2>5, WrittenStays DEF LoopInv
<1>3. CASE ~lines[l].isProgram
  <2>1. l' = l + 1 /\ UNCHANGED <<at, program, lines, option, slk, writes, evaluatorVars>>
    BY <1>3 DEF StartLine
  <2>2. Reading' /\ Filling'
    BY <1>1, <2>1 DEF LoopInv, Reading, Record, Filling, evaluatorVars
  <2>3. ~Due(lines[l])
    BY <1>3 DEF Due, Complete
  <2> QED
    BY <2>1, <2>2, <2>3, WrittenOn DEF LoopInv
<1> QED
  BY <1>2, <1>3

LEMMA NumberSteps ==
  ASSUME LoopInv, ReadNumber \/ Evaluate \/ EvaluatorFails \/ EndOfFile
  PROVE  Reading' /\ Filling' /\ Written'
<1>1. UNCHANGED <<lines, option, l, a, pass, program, slk, writes>>
  BY DEF ReadNumber, Evaluate, EvaluatorFails, EndOfFile, loopVars
<1>2. Record(program)' /\ Record(slk)'
  BY <1>1 DEF LoopInv, Reading, Record
<1>3. at' \in {"attribute", "number"} => at \in {"attribute", "number"}
  BY DEF ReadNumber, Evaluate, EvaluatorFails, EndOfFile, loopVars, MoreAttributes
<1>4. Filling'
  BY <1>1, <1>3 DEF LoopInv, Filling, ViaSimlock
<1>5. Reading'
  <2>1. CASE ReadNumber
    <3>1. /\ at = "attribute" /\ at' = "number" /\ a <= Len(lines[l].attributes)
          /\ Attribute.name \in NumberFields /\ pc' = "sectors"
          /\ source' = IF Attribute.value \in TooLong THEN <<>> ELSE Attribute.value
      BY <2>1 DEF ReadNumber, MoreAttributes, Call
    <3> QED
      BY <1>1, <1>2, <3>1 DEF LoopInv, Reading, Attribute
  <2>2. CASE Evaluate
    <3>1. at = "number" /\ at' = "number" /\ EvaluatorStep
      BY <2>2 DEF Evaluate, loopVars
    <3>2. source' = source /\ (pc' = "done" => result' \in Int)
      BY <3>1, EvaluatorKeeps DEF LoopInv
    <3> QED
      BY <1>1, <1>2, <3>1, <3>2 DEF LoopInv, Reading, Attribute
  <2>3. CASE EvaluatorFails \/ EndOfFile
    <3>1. at' \in {"exit", "end"} /\ UNCHANGED evaluatorVars
      BY <2>3 DEF EvaluatorFails, EndOfFile
    <3> QED
      BY <1>1, <1>2, <3>1 DEF LoopInv, Reading, evaluatorVars
  <2> QED
    BY <2>1, <2>2, <2>3
<1> QED
  BY <1>1, <1>4, <1>5, WrittenStays DEF LoopInv

\* At the end of a line every field of a complete one has been filled.
LEMMA LineFilled ==
  ASSUME LoopInv, AttributesRead, Complete(lines[l])
  PROVE  /\ \A f \in Fields : Has(program, lines[l], f)
         /\ pass = "simlock" => /\ \A f \in Fields : Has(slk, lines[l], f)
                               /\ program["filename"] \in Present /\ ViaSimlock
<1>1. /\ lines[l] \in Line /\ a - 1 \in Int /\ Len(lines[l].attributes) <= a - 1
      /\ pass \in {"program", "simlock"} /\ at = "attribute"
  BY CurrentLine DEF LoopInv, AtLine, AttributesRead, AtField
<1>2. PICK line, p, s : line = lines[l] /\ p = program /\ s = slk
  OBVIOUS
<1>3. /\ pass = "program" => Filled(p, line, a - 1)
      /\ pass = "simlock" =>
           /\ Filled(s, line, a - 1)
           /\ \A f \in Fields : Has(p, line, f)
           /\ p["filename"] \in Present /\ ViaSimlock
  BY <1>1, <1>2 DEF LoopInv, Filling
<1>4. \A r : Filled(r, line, a - 1) => \A f \in Fields : Has(r, line, f)
  BY <1>1, <1>2, AllFilled
<1> QED
  BY <1>1, <1>2, <1>3, <1>4

LEMMA FieldMeans ==
  ASSUME NEW line, NEW p, \A f \in Fields : Has(p, line, f)
  PROVE  /\ p["filename"] = ValueOf(line, "filename") /\ p["label"] = ValueOf(line, "label")
         /\ p["sparse"] = (ValueOf(line, "sparse") = <<"true">>)
         /\ \A f \in NumberFields : p[f] = Number(line, f) /\ p[f] \in Int
BY DEF Has, Means, Fields, NumberFields, NameFields

LEMMA SkipLineStep ==
  ASSUME LoopInv, SkipLine
  PROVE  Reading' /\ Filling' /\ Written'
<1>1. /\ AttributesRead /\ program["filename"] \notin Present /\ l' = l + 1 /\ at' = "line"
      /\ UNCHANGED <<lines, option, program, slk, writes, evaluatorVars>>
  BY DEF SkipLine
<1>2. ~Due(lines[l])
  <2> SUFFICES ASSUME Complete(lines[l]), ValueOf(lines[l], "filename") \in Present PROVE FALSE
    BY DEF Due
  <2>1. program["filename"] = ValueOf(lines[l], "filename")
    BY <1>1, LineFilled, FieldMeans
  <2> QED
    BY <1>1, <2>1
<1>3. Reading' /\ Filling'
  BY <1>1 DEF LoopInv, Reading, Record, Filling, evaluatorVars
<1> QED
  BY <1>1, <1>2, <1>3, WrittenOn DEF LoopInv

LEMMA OpenSimlockStep ==
  ASSUME LoopInv, OpenSimlock
  PROVE  Reading' /\ Filling' /\ Written'
<1>1. /\ AttributesRead /\ at = "attribute" /\ at' = "attribute" /\ pass' = "simlock" /\ a' = 1
      /\ program["filename"] \in Present /\ ViaSimlock /\ slk' = Unset
      /\ UNCHANGED <<lines, option, l, program, writes, evaluatorVars>>
  BY DEF OpenSimlock, AttributesRead
<1>2. Reading'
  BY <1>1 DEF LoopInv, Reading, Record, Unset, evaluatorVars
<1>3. Filling'
  <2>0. ViaSimlock'
    BY <1>1 DEF ViaSimlock
  <2>1. ViaSimlock' /\ a' - 1 = 0 /\ \A m \in 1..0 : FALSE
    BY <1>1, <2>0
  <2>2. PICK line, p : line = lines[l] /\ p = program
    OBVIOUS
  <2>3. Complete(line) => \A f \in Fields : Has(p, line, f)
    BY <1>1, <2>2, LineFilled
  <2>4. \A s : Filled(s, line, 0)
    BY <2>1 DEF Filled
  <2> QED
    BY <1>1, <2>1, <2>2, <2>3, <2>4 DEF Filling
<1> QED
  BY <1>1, <1>2, <1>3, WrittenStays DEF LoopInv

\* The order that a complete line gives.
LEMMA OrderAsked ==
  ASSUME NEW p, \A f \in Fields : Has(program, lines[l], f), \A f \in Fields : Has(p, lines[l], f),
         NEW via, via = Asked(lines[l], l).via
  PROVE  Order(via, p) = Asked(lines[l], l)
<1>1. PICK line, q : line = lines[l] /\ q = program
  OBVIOUS
<1>2. /\ q["filename"] = ValueOf(line, "filename")
      /\ \A f \in NumberFields : q[f] = Number(line, f) /\ q[f] \in Int /\ p[f] = Number(line, f)
  BY <1>1, FieldMeans
<1>3. q["file_sector_offset"] # Garbage /\ q["SECTOR_SIZE_IN_BYTES"] # Garbage
  BY <1>2, GarbageIsNoValue DEF NumberFields
<1>4. ByteOffset(q) = (Number(line, "file_sector_offset") * Number(line, "SECTOR_SIZE_IN_BYTES")) % WordSize
  BY <1>2, <1>3 DEF ByteOffset, NumberFields
<1> QED
  BY <1>1, <1>2, <1>4 DEF Order, Asked, NumberFields

LEMMA WriteStep ==
  ASSUME LoopInv, WriteImage \/ WriteSimlock
  PROVE  Reading' /\ Filling' /\ Written'
<1>1. /\ AttributesRead /\ l' = l + 1 /\ at' = "line"
      /\ UNCHANGED <<lines, option, program, slk, evaluatorVars>>
  BY DEF WriteImage, WriteSimlock
<1>2. Reading' /\ Filling'
  BY <1>1 DEF LoopInv, Reading, Record, Filling, evaluatorVars
<1>3. Complete(lines[l]) => \A f \in Fields : Has(program, lines[l], f)
  BY <1>1, LineFilled
<1>4. CASE WriteImage
  <2>1. PICK via \in {"sparse", "general"} :
          /\ program["sparse"] # Garbage => (via = "sparse") = program["sparse"]
          /\ writes' = Append(writes, Order(via, program))
    BY <1>4 DEF WriteImage
  <2>2. program["filename"] \in Present /\ ~ViaSimlock
    BY <1>4 DEF WriteImage
  <2>3. ASSUME Complete(lines[l])
        PROVE  Due(lines[l]) /\ Order(via, program) = Asked(lines[l], l)
    <3>1. /\ program["filename"] = ValueOf(lines[l], "filename")
          /\ program["label"] = ValueOf(lines[l], "label")
          /\ program["sparse"] = (ValueOf(lines[l], "sparse") = <<"true">>)
      BY <1>3, <2>3, FieldMeans
    <3>2. program["sparse"] # Garbage
      BY <3>1, GarbageIsNoValue
    <3>3. via = Asked(lines[l], l).via
      BY <2>1, <2>2, <3>1, <3>2 DEF Asked, ViaSimlock
    <3>4. Order(via, program) = Asked(lines[l], l)
      BY <1>3, <2>3, <3>3, OrderAsked
    <3> QED
      BY <2>2, <2>3, <3>1, <3>4 DEF Due
  <2>4. Order(via, program).line = l
    BY DEF Order
  <2> QED
    BY <1>1, <1>2, <2>1, <2>3, <2>4, WrittenMore DEF LoopInv
<1>5. CASE WriteSimlock
  <2>1. pass = "simlock" /\ writes' = Append(writes, Order("simlock", slk))
    BY <1>5 DEF WriteSimlock
  <2>2. ASSUME Complete(lines[l])
        PROVE  Due(lines[l]) /\ Order("simlock", slk) = Asked(lines[l], l)
    <3>1. /\ \A f \in Fields : Has(slk, lines[l], f)
          /\ program["filename"] \in Present /\ ViaSimlock
      BY <1>1, <2>1, <2>2, LineFilled
    <3>2. /\ program["filename"] = ValueOf(lines[l], "filename")
          /\ program["label"] = ValueOf(lines[l], "label")
      BY <1>3, <2>2, FieldMeans
    <3>3. "simlock" = Asked(lines[l], l).via
      BY <3>1, <3>2 DEF Asked, ViaSimlock
    <3>4. Order("simlock", slk) = Asked(lines[l], l)
      BY <1>3, <2>2, <3>1, <3>3, OrderAsked
    <3> QED
      BY <2>2, <3>1, <3>2, <3>4 DEF Due
  <2>3. Order("simlock", slk).line = l
    BY DEF Order
  <2> QED
    BY <1>1, <1>2, <2>1, <2>2, <2>3, WrittenMore DEF LoopInv
<1> QED
  BY <1>4, <1>5

LEMMA LoopNext ==
  ASSUME LoopInv, [Next]_vars, ValueMatches, NumbersAreDocuments, lines \in Files
  PROVE  Reading' /\ Filling' /\ Written'
<1>1. CASE UNCHANGED vars
  BY <1>1, WrittenStays
     DEF vars, evaluatorVars, LoopInv, Reading, Record, Filling, Attribute, ViaSimlock
<1> QED
  BY <1>1, StartLineStep, NumberSteps, StoreNumberStep, AttributeStep, SkipLineStep,
     OpenSimlockStep, WriteStep
     DEF Next

LEMMA LoopInit ==
  ASSUME Init
  PROVE  Reading /\ Filling /\ Written
<1>1. \A S : <<>> \in Seq(S) /\ Len(<<>>) = 0
  OBVIOUS
<1>2. Len(writes) = 0 /\ (\E S : writes \in Seq(S)) /\ l = 1 /\ at = "line" /\ pc = "idle"
  BY <1>1 DEF Init, EvaluatorInit
<1>3. Written
  BY <1>2 DEF Written
<1>4. Record(program) /\ Record(slk)
  BY DEF Init, Record, Unset
<1> QED
  BY <1>2, <1>3, <1>4 DEF Reading, Filling

LEMMA LeastExists ==
  ASSUME NEW S \in SUBSET Nat, S # {}
  PROVE  \E x \in S : \A y \in S : x <= y
<1> DEFINE R == OpToRel(<, Nat)
<1>1. IsWellFoundedOn(R, Nat)
  BY NatLessThanWellFounded
<1>2. \A x, y \in Nat : y < x => <<y, x>> \in R
  BY DEF OpToRel
<1> HIDE DEF R
<1>3. PICK x \in S : \A y \in S : ~ (<<y, x>> \in R)
  BY <1>1, WFMin
<1>4. \A y \in S : ~(y < x)
  BY <1>2, <1>3
<1> QED
  BY <1>3, <1>4

LEMMA GreatestExists ==
  ASSUME NEW S \in SUBSET Nat, S # {}, NEW n \in Nat, \A y \in S : y <= n
  PROVE  \E x \in S : \A y \in S : y <= x
<1> DEFINE U == {n - y : y \in S}
<1>1. U \in SUBSET Nat /\ U # {}
  <2>1. \A y \in S : n - y \in Nat
    OBVIOUS
  <2>2. PICK y \in S : TRUE
    OBVIOUS
  <2> QED
    BY <2>1, <2>2
<1> HIDE DEF U
<1>2. PICK u \in U : \A v \in U : u <= v
  BY <1>1, LeastExists
<1>3. PICK x \in S : u = n - x
  BY <1>2 DEF U
<1>4. \A y \in S : n - y \in U
  BY DEF U
<1>5. \A y \in S : n - x <= n - y
  BY <1>2, <1>3, <1>4
<1>6. x \in Nat /\ \A y \in S : y \in Nat /\ n - x <= n - y
  BY <1>5
<1> QED
  BY <1>6

(***************************************************************************)
(* The replacements.                                                       *)
(***************************************************************************)

LEMMA OffsetFacts ==
  ASSUME NEW t, NEW c, NEW r, NEW u, NEW w, Substituted(t, c, r, u, w), Len(t) \in Nat
  PROVE  /\ \A n \in 0..Len(t) : w[n] \in Nat
         /\ w[0] = 0 /\ w[Len(t)] = Len(u)
         /\ \A n \in 1..Len(t) :
              /\ t[n] = c => /\ w[n] = w[n - 1] + Len(r)
                            /\ \A k \in 1..Len(r) : u[w[n - 1] + k] = r[k]
              /\ t[n] # c => w[n] = w[n - 1] + 1 /\ u[w[n]] = t[n]
<1>1. w \in [0..Len(t) -> Nat]
  BY DEF Substituted
<1>2. \A n \in 0..Len(t) : w[n] \in Nat
  BY <1>1
<1> QED
  BY <1>2 DEF Substituted

\* Where there is no c, from m + 1 to n, the text is copied.
NoneFrom(t, c, m, n) ==
    m \in 0..Len(t) /\ n \in m..Len(t) /\ \A x \in (m + 1)..n : t[x] # c

LEMMA CopiedStretch ==
  ASSUME NEW t, NEW c, NEW r, NEW u, NEW w, Substituted(t, c, r, u, w), Len(t) \in Nat,
         NEW m, NEW n, NoneFrom(t, c, m, n)
  PROVE  \A x \in m..n : w[x] = w[m] + (x - m)
<1> USE DEF NoneFrom
<1> DEFINE Bad == {x \in m..n : w[x] # w[m] + (x - m)}
<1>1. Bad \in SUBSET Nat
  OBVIOUS
<1>2. SUFFICES ASSUME Bad # {} PROVE FALSE
  OBVIOUS
<1>3. PICK x \in Bad : \A y \in Bad : x <= y
  BY <1>1, <1>2, LeastExists
<1>4. x \in m..n /\ w[x] # w[m] + (x - m)
  BY <1>3
<1>5. w[m] \in Nat /\ w[m] = w[m] + (m - m)
  BY OffsetFacts
<1>6. x # m
  BY <1>4, <1>5
<1>7. x - 1 \in m..n /\ x \in (m + 1)..n /\ x \in 1..Len(t)
  BY <1>4, <1>6
<1>8. x - 1 \notin Bad
  BY <1>3, <1>7
<1>9. w[x - 1] = w[m] + ((x - 1) - m)
  BY <1>7, <1>8
<1>10. w[x] = w[x - 1] + 1
  BY <1>7, OffsetFacts
<1> QED
  BY <1>4, <1>5, <1>7, <1>9, <1>10

\* What has been put together has no c in it.
LEMMA NoneLeft ==
  ASSUME NEW t, NEW c, NEW r, NEW u, NEW w, Substituted(t, c, r, u, w), Len(t) \in Nat,
         Len(r) \in Nat, \A k \in 1..Len(r) : r[k] # c,
         NEW m \in 0..Len(t), NEW x \in 1..w[m]
  PROVE  u[x] # c
<1> DEFINE S == {n \in 0..m : x <= w[n]}
<1>1. S \in SUBSET Nat /\ m \in S /\ S # {}
  <2>1. x \in 1..w[m] /\ w[m] \in Nat
    BY OffsetFacts
  <2> QED
    BY <2>1
<1>2. PICK n \in S : \A y \in S : n <= y
  BY <1>1, LeastExists
<1>3. n \in 0..m /\ x <= w[n] /\ w[0] = 0 /\ x >= 1
  BY <1>2, OffsetFacts
<1>4. n \in 1..Len(t) /\ n - 1 \in 0..m
  BY <1>3
<1>5. n - 1 \notin S
  BY <1>2, <1>3, <1>4
<1>6. w[n - 1] \in Nat /\ w[n] \in Nat /\ x \in Nat
  BY <1>4, OffsetFacts
<1>7. w[n - 1] < x
  BY <1>4, <1>5, <1>6
<1>8. CASE t[n] = c
  <2>1. w[n] = w[n - 1] + Len(r) /\ \A k \in 1..Len(r) : u[w[n - 1] + k] = r[k]
    BY <1>4, <1>8, OffsetFacts
  <2>2. x - w[n - 1] \in 1..Len(r) /\ w[n - 1] + (x - w[n - 1]) = x
    BY <1>3, <1>6, <1>7, <2>1
  <2>3. u[w[n - 1] + (x - w[n - 1])] = r[x - w[n - 1]]
    BY <2>1, <2>2
  <2> QED
    BY <2>2, <2>3
<1>9. CASE t[n] # c
  <2>1. w[n] = w[n - 1] + 1 /\ u[w[n]] = t[n]
    BY <1>4, <1>9, OffsetFacts
  <2>2. x = w[n]
    BY <1>3, <1>6, <1>7, <2>1
  <2> QED
    BY <1>9, <2>1, <2>2
<1> QED
  BY <1>8, <1>9

\* v is t after some turns: n characters of t have been through.
Partway(v, t, u, w) ==
    \E n \in 0..Len(t) :
        /\ Len(v) = w[n] + (Len(t) - n)
        /\ \A x \in 1..w[n] : v[x] = u[x]
        /\ \A k \in 1..(Len(t) - n) : v[w[n] + k] = t[n + k]

LEMMA NoneReplaced ==
  ASSUME NEW t \in Seq(STRING), NEW c, NEW r, NEW u, NEW w, Substituted(t, c, r, u, w)
  PROVE  Partway(t, t, u, w)
<1>1. 0 \in 0..Len(t) /\ w[0] = 0 /\ Len(t) \in Nat
  BY OffsetFacts
<1>2. \A k \in 1..(Len(t) - 0) : t[0 + k] = t[k]
  BY <1>1
<1> QED
  BY <1>1, <1>2 DEF Partway

LEMMA AllReplaced ==
  ASSUME NEW t, NEW c, NEW r, NEW u, NEW w, NEW v,
         Len(t) \in Nat, Len(u) \in Nat, Len(v) \in Nat,
         Substituted(t, c, r, u, w), Partway(v, t, u, w), \A p \in 1..Len(v) : v[p] # c
  PROVE  Len(v) = Len(u) /\ \A x \in 1..Len(v) : v[x] = u[x]
<1>1. PICK n \in 0..Len(t) :
        /\ Len(v) = w[n] + (Len(t) - n)
        /\ \A x \in 1..w[n] : v[x] = u[x]
        /\ \A k \in 1..(Len(t) - n) : v[w[n] + k] = t[n + k]
  BY DEF Partway
<1>2. w[n] \in Nat /\ n \in Nat
  BY OffsetFacts
<1>3. \A k \in 1..(Len(t) - n) : w[n] + k \in 1..Len(v)
  BY <1>1, <1>2
<1>4. \A k \in 1..(Len(t) - n) : t[n + k] # c
  BY <1>1, <1>3
<1>5. \A x \in (n + 1)..Len(t) : t[x] # c
  <2>1. \A x \in (n + 1)..Len(t) : x - n \in 1..(Len(t) - n) /\ n + (x - n) = x
    BY <1>2
  <2> QED
    BY ONLY <1>4, <2>1
<1>6. NoneFrom(t, c, n, Len(t))
  BY <1>5 DEF NoneFrom
<1>7. \A x \in n..Len(t) : w[x] = w[n] + (x - n)
  BY ONLY <1>6, CopiedStretch, Substituted(t, c, r, u, w), Len(t) \in Nat
<1>8. \A x \in 1..Len(t) : t[x] # c => u[w[x]] = t[x]
  BY OffsetFacts
<1>9. Len(v) = Len(u)
  <2>1. w[Len(t)] = w[n] + (Len(t) - n) /\ w[Len(t)] = Len(u)
    BY <1>6, <1>7, OffsetFacts
  <2> QED
    BY <1>1, <2>1
<1>10. \A k \in 1..(Len(t) - n) : v[w[n] + k] = u[w[n] + k]
  <2> TAKE k \in 1..(Len(t) - n)
  <2>1. n + k \in 1..Len(t) /\ n + k \in n..Len(t) /\ (n + k) - n = k
    BY <1>2
  <2>2. w[n + k] = w[n] + ((n + k) - n)
    BY ONLY <1>7, <2>1
  <2>3. u[w[n + k]] = t[n + k]
    BY ONLY <1>4, <1>8, <2>1, k \in 1..(Len(t) - n)
  <2>4. v[w[n] + k] = t[n + k]
    BY <1>1
  <2> QED
    BY ONLY <2>1, <2>2, <2>3, <2>4
<1>11. ASSUME NEW x \in 1..Len(v), x > w[n]
       PROVE  x - w[n] \in 1..(Len(t) - n) /\ w[n] + (x - w[n]) = x
  BY ONLY <1>1, <1>2, <1>11
<1>12. \A x \in 1..Len(v) : v[x] = u[x]
  <2> TAKE x \in 1..Len(v)
  <2>1. CASE x <= w[n]
    BY <1>1, <1>2, <2>1
  <2>2. CASE x > w[n]
    BY <1>10, <1>11, <2>2
  <2> QED
    BY <2>1, <2>2, <1>2
<1> QED
  BY <1>9, <1>12

\* vv is v with r in place of the character at p.
Spliced(vv, v, p, r) ==
    /\ Len(vv) = (p - 1) + Len(r) + (Len(v) - p)
    /\ \A x \in 1..(p - 1) : vv[x] = v[x]
    /\ \A x \in 1..Len(r) : vv[(p - 1) + x] = r[x]
    /\ \A x \in 1..(Len(v) - p) : vv[(p - 1) + Len(r) + x] = v[p + x]

LEMMA SplicedFacts ==
  ASSUME NEW v \in Seq(STRING), NEW r \in Seq(STRING), NEW p \in 1..Len(v)
  PROVE  Spliced(SubSeq(v, 1, p - 1) \o r \o SubSeq(v, p + 1, Len(v)), v, p, r)
<1> DEFINE A == SubSeq(v, 1, p - 1)
           B == SubSeq(v, p + 1, Len(v))
<1>1. /\ A \in Seq(STRING) /\ Len(A) = p - 1
      /\ \A x \in 1..(p - 1) : A[x] = v[x]
  OBVIOUS
<1>2. /\ B \in Seq(STRING) /\ Len(B) = Len(v) - p
      /\ \A x \in 1..(Len(v) - p) : B[x] = v[p + x]
  OBVIOUS
<1> HIDE DEF A, B
<1>3. A \o r \in Seq(STRING) /\ Len(A \o r) = Len(A) + Len(r)
  BY ONLY <1>1, r \in Seq(STRING), ConcatProperties
<1>4. \A x \in 1..Len(A \o r) : (A \o r)[x] = IF x <= Len(A) THEN A[x] ELSE r[x - Len(A)]
  BY ONLY <1>1, r \in Seq(STRING), ConcatProperties
<1>5. Len((A \o r) \o B) = Len(A \o r) + Len(B)
  BY ONLY <1>2, <1>3, ConcatProperties
<1>6. \A x \in 1..Len((A \o r) \o B) :
        ((A \o r) \o B)[x] = IF x <= Len(A \o r) THEN (A \o r)[x] ELSE B[x - Len(A \o r)]
  BY ONLY <1>2, <1>3, ConcatProperties
<1> DEFINE AR == A \o r
           W == AR \o B
<1>7. Len(v) \in Nat /\ Len(r) \in Nat /\ p \in Nat /\ 1 <= p /\ p <= Len(v)
  OBVIOUS
<1>8. Len(AR) = (p - 1) + Len(r) /\ Len(W) = (p - 1) + Len(r) + (Len(v) - p)
  BY <1>1, <1>2, <1>3, <1>5
<1>9. \A x \in 1..Len(AR) : AR[x] = IF x <= p - 1 THEN A[x] ELSE r[x - (p - 1)]
  BY <1>1, <1>4
<1>10. \A x \in 1..Len(W) : W[x] = IF x <= Len(AR) THEN AR[x] ELSE B[x - Len(AR)]
  BY <1>6
<1> HIDE DEF AR, W
<1>11. \A x \in 1..(p - 1) : W[x] = v[x]
  <2> TAKE x \in 1..(p - 1)
  <2>1. x \in 1..Len(AR) /\ x \in 1..Len(W) /\ x <= Len(AR) /\ x <= p - 1
    BY <1>7, <1>8
  <2> QED
    BY ONLY <2>1, <1>1, <1>9, <1>10, x \in 1..(p - 1)
<1>12. \A x \in 1..Len(r) : W[(p - 1) + x] = r[x]
  <2> TAKE x \in 1..Len(r)
  <2> DEFINE y == (p - 1) + x
  <2>1. y \in 1..Len(AR) /\ y \in 1..Len(W) /\ y <= Len(AR) /\ ~(y <= p - 1) /\ y - (p - 1) = x
    BY <1>7, <1>8
  <2> HIDE DEF y
  <2>2. W[y] = r[x]
    BY ONLY <2>1, <1>9, <1>10
  <2> QED
    BY <2>2 DEF y
<1>13. \A x \in 1..(Len(v) - p) : W[(p - 1) + Len(r) + x] = v[p + x]
  <2> TAKE x \in 1..(Len(v) - p)
  <2> DEFINE y == (p - 1) + Len(r) + x
  <2>1. y \in 1..Len(W) /\ ~(y <= Len(AR)) /\ y - Len(AR) = x
    BY <1>7, <1>8
  <2> HIDE DEF y
  <2>2. W[y] = B[x]
    BY ONLY <2>1, <1>10
  <2> QED
    BY <2>2, <1>2 DEF y
<1>14. Spliced(W, v, p, r)
  BY <1>8, <1>11, <1>12, <1>13 DEF Spliced
<1> QED
  BY <1>14 DEF W, AR, A, B

\* A turn of strrep.
LEMMA OneReplaced ==
  ASSUME NEW t, NEW c, NEW r, NEW u, NEW w, NEW v, NEW vv,
         Len(t) \in Nat, Len(u) \in Nat, Len(v) \in Nat, Len(r) \in Nat,
         Substituted(t, c, r, u, w), \A k \in 1..Len(r) : r[k] # c, Partway(v, t, u, w),
         NEW p \in 1..Len(v), v[p] = c, \A q \in 1..(p - 1) : v[q] # c,
         Spliced(vv, v, p, r)
  PROVE  Partway(vv, t, u, w)
<1>1. PICK n \in 0..Len(t) :
        /\ Len(v) = w[n] + (Len(t) - n)
        /\ \A x \in 1..w[n] : v[x] = u[x]
        /\ \A k \in 1..(Len(t) - n) : v[w[n] + k] = t[n + k]
  BY DEF Partway
<1> DEFINE e == w[n]
<1>2. e \in Nat /\ n \in Nat /\ p \in Nat /\ Len(v) = e + (Len(t) - n) /\ p <= Len(v) /\ n <= Len(t)
  BY <1>1, OffsetFacts
<1>3. \A x \in 1..e : v[x] = u[x]
  BY <1>1
<1>4. \A k \in 1..(Len(t) - n) : v[e + k] = t[n + k]
  BY <1>1
<1>5. \A x \in 1..e : u[x] # c
  BY NoneLeft
<1> HIDE DEF e
<1>6. p > e
  <2>1. p \in 1..e => FALSE
    BY <1>3, <1>5
  <2> QED
    BY <1>2, <2>1
<1>7. PICK k \in 1..(Len(t) - n) : e + k = p
  <2>1. p - e \in 1..(Len(t) - n) /\ e + (p - e) = p
    BY ONLY <1>2, <1>6
  <2> QED
    BY <2>1
<1> DEFINE m == n + k
<1>8. /\ m \in 1..Len(t) /\ m - 1 \in n..Len(t) /\ m \in 0..Len(t) /\ m = n + k /\ m \in Nat
      /\ n \in 0..Len(t)
  BY ONLY <1>2, <1>7, Len(t) \in Nat
<1>9. t[m] = c
  BY <1>4, <1>7
<1> HIDE DEF m
<1>10. \A x \in (n + 1)..(m - 1) : t[x] # c
  <2> TAKE x \in (n + 1)..(m - 1)
  <2>1. x - n \in 1..(Len(t) - n) /\ n + (x - n) = x /\ e + (x - n) \in 1..(p - 1)
    BY ONLY <1>2, <1>7, <1>8, x \in (n + 1)..(m - 1), Len(t) \in Nat
  <2> QED
    BY <2>1, <1>4
<1>11. \A x \in n..(m - 1) : w[x] = e + (x - n)
  <2>1. NoneFrom(t, c, n, m - 1)
    BY ONLY <1>8, <1>10 DEF NoneFrom
  <2>2. \A x \in n..(m - 1) : w[x] = w[n] + (x - n)
    BY ONLY <2>1, CopiedStretch, Substituted(t, c, r, u, w), Len(t) \in Nat
  <2> QED
    BY ONLY <2>2 DEF e
<1>12. w[m - 1] = p - 1
  <2>1. m - 1 \in n..(m - 1) /\ e + ((m - 1) - n) = p - 1
    BY ONLY <1>2, <1>7, <1>8
  <2> QED
    BY ONLY <1>11, <2>1
<1>13. w[m] = (p - 1) + Len(r)
  <2>1. w[m] = w[m - 1] + Len(r)
    BY ONLY <1>8, <1>9, OffsetFacts, Substituted(t, c, r, u, w), Len(t) \in Nat
  <2> QED
    BY ONLY <1>12, <2>1
<1>14. \A x \in 1..Len(r) : u[(p - 1) + x] = r[x]
  <2>1. \A x \in 1..Len(r) : u[w[m - 1] + x] = r[x]
    BY <1>8, <1>9, OffsetFacts
  <2> QED
    BY ONLY <1>12, <2>1
<1>15. Len(vv) = w[m] + (Len(t) - m)
  <2>1. Len(vv) = (p - 1) + Len(r) + (Len(v) - p)
    BY DEF Spliced
  <2> QED
    BY ONLY <2>1, <1>2, <1>7, <1>8, <1>13, Len(r) \in Nat, Len(t) \in Nat
<1>16. \A x \in 1..w[m] : vv[x] = u[x]
  <2> TAKE x \in 1..w[m]
  <2>1. CASE x <= p - 1
    <3>1. x \in 1..(p - 1)
      BY ONLY x \in 1..w[m], <2>1, <1>2, <1>13, Len(r) \in Nat
    <3>2. vv[x] = v[x]
      BY <3>1 DEF Spliced
    <3>3. CASE x <= e
      BY <1>2, <1>3, <3>1, <3>2, <3>3
    <3>4. CASE x > e
      <4> DEFINE y == n + (x - e)
      <4>1. /\ y \in (n + 1)..(m - 1) /\ y \in n..(m - 1) /\ e + (y - n) = x /\ y \in 1..Len(t)
            /\ x - e \in 1..(Len(t) - n) /\ e + (x - e) = x /\ n + (x - e) = y
        BY ONLY <1>2, <1>7, <1>8, <3>1, <3>4, Len(t) \in Nat
      <4> HIDE DEF y
      <4>2. w[y] = x
        BY ONLY <1>11, <4>1
      <4>3. t[y] # c
        BY ONLY <1>10, <4>1
      <4>4. u[w[y]] = t[y]
        BY <4>1, <4>3, OffsetFacts
      <4>5. v[x] = t[y]
        BY ONLY <1>4, <4>1
      <4> QED
        BY <3>2, <4>2, <4>4, <4>5
    <3> QED
      BY <3>3, <3>4, <3>1, <1>2
  <2>2. CASE x > p - 1
    <3>1. x - (p - 1) \in 1..Len(r) /\ (p - 1) + (x - (p - 1)) = x
      BY ONLY x \in 1..w[m], <1>2, <1>13, <2>2, Len(r) \in Nat
    <3>2. vv[(p - 1) + (x - (p - 1))] = r[x - (p - 1)]
      BY <3>1 DEF Spliced
    <3> QED
      BY ONLY <1>14, <3>1, <3>2
  <2>3. x \in Int /\ p - 1 \in Int
    BY <1>2, <1>13
  <2> QED
    BY ONLY <2>1, <2>2, <2>3
<1>17. \A x \in 1..(Len(t) - m) : vv[w[m] + x] = t[m + x]
  <2> TAKE x \in 1..(Len(t) - m)
  <2>1. /\ x \in 1..(Len(v) - p) /\ k + x \in 1..(Len(t) - n) /\ e + (k + x) = p + x
        /\ n + (k + x) = m + x /\ w[m] + x = (p - 1) + Len(r) + x
    BY ONLY <1>2, <1>7, <1>8, <1>13, x \in 1..(Len(t) - m), Len(t) \in Nat, Len(r) \in Nat
  <2>2. vv[(p - 1) + Len(r) + x] = v[p + x]
    BY <2>1 DEF Spliced
  <2>3. v[e + (k + x)] = t[n + (k + x)]
    BY ONLY <1>4, <2>1
  <2> QED
    BY ONLY <2>1, <2>2, <2>3
<1> QED
  BY <1>8, <1>15, <1>16, <1>17 DEF Partway

(***************************************************************************)
(* The tree.                                                               *)
(***************************************************************************)
FirstOf(d, j) == d.tokens[j].first
LastOf(d, j) == d.tokens[j].last
LeftOf(d, j) == d.tokens[j].left
RightOf(d, j) == d.tokens[j].right
ValueAt(d, j) == d.tokens[j].value

LEMMA SignFacts ==
  ASSUME NEW d, Parsed(d), NEW j \in Nodes(d)
  PROVE  /\ j \in 1..Len(d.tokens) /\ Len(d.tokens) \in Nat
         /\ Sign(d, j) \in DigitSet \union Operators \union {"("}
<1>1. j \in 1..Len(d.tokens) /\ Sign(d, j) # ")" /\ Len(d.tokens) \in Nat
  BY DEF Nodes, Parsed
<1>2. Spelled(d)
  BY DEF Parsed
<1>3. /\ d.tokens[j].from \in Nat /\ d.tokens[j].to \in Nat
      /\ From(d, j) <= To(d, j)
      /\ \/ \A x \in From(d, j)..To(d, j) : d.text[x] \in DigitSet
         \/ Sign(d, j) \in Operators \union {"(", ")"}
  BY <1>1, <1>2 DEF Spelled
<1>4. From(d, j) = d.tokens[j].from /\ To(d, j) = d.tokens[j].to
  BY <1>1 DEF From, To
<1>5. d.tokens[j].from \in From(d, j)..To(d, j)
  BY <1>3, <1>4
<1> QED
  BY <1>1, <1>3, <1>5 DEF Sign

LEMMA NodeFacts ==
  ASSUME NEW d, Parsed(d), NEW j \in Nodes(d)
  PROVE  /\ FirstOf(d, j) \in 1..j /\ LastOf(d, j) \in j..Len(d.tokens)
         /\ ValueAt(d, j) \in Word
         /\ j # d.root => \E p \in Nodes(d) :
              \/ Sign(d, p) \in Operators /\ LeftOf(d, p) = j
              \/ Sign(d, p) \in Operators \union {"("} /\ RightOf(d, p) = j
         /\ Sign(d, j) \in Operators => Divided(d, j)
         /\ Sign(d, j) = "(" => Enclosing(d, j)
         /\ Sign(d, j) \in DigitSet => Single(d, j)
<1>1. /\ d.tokens[j].first \in 1..j /\ d.tokens[j].last \in j..Len(d.tokens)
      /\ d.tokens[j].value \in 0..(WordSize - 1)
      /\ CASE Sign(d, j) \in Operators -> Divided(d, j)
           [] Sign(d, j) = "(" -> Enclosing(d, j)
           [] OTHER -> Single(d, j)
      /\ j # d.root => \E p \in Nodes(d) :
           \/ Sign(d, p) \in Operators /\ d.tokens[p].left = j
           \/ Sign(d, p) \in Operators \union {"("} /\ d.tokens[p].right = j
  BY DEF Parsed
<1>2. \A c \in Operators : c # "(" /\ c \notin DigitSet
  BY DEF Operators, DigitSet
<1>3. \A c \in DigitSet : c # "("
  BY DEF DigitSet
<1> QED
  BY <1>1, <1>2, <1>3 DEF FirstOf, LastOf, LeftOf, RightOf, ValueAt, Word

LEMMA OperatorNode ==
  ASSUME NEW d, Parsed(d), NEW j \in Nodes(d), Sign(d, j) \in Operators
  PROVE  /\ LeftOf(d, j) \in Nodes(d) /\ RightOf(d, j) \in Nodes(d)
         /\ FirstOf(d, LeftOf(d, j)) = FirstOf(d, j) /\ LastOf(d, LeftOf(d, j)) = j - 1
         /\ FirstOf(d, RightOf(d, j)) = j + 1 /\ LastOf(d, RightOf(d, j)) = LastOf(d, j)
         /\ Sign(d, LeftOf(d, j)) \in Operators =>
                Place(Sign(d, LeftOf(d, j))) > Place(Sign(d, j))
         /\ Sign(d, RightOf(d, j)) \in Operators =>
                Place(Sign(d, RightOf(d, j))) >= Place(Sign(d, j))
         /\ ~(Sign(d, j) = "/" /\ ValueAt(d, RightOf(d, j)) = 0) =>
                ValueAt(d, j) = Apply(Sign(d, j), ValueAt(d, LeftOf(d, j)),
                                      ValueAt(d, RightOf(d, j)))
<1>1. Divided(d, j)
  BY NodeFacts
<1> QED
  BY <1>1 DEF Divided, FirstOf, LastOf, LeftOf, RightOf, ValueAt

LEMMA ParenNode ==
  ASSUME NEW d, Parsed(d), NEW j \in Nodes(d), Sign(d, j) = "("
  PROVE  /\ RightOf(d, j) \in Nodes(d)
         /\ FirstOf(d, j) = j /\ FirstOf(d, RightOf(d, j)) = j + 1
         /\ LastOf(d, j) = LastOf(d, RightOf(d, j)) + 1 /\ Sign(d, LastOf(d, j)) = ")"
         /\ ValueAt(d, j) = ValueAt(d, RightOf(d, j))
<1>1. Enclosing(d, j)
  BY NodeFacts
<1> QED
  BY <1>1 DEF Enclosing, FirstOf, LastOf, RightOf, ValueAt

LEMMA NumberNode ==
  ASSUME NEW d, Parsed(d), NEW j \in Nodes(d), Sign(d, j) \in DigitSet
  PROVE  /\ FirstOf(d, j) = j /\ LastOf(d, j) = j
         /\ ValueAt(d, j) = NumberOf(SubSeq(d.text, From(d, j), To(d, j)))
<1>1. Single(d, j)
  BY NodeFacts
<1> QED
  BY <1>1 DEF Single, FirstOf, LastOf, ValueAt

LEMMA RootNode ==
  ASSUME NEW d, Parsed(d)
  PROVE  d.root \in Nodes(d) /\ FirstOf(d, d.root) = 1 /\ LastOf(d, d.root) = Len(d.tokens)
BY DEF Parsed, FirstOf, LastOf

\* st are the tokens on operator_stack: each begins right after the one under it.
Under(st, t) == IF t = 0 THEN 0 ELSE st[t]
Stacked(d, st) ==
    /\ Len(st) \in Nat
    /\ \A t \in 1..Len(st) :
         /\ st[t] \in Nodes(d) /\ Sign(d, st[t]) \in OpChars
         /\ FirstOf(d, st[t]) = Under(st, t - 1) + 1

\* The operators above t are complete: the token after them is j.
After(st, s, x) == IF s = Len(st) THEN x ELSE st[s + 1]
Chain(d, st, t, x, j) ==
    \A s \in (t + 1)..Len(st) :
        /\ Sign(d, st[s]) \in Operators
        /\ RightOf(d, st[s]) = After(st, s, x) /\ LastOf(d, st[s]) = j - 1

\* What can follow an operand.
Follows(d, st, t, x, j) ==
    LET z == After(st, t, x)
    IN /\ Chain(d, st, t, x, j)
       /\ z \in Nodes(d) /\ FirstOf(d, z) = Under(st, t) + 1 /\ LastOf(d, z) = j - 1
       /\ \/ j \in Nodes(d) /\ Sign(d, j) \in Operators /\ LeftOf(d, j) = z
          \/ /\ t # 0 /\ Sign(d, st[t]) = "(" /\ RightOf(d, st[t]) = z /\ LastOf(d, st[t]) = j
             /\ Sign(d, j) = ")"
          \/ t = 0 /\ z = d.root /\ j = Len(d.tokens) + 1

LEMMA Reached ==
  ASSUME NEW d, Parsed(d), NEW st, Stacked(d, st), NEW x \in Nodes(d), NEW j \in Nat,
         FirstOf(d, x) = Under(st, Len(st)) + 1, LastOf(d, x) = j - 1
  PROVE  \E t \in 0..Len(st) : Follows(d, st, t, x, j)
<1> DEFINE G == {t \in 0..Len(st) : Chain(d, st, t, x, j)}
<1>1. Len(st) \in Nat
  BY DEF Stacked
<1>2. Len(st) \in G /\ G \in SUBSET Nat
  BY <1>1 DEF Chain
<1>3. PICK t \in G : \A y \in G : t <= y
  BY <1>2, LeastExists
<1>4. t \in 0..Len(st) /\ Chain(d, st, t, x, j) /\ t \in Nat
  BY <1>1, <1>3
<1> DEFINE z == After(st, t, x)
<1>5. z \in Nodes(d) /\ FirstOf(d, z) = Under(st, t) + 1 /\ LastOf(d, z) = j - 1
  <2>1. CASE t = Len(st)
    BY <2>1 DEF After
  <2>2. CASE t # Len(st)
    <3>1. t + 1 \in 1..Len(st) /\ t + 1 \in (t + 1)..Len(st) /\ (t + 1) - 1 = t /\ z = st[t + 1]
      BY <1>1, <1>4, <2>2 DEF After
    <3>2. st[t + 1] \in Nodes(d) /\ FirstOf(d, st[t + 1]) = Under(st, (t + 1) - 1) + 1
      BY ONLY <3>1, Stacked(d, st) DEF Stacked
    <3>3. LastOf(d, st[t + 1]) = j - 1
      BY ONLY <3>1, <1>4 DEF Chain
    <3> QED
      BY ONLY <3>1, <3>2, <3>3
  <2> QED
    BY <2>1, <2>2
<1> HIDE DEF z
<1>6. \A s \in 1..Len(st) : st[s] \in Nat \ {0}
  BY SignFacts DEF Stacked
<1>7. t # 0 => Under(st, t) = st[t] /\ t \in 1..Len(st)
  BY <1>1, <1>4 DEF Under
<1>8. t = 0 => Under(st, t) = 0
  BY DEF Under
<1>9. Under(st, t) \in Nat
  BY <1>6, <1>7, <1>8
<1>10. CASE z = d.root
  <2>1. Under(st, t) + 1 = 1 /\ Len(d.tokens) = j - 1
    BY <1>5, <1>10, RootNode
  <2>2. t = 0
    BY <1>6, <1>7, <2>1
  <2>3. j = Len(d.tokens) + 1
    BY <2>1
  <2> QED
    BY <1>4, <1>5, <1>10, <2>2, <2>3 DEF Follows, z
<1>11. ASSUME NEW p \in Nodes(d), Sign(d, p) \in Operators, LeftOf(d, p) = z
       PROVE  Follows(d, st, t, x, j)
  <2>1. LastOf(d, z) = p - 1 /\ p \in Nat
    BY <1>11, OperatorNode, SignFacts
  <2>2. p = j
    BY <1>5, <2>1
  <2> QED
    BY <1>4, <1>5, <1>11, <2>2 DEF Follows, z
<1>12. ASSUME NEW p \in Nodes(d), Sign(d, p) \in OpChars, RightOf(d, p) = z
       PROVE  t # 0 /\ p = st[t] /\ t \in 1..Len(st)
  <2>1. FirstOf(d, z) = p + 1 /\ p \in Nat \ {0}
    BY <1>12, OperatorNode, ParenNode, SignFacts DEF OpChars
  <2>2. p = Under(st, t)
    BY <1>5, <1>9, <2>1
  <2> QED
    BY <1>7, <1>8, <2>1, <2>2
<1>13. ASSUME NEW p \in Nodes(d), Sign(d, p) \in Operators, RightOf(d, p) = z
       PROVE  FALSE
  <2>1. t # 0 /\ p = st[t] /\ t \in 1..Len(st)
    BY <1>12, <1>13 DEF OpChars
  <2>2. LastOf(d, p) = j - 1
    BY <1>5, <1>13, OperatorNode
  <2>3. Chain(d, st, t - 1, x, j)
    <3>1. \A s \in ((t - 1) + 1)..Len(st) : s = t \/ s \in (t + 1)..Len(st)
      BY <1>1, <2>1
    <3> QED
      BY <1>4, <1>13, <2>1, <2>2, <3>1 DEF Chain, z
  <2>4. t - 1 \in G
    BY <1>1, <2>1, <2>3
  <2>5. ~(t <= t - 1)
    BY <1>4
  <2> HIDE DEF G
  <2> QED
    BY <1>3, <2>4, <2>5
<1>14. ASSUME NEW p \in Nodes(d), Sign(d, p) = "(", RightOf(d, p) = z
       PROVE  Follows(d, st, t, x, j)
  <2>1. t # 0 /\ p = st[t]
    BY <1>12, <1>14 DEF OpChars
  <2>2. LastOf(d, p) = LastOf(d, z) + 1 /\ Sign(d, LastOf(d, p)) = ")"
    BY <1>14, ParenNode
  <2>3. LastOf(d, p) = j
    BY <1>5, <2>2
  <2> QED
    BY <1>4, <1>5, <1>14, <2>1, <2>2, <2>3 DEF Follows, z
<1>15. CASE z # d.root
  <2>1. PICK p \in Nodes(d) :
          \/ Sign(d, p) \in Operators /\ LeftOf(d, p) = z
          \/ Sign(d, p) \in Operators \union {"("} /\ RightOf(d, p) = z
    BY <1>5, <1>15, NodeFacts
  <2>2. Follows(d, st, t, x, j)
    BY <2>1, <1>11, <1>13, <1>14
  <2> QED
    BY <1>4, <2>2
<1> QED
  BY <1>10, <1>15

LEMMA PlaceInt == \A c : Place(c) \in Int
BY DEF Place

\* The operators that leave the stack before j bind tighter.
LEMMA Tighter ==
  ASSUME NEW d, Parsed(d), NEW st, Stacked(d, st), NEW x, NEW j \in Nodes(d), Sign(d, j) \in Operators,
         NEW t \in 0..Len(st), Chain(d, st, t, x, j), LeftOf(d, j) = After(st, t, x)
  PROVE  \A s \in (t + 1)..Len(st) : Place(Sign(d, st[s])) > Place(Sign(d, j))
<1> DEFINE Bad == {s \in (t + 1)..Len(st) : ~(Place(Sign(d, st[s])) > Place(Sign(d, j)))}
<1>1. Len(st) \in Nat /\ t \in Nat
  BY DEF Stacked
<1>2. Bad \in SUBSET Nat
  BY <1>1
<1>3. SUFFICES ASSUME Bad # {} PROVE FALSE
  OBVIOUS
<1>4. PICK s \in Bad : \A y \in Bad : s <= y
  BY <1>2, <1>3, LeastExists
<1>5. s \in (t + 1)..Len(st) /\ ~(Place(Sign(d, st[s])) > Place(Sign(d, j)))
  BY <1>4
<1>6. Sign(d, st[s]) \in Operators /\ st[s] \in Nodes(d) /\ s \in 1..Len(st)
  <2>1. s \in 1..Len(st)
    BY <1>1, <1>5
  <2> QED
    BY <1>5, <2>1 DEF Chain, Stacked
<1>7. CASE s = t + 1
  <2>1. st[s] = LeftOf(d, j)
    BY <1>1, <1>5, <1>7 DEF After
  <2> QED
    BY <1>5, <1>6, <2>1, OperatorNode
<1>8. CASE s # t + 1
  <2> DEFINE q == s - 1
  <2>1. q \in (t + 1)..Len(st) /\ q \in 1..Len(st) /\ q # Len(st) /\ q + 1 = s /\ ~(s <= q)
    BY <1>1, <1>5, <1>8
  <2> HIDE DEF q
  <2>2. q \notin Bad
    BY <1>4, <2>1
  <2>3. Place(Sign(d, st[q])) > Place(Sign(d, j))
    BY <2>1, <2>2
  <2>4. Sign(d, st[q]) \in Operators /\ RightOf(d, st[q]) = st[s] /\ st[q] \in Nodes(d)
    BY <2>1 DEF Chain, After, Stacked
  <2>5. Place(Sign(d, st[s])) >= Place(Sign(d, st[q]))
    BY <1>6, <2>4, OperatorNode
  <2> QED
    BY <1>5, <2>3, <2>5, PlaceInt
<1> QED
  BY <1>7, <1>8

\* The one that stays under j does not.
LEMMA Looser ==
  ASSUME NEW d, Parsed(d), NEW p \in Nodes(d), Sign(d, p) \in Operators,
         NEW j \in Nodes(d), Sign(d, j) \in Operators,
         NEW z \in Nodes(d), LeftOf(d, j) = z, FirstOf(d, z) = p + 1
  PROVE  Place(Sign(d, p)) <= Place(Sign(d, j))
<1> DEFINE Y == {y \in Nodes(d) : /\ FirstOf(d, y) = p + 1 /\ Sign(d, y) \in Operators
                                  /\ Place(Sign(d, y)) <= Place(Sign(d, j))}
<1>1. Y \in SUBSET Nat /\ \A y \in Y : y <= Len(d.tokens)
  BY SignFacts
<1>2. Place(Sign(d, j)) <= Place(Sign(d, j))
  BY PlaceInt
<1>3. j \in Y
  BY <1>2, OperatorNode
<1>4. Len(d.tokens) \in Nat
  BY SignFacts
<1>5. PICK y \in Y : \A q \in Y : q <= y
  <2> HIDE DEF Y
  <2> QED
    BY <1>1, <1>3, <1>4, GreatestExists
<1>6. /\ y \in Nodes(d) /\ FirstOf(d, y) = p + 1 /\ Sign(d, y) \in Operators
      /\ Place(Sign(d, y)) <= Place(Sign(d, j)) /\ y \in Nat /\ p \in Nat \ {0}
  BY <1>5, SignFacts
<1>7. y # d.root
  BY <1>6, RootNode
<1>8. PICK q \in Nodes(d) :
        \/ Sign(d, q) \in Operators /\ LeftOf(d, q) = y
        \/ Sign(d, q) \in Operators \union {"("} /\ RightOf(d, q) = y
  BY <1>6, <1>7, NodeFacts
<1>9. q \in Nat
  BY SignFacts
<1>10. ~(Sign(d, q) \in Operators /\ LeftOf(d, q) = y)
  <2> SUFFICES ASSUME Sign(d, q) \in Operators, LeftOf(d, q) = y PROVE FALSE
    OBVIOUS
  <2>1. FirstOf(d, q) = p + 1 /\ LastOf(d, y) = q - 1 /\ Place(Sign(d, y)) > Place(Sign(d, q))
    BY <1>6, OperatorNode
  <2>2. LastOf(d, y) \in y..Len(d.tokens)
    BY <1>6, NodeFacts
  <2>3. ~(q <= y)
    BY <1>4, <1>6, <1>9, <2>1, <2>2
  <2>4. Place(Sign(d, q)) <= Place(Sign(d, j))
    BY <1>6, <2>1, PlaceInt
  <2>5. q \in Y
    BY <2>1, <2>4
  <2> HIDE DEF Y
  <2> QED
    BY <1>5, <2>3, <2>5
<1>11. Sign(d, q) \in Operators \union {"("} /\ RightOf(d, q) = y
  BY <1>8, <1>10
<1>12. FirstOf(d, y) = q + 1
  BY <1>11, OperatorNode, ParenNode
<1>13. q = p
  BY <1>6, <1>9, <1>12
<1>14. Place(Sign(d, y)) >= Place(Sign(d, p))
  BY <1>6, <1>11, <1>13, OperatorNode
<1> QED
  BY <1>6, <1>14, PlaceInt

\* An operand begins with a number or "(".
LEMMA Begins ==
  ASSUME NEW d, Parsed(d), NEW st, Stacked(d, st), NEW j, j = Under(st, Len(st)) + 1
  PROVE  j \in Nodes(d) /\ Sign(d, j) \in DigitSet \union {"("}
<1>1. \E y \in Nodes(d) : FirstOf(d, y) = j
  <2>1. CASE Len(st) = 0
    BY <2>1, RootNode DEF Under
  <2>2. CASE Len(st) # 0
    <3>1. Len(st) \in 1..Len(st) /\ Under(st, Len(st)) = st[Len(st)]
      BY <2>2 DEF Stacked, Under
    <3>2. st[Len(st)] \in Nodes(d) /\ Sign(d, st[Len(st)]) \in OpChars
      BY <3>1 DEF Stacked
    <3> QED
      BY <3>1, <3>2, OperatorNode, ParenNode DEF OpChars
  <2> QED
    BY <2>1, <2>2
<1> DEFINE Y == {y \in Nodes(d) : FirstOf(d, y) = j}
<1>2. Y \in SUBSET Nat
  BY SignFacts
<1>3. PICK y \in Y : \A q \in Y : y <= q
  BY <1>1, <1>2, LeastExists
<1>4. y \in Nodes(d) /\ FirstOf(d, y) = j /\ y \in Nat
  BY <1>3, SignFacts
<1>5. Sign(d, y) \notin Operators
  <2> SUFFICES ASSUME Sign(d, y) \in Operators PROVE FALSE
    OBVIOUS
  <2> DEFINE q == LeftOf(d, y)
  <2>1. q \in Nodes(d) /\ FirstOf(d, q) = j /\ LastOf(d, q) = y - 1
    BY <1>4, OperatorNode
  <2>2. LastOf(d, q) \in q..Len(d.tokens) /\ q \in Nat /\ Len(d.tokens) \in Nat
    BY <2>1, NodeFacts, SignFacts
  <2>3. q \in Y
    BY <2>1
  <2> HIDE DEF q, Y
  <2>4. ~(y <= q)
    BY <1>4, <2>1, <2>2
  <2> QED
    BY <1>3, <2>3, <2>4
<1>6. Sign(d, y) \in DigitSet \union {"("}
  BY <1>4, <1>5, SignFacts
<1>7. FirstOf(d, y) = y
  BY <1>4, <1>6, NumberNode, ParenNode
<1> QED
  BY <1>4, <1>6, <1>7

(***************************************************************************)
(* What postfix_string calculates: the stack of values S[n] after its      *)
(* first n entries, entry n standing for the node W[n].                    *)
(***************************************************************************)
Turn(d, before, after, node, e, nums) ==
    /\ node \in Nodes(d)
    /\ e.op = "n" => /\ Sign(d, node) \in DigitSet
                     /\ e.k \in 1..Len(nums) /\ nums[e.k] = ValueAt(d, node)
                     /\ after = Append(before, ValueAt(d, node))
    /\ e.op # "n" => /\ e.op = Sign(d, node) /\ e.op \in Operators
                     /\ Len(before) >= 2
                     /\ before[Len(before) - 1] = ValueAt(d, LeftOf(d, node))
                     /\ before[Len(before)] = ValueAt(d, RightOf(d, node))
                     /\ after = Append(SubSeq(before, 1, Len(before) - 2), ValueAt(d, node))

Run(d, S, W, p, nums) ==
    /\ Len(p) \in Nat
    /\ S[0] = <<>> /\ \A n \in 0..Len(p) : S[n] \in Seq(Word)
    /\ \A n \in 1..Len(p) : Turn(d, S[n - 1], S[n], W[n], p[n], nums)

\* h[t] is the number of operators among the first t of st, and the value to
\* the left of each of them is on the stack T.
Heights(d, st, h) ==
    /\ h[0] = 0 /\ \A t \in 0..Len(st) : h[t] \in Nat
    /\ \A t \in 1..Len(st) :
         /\ Sign(d, st[t]) \in Operators => h[t] = h[t - 1] + 1
         /\ Sign(d, st[t]) \notin Operators => h[t] = h[t - 1]
    /\ \A s, t \in 0..Len(st) : s <= t => h[s] <= h[t]
Lefts(d, st, h, T) ==
    \A t \in 1..Len(st) : Sign(d, st[t]) \in Operators => T[h[t]] = ValueAt(d, LeftOf(d, st[t]))

LEMMA StackTop ==
  ASSUME NEW T \in Seq(Word), NEW b \in Nat, b < Len(T), NEW v \in Word
  PROVE  LET U == Append(SubSeq(T, 1, b + 1), v)
         IN /\ U \in Seq(Word) /\ Len(U) = b + 2 /\ U[b + 1] = T[b + 1] /\ U[b + 2] = v
            /\ SubSeq(U, 1, b) = SubSeq(T, 1, b)
<1> DEFINE F == SubSeq(T, 1, b + 1)
           U == Append(F, v)
<1>1. /\ F \in Seq(Word) /\ Len(F) = b + 1
      /\ \A n \in 1..(b + 1) : F[n] = T[n]
  OBVIOUS
<1> HIDE DEF F
<1>2. /\ U \in Seq(Word) /\ Len(U) = b + 2 /\ U[b + 2] = v
      /\ \A n \in 1..(b + 1) : U[n] = F[n]
  BY <1>1
<1> HIDE DEF U
<1>3. SubSeq(U, 1, b) \in Seq(Word) /\ SubSeq(T, 1, b) \in Seq(Word)
  BY <1>2
<1>4. Len(SubSeq(U, 1, b)) = b /\ \A n \in 1..b : SubSeq(U, 1, b)[n] = U[n]
  BY <1>2
<1>5. Len(SubSeq(T, 1, b)) = b /\ \A n \in 1..b : SubSeq(T, 1, b)[n] = T[n]
  OBVIOUS
<1>6. \A n \in 1..b : SubSeq(U, 1, b)[n] = SubSeq(T, 1, b)[n]
  <2>1. \A n \in 1..b : n \in 1..(b + 1)
    OBVIOUS
  <2> QED
    BY ONLY <2>1, <1>1, <1>2, <1>4, <1>5
<1>7. SubSeq(U, 1, b) = SubSeq(T, 1, b)
  <2> DEFINE A == SubSeq(U, 1, b)
             B == SubSeq(T, 1, b)
  <2>1. A \in Seq(Word) /\ B \in Seq(Word) /\ Len(A) = Len(B) /\ \A n \in 1..Len(A) : A[n] = B[n]
    BY <1>3, <1>4, <1>5, <1>6
  <2> HIDE DEF A, B
  <2>2. A = B
    BY ONLY <2>1, SeqEqual
  <2> QED
    BY <2>2 DEF A, B
<1>8. b + 1 \in 1..(b + 1)
  OBVIOUS
<1>9. U[b + 1] = T[b + 1]
  BY ONLY <1>1, <1>2, <1>8
<1>10. U \in Seq(Word) /\ Len(U) = b + 2 /\ U[b + 1] = T[b + 1] /\ U[b + 2] = v
       /\ SubSeq(U, 1, b) = SubSeq(T, 1, b)
  BY <1>2, <1>7, <1>9
<1> QED
  BY <1>10 DEF U, F

LEMMA WholeStack ==
  ASSUME NEW T \in Seq(Word), NEW b \in Nat, Len(T) = b + 1
  PROVE  Append(SubSeq(T, 1, b), T[b + 1]) = T
<1> DEFINE F == SubSeq(T, 1, b)
           U == Append(F, T[b + 1])
<1>1. F \in Seq(Word) /\ Len(F) = b /\ (\A n \in 1..b : F[n] = T[n]) /\ T[b + 1] \in Word
  OBVIOUS
<1> HIDE DEF F
<1>2. /\ U \in Seq(Word) /\ Len(U) = b + 1 /\ U[b + 1] = T[b + 1]
      /\ \A n \in 1..b : U[n] = F[n]
  BY <1>1
<1> HIDE DEF U
<1>3. \A n \in 1..(b + 1) : n \in 1..b \/ n = b + 1
  OBVIOUS
<1>4. \A n \in 1..(b + 1) : U[n] = T[n]
  BY ONLY <1>1, <1>2, <1>3
<1>5. U = T
  BY ONLY <1>2, <1>4, T \in Seq(Word), Len(T) = b + 1, SeqEqual
<1> QED
  BY <1>5 DEF U, F

(***************************************************************************)
(* The scan.                                                               *)
(***************************************************************************)

\* st are the tokens whose characters o are on operator_stack.
Stacks(d, o, p, nums, st, h, S, W) ==
    /\ Stacked(d, st) /\ Heights(d, st, h)
    /\ Run(d, S, W, p, nums) /\ Lefts(d, st, h, S[Len(p)])
    /\ Len(o) = Len(st) /\ \A t \in 1..Len(st) : o[t] = Sign(d, st[t])

\* The next token is j; x is the operand before it, or 0 where one must begin.
Awaits(d, st, h, T, j, x) ==
    /\ j \in 1..(Len(d.tokens) + 1)
    /\ x = 0 => j = Under(st, Len(st)) + 1 /\ Len(T) = h[Len(st)]
    /\ x # 0 => /\ x \in Nodes(d)
                /\ FirstOf(d, x) = Under(st, Len(st)) + 1 /\ LastOf(d, x) = j - 1
                /\ Len(T) = h[Len(st)] + 1 /\ T[Len(T)] = ValueAt(d, x)

\* No operator before j is lost.
Covered(d, st, W, n, j) ==
    \A q \in Nodes(d) : (q < j /\ Sign(d, q) \in Operators) =>
        (\E t \in 1..Len(st) : st[t] = q) \/ (\E m \in 1..n : W[m] = q)

Scanning(d, o, p, nums, j, x) ==
    \E st, h, S, W : /\ Stacks(d, o, p, nums, st, h, S, W)
                     /\ Awaits(d, st, h, S[Len(p)], j, x)
                     /\ Covered(d, st, W, Len(p), j)

\* pp is p and the operators of o above t, the last one first.
Moves(pp, p, o, t) ==
    /\ Len(pp) = Len(p) + (Len(o) - t)
    /\ \A n \in 1..Len(p) : pp[n] = p[n]
    /\ \A n \in 1..(Len(o) - t) : pp[Len(p) + n].op = o[Len(o) + 1 - n]

\* Everything above t is among the first n nodes of W.
AllOut(st, t, W, n) == \A s \in (t + 1)..Len(st) : \E m \in 1..n : W[m] = st[s]

\* The run once they have been moved: they have left the value of z.
Emission(d, T, W, p, pp, nums, st, b, t, z, values, nodes) ==
    /\ Run(d, values, nodes, pp, nums)
    /\ values[Len(pp)] = Append(SubSeq(T, 1, b), ValueAt(d, z))
    /\ \A n \in 1..Len(p) : nodes[n] = W[n]
    /\ AllOut(st, t, nodes, Len(pp))

LEMMA Emitting ==
  ASSUME NEW d, Parsed(d), NEW o, NEW p, NEW nums, NEW st, NEW h, NEW S, NEW W,
         Stacks(d, o, p, nums, st, h, S, W),
         NEW x, x # 0, NEW j, Awaits(d, st, h, S[Len(p)], j, x),
         NEW t \in 0..Len(st), Chain(d, st, t, x, j), NEW pp, Moves(pp, p, o, t)
  PROVE  \E values, nodes :
           Emission(d, S[Len(p)], W, p, pp, nums, st, h[t], t, After(st, t, x), values, nodes)
<1> DEFINE T == S[Len(p)]
<1>1. /\ Stacked(d, st) /\ Heights(d, st, h) /\ Lefts(d, st, h, T) /\ Run(d, S, W, p, nums)
       /\ S[Len(p)] = T
  BY DEF Stacks
<1>2. x \in Nodes(d) /\ Len(T) = h[Len(st)] + 1 /\ T[Len(T)] = ValueAt(d, x)
  BY DEF Awaits
<1>3. T \in Seq(Word)
  BY <1>1 DEF Run
<1>4. Len(pp) = Len(p) + (Len(st) - t) /\ \A n \in 1..Len(p) : pp[n] = p[n]
  BY DEF Moves, Stacks
<1>5. \A n \in 1..(Len(st) - t) : pp[Len(p) + n].op = Sign(d, st[Len(st) + 1 - n])
  <2> TAKE n \in 1..(Len(st) - t)
  <2>1. Len(st) \in Nat /\ Len(o) = Len(st)
    BY DEF Stacks, Stacked
  <2>2. Len(st) + 1 - n \in 1..Len(st)
    BY <2>1
  <2>3. pp[Len(p) + n].op = o[Len(o) + 1 - n]
    BY <2>1 DEF Moves
  <2>4. o[Len(st) + 1 - n] = Sign(d, st[Len(st) + 1 - n])
    BY <2>2 DEF Stacks
  <2> QED
    BY ONLY <2>1, <2>3, <2>4
<1> HIDE DEF T
<1> SUFFICES \E values, nodes :
           Emission(d, T, W, p, pp, nums, st, h[t], t, After(st, t, x), values, nodes)
  BY DEF T
<1> USE <1>1, <1>2, <1>3, <1>4, <1>5
<1>6. PICK SS : SS = [n \in 0..Len(pp) |-> IF n <= Len(p) THEN S[n]
                        ELSE LET s == Len(st) - (n - Len(p))
                             IN Append(SubSeq(T, 1, h[s]), ValueAt(d, After(st, s, x)))]
  OBVIOUS
<1>7. PICK WW : WW = [n \in 1..Len(pp) |-> IF n <= Len(p) THEN W[n]
                        ELSE st[Len(st) + 1 - (n - Len(p))]]
  OBVIOUS
<1> DEFINE k == Len(st)
           L == Len(p)
           N == L + (k - t)
           Z(s) == Append(SubSeq(T, 1, h[s]), ValueAt(d, After(st, s, x)))
<1>8. k \in Nat /\ L \in Nat /\ t \in Nat /\ t <= k /\ N \in Nat /\ Len(pp) = N /\ L <= N
  BY DEF Stacked, Run
<1>9. /\ \A s \in 0..k : h[s] \in Nat /\ h[s] <= h[k]
      /\ Len(T) = h[k] + 1
  BY ONLY <1>8, Heights(d, st, h), Len(T) = h[Len(st)] + 1 DEF Heights
<1>10. \A s \in t..k : After(st, s, x) \in Nodes(d)
  <2> TAKE s \in t..k
  <2>1. CASE s = k
    BY <2>1 DEF After
  <2>2. CASE s # k
    <3>1. s + 1 \in 1..k
      BY <1>8, <2>2
    <3> QED
      BY <2>2, <3>1 DEF After, Stacked
  <2> QED
    BY <2>1, <2>2
<1>11. Z(k) = T
  <2>1. After(st, k, x) = x
    BY DEF After
  <2>2. T[h[k] + 1] = ValueAt(d, x) /\ h[k] \in Nat
    BY <1>8, <1>9
  <2>3. Append(SubSeq(T, 1, h[k]), T[h[k] + 1]) = T
    BY ONLY <1>9, <2>2, T \in Seq(Word), WholeStack
  <2> QED
    BY <2>1, <2>2, <2>3
<1>12. \A s \in (t + 1)..k :
        /\ s \in 1..k /\ s \in t..k /\ s - 1 \in t..k /\ s - 1 \in 0..k /\ s \in 0..k
        /\ st[s] \in Nodes(d) /\ Sign(d, st[s]) \in Operators
        /\ RightOf(d, st[s]) = After(st, s, x) /\ After(st, s - 1, x) = st[s]
        /\ T[h[s]] = ValueAt(d, LeftOf(d, st[s])) /\ h[s] = h[s - 1] + 1
  <2> TAKE s \in (t + 1)..k
  <2>1. s \in 1..k /\ s \in t..k /\ s - 1 \in t..k /\ s - 1 \in 0..k /\ s \in 0..k
    BY <1>8
  <2>2. st[s] \in Nodes(d)
    BY <2>1 DEF Stacked
  <2>3. Sign(d, st[s]) \in Operators /\ RightOf(d, st[s]) = After(st, s, x)
    BY DEF Chain
  <2>4. T[h[s]] = ValueAt(d, LeftOf(d, st[s]))
    BY <2>1, <2>3 DEF Lefts
  <2>5. h[s] = h[s - 1] + 1
    BY <2>1, <2>3 DEF Heights
  <2>6. After(st, s - 1, x) = st[s]
    <3>1. s - 1 # k /\ (s - 1) + 1 = s
      BY <1>8, <2>1
    <3> QED
      BY <3>1 DEF After
  <2> QED
    BY <2>1, <2>2, <2>3, <2>4, <2>5, <2>6
<1>13. \A s \in (t + 1)..k :
        /\ Len(Z(s)) >= 2 /\ Z(s)[Len(Z(s)) - 1] = ValueAt(d, LeftOf(d, st[s]))
        /\ Z(s)[Len(Z(s))] = ValueAt(d, RightOf(d, st[s]))
        /\ Z(s - 1) = Append(SubSeq(Z(s), 1, Len(Z(s)) - 2), ValueAt(d, st[s]))
        /\ Z(s) \in Seq(Word)
  <2> TAKE s \in (t + 1)..k
  <2> DEFINE b == h[s - 1]
             v == ValueAt(d, After(st, s, x))
  <2>1. /\ b \in Nat /\ b < Len(T) /\ h[s] = b + 1
    <3>1. s \in 0..k /\ s - 1 \in 0..k /\ h[s] = h[s - 1] + 1
      BY ONLY <1>12, s \in (t + 1)..k
    <3>2. k \in 0..k
      BY ONLY <1>8
    <3>3. h[s] \in Nat /\ h[s - 1] \in Nat /\ h[k] \in Nat /\ h[s] <= h[k]
      BY ONLY <1>9, <3>1, <3>2
    <3> QED
      BY ONLY <1>9, <3>1, <3>3
  <2>2. v \in Word
    BY <1>10, <1>12, NodeFacts
  <2>3. Z(s) = Append(SubSeq(T, 1, b + 1), v)
    BY <2>1
  <2>4. Z(s - 1) = Append(SubSeq(T, 1, b), ValueAt(d, st[s]))
    BY <1>12
  <2>5. T[b + 1] = ValueAt(d, LeftOf(d, st[s])) /\ v = ValueAt(d, RightOf(d, st[s]))
    BY <1>12, <2>1
  <2> DEFINE U == Z(s)
             Below == Z(s - 1)
  <2> HIDE DEF b, v, Z
  <2>6. /\ U \in Seq(Word) /\ Len(U) = b + 2 /\ U[b + 1] = T[b + 1] /\ U[b + 2] = v
        /\ SubSeq(U, 1, b) = SubSeq(T, 1, b)
    BY ONLY <2>1, <2>2, <2>3, T \in Seq(Word), StackTop, SMTT(20)
  <2>7. Below = Append(SubSeq(U, 1, b), ValueAt(d, st[s]))
    BY ONLY <2>4, <2>6
  <2> HIDE DEF U, Below
  <2>8. b + 2 >= 2 /\ (b + 2) - 1 = b + 1 /\ (b + 2) - 2 = b
    BY <2>1
  <2>9. /\ Len(U) >= 2 /\ U[Len(U) - 1] = ValueAt(d, LeftOf(d, st[s]))
        /\ U[Len(U)] = ValueAt(d, RightOf(d, st[s]))
        /\ Below = Append(SubSeq(U, 1, Len(U) - 2), ValueAt(d, st[s]))
        /\ U \in Seq(Word)
    BY ONLY <2>5, <2>6, <2>7, <2>8
  <2> QED
    BY <2>9 DEF U, Below
<1>14. Z(t) \in Seq(Word)
  <2>1. h[t] \in Nat /\ h[t] <= Len(T)
    BY <1>8, <1>9
  <2>2. SubSeq(T, 1, h[t]) \in Seq(Word)
    BY ONLY <2>1, T \in Seq(Word)
  <2>3. ValueAt(d, After(st, t, x)) \in Word
    BY <1>8, <1>10, NodeFacts
  <2> QED
    BY <2>2, <2>3
<1>15. SS = [n \in 0..N |-> IF n <= L THEN S[n] ELSE Z(k - (n - L))]
  BY <1>8, <1>6
<1>16. WW = [n \in 1..N |-> IF n <= L THEN W[n] ELSE st[k + 1 - (n - L)]]
  BY <1>8, <1>7
<1> HIDE DEF Z
<1>17. \A n \in 0..L : SS[n] = S[n]
  BY <1>8, <1>15
<1>18. \A n \in (L + 1)..N : SS[n] = Z(k - (n - L)) /\ WW[n] = st[k + 1 - (n - L)]
  <2> TAKE n \in (L + 1)..N
  <2>1. n \in 0..N /\ n \in 1..N /\ ~(n <= L)
    BY ONLY <1>8, n \in (L + 1)..N
  <2> QED
    BY ONLY <2>1, <1>15, <1>16
<1>19. \A n \in 1..L : WW[n] = W[n]
  BY <1>8, <1>16
<1>20. SS[0] = <<>> /\ \A n \in 0..L : SS[n] \in Seq(Word)
  <2>1. S[0] = <<>> /\ \A n \in 0..L : S[n] \in Seq(Word)
    BY ONLY Run(d, S, W, p, nums) DEF Run
  <2>2. 0 \in 0..L
    BY ONLY <1>8
  <2> QED
    BY ONLY <1>17, <2>1, <2>2
<1>21. \A n \in (L + 1)..N : SS[n] \in Seq(Word)
  <2> TAKE n \in (L + 1)..N
  <2>1. \A b, c, e \in Nat : c <= e => \A m \in (b + 1)..(b + (e - c)) :
          e - (m - b) = c \/ e - (m - b) \in (c + 1)..e
    OBVIOUS
  <2>2. k - (n - L) = t \/ k - (n - L) \in (t + 1)..k
    BY ONLY <1>8, <2>1, n \in (L + 1)..N
  <2> QED
    BY <2>2, <1>13, <1>14, <1>18
<1>22. \A n \in 1..L : Turn(d, SS[n - 1], SS[n], WW[n], pp[n], nums)
  <2> TAKE n \in 1..L
  <2>1. n \in 0..L /\ n - 1 \in 0..L
    BY <1>8
  <2>2. Turn(d, S[n - 1], S[n], W[n], p[n], nums)
    BY DEF Run
  <2>3. pp[n] = p[n]
    OBVIOUS
  <2> QED
    BY ONLY <2>1, <2>2, <2>3, <1>17, <1>19, n \in 1..L
<1>23. \A n \in (L + 1)..N : Turn(d, SS[n - 1], SS[n], WW[n], pp[n], nums)
  <2> TAKE n \in (L + 1)..N
  <2> DEFINE s == k + 1 - (n - L)
  <2>1. /\ s \in (t + 1)..k /\ k - (n - L) = s - 1 /\ n - L \in 1..(k - t) /\ L + (n - L) = n
        /\ k + 1 - (n - L) = s
    BY <1>8
  <2>2. SS[n - 1] = Z(s)
    <3>1. CASE n = L + 1
      <4>1. s = k /\ n - 1 = L /\ L \in 0..L
        BY <1>8, <3>1
      <4> QED
        BY <4>1, <1>11, <1>17
    <3>2. CASE n # L + 1
      <4>1. n - 1 \in (L + 1)..N /\ k - ((n - 1) - L) = s
        BY <1>8, <3>2
      <4> QED
        BY <4>1, <1>18
    <3> QED
      BY <3>1, <3>2
  <2>3. SS[n] = Z(s - 1) /\ WW[n] = st[s]
    BY <1>18, <2>1
  <2>4. pp[n].op = Sign(d, st[s])
    <3>1. pp[L + (n - L)].op = Sign(d, st[k + 1 - (n - L)])
      BY <2>1
    <3> QED
      BY ONLY <2>1, <3>1
  <2> HIDE DEF s
  <2>5. Sign(d, st[s]) # "n"
    BY <1>12, <2>1 DEF Operators
  <2>6. Turn(d, Z(s), Z(s - 1), st[s], pp[n], nums)
    BY ONLY <1>12, <1>13, <2>1, <2>4, <2>5 DEF Turn
  <2> QED
    BY ONLY <2>2, <2>3, <2>6
<1>24. Run(d, SS, WW, pp, nums)
  <2>1. \A n \in 0..N : n \in 0..L \/ n \in (L + 1)..N
    BY <1>8
  <2>2. \A n \in 1..N : n \in 1..L \/ n \in (L + 1)..N
    BY <1>8
  <2>3. \A n \in 0..N : SS[n] \in Seq(Word)
    BY ONLY <2>1, <1>20, <1>21
  <2>4. \A n \in 1..N : Turn(d, SS[n - 1], SS[n], WW[n], pp[n], nums)
    BY ONLY <2>2, <1>22, <1>23
  <2> QED
    BY <1>8, <1>20, <2>3, <2>4 DEF Run
<1>25. SS[N] = Z(t)
  <2>1. CASE k = t
    <3>1. N = L /\ L \in 0..L
      BY <1>8, <2>1
    <3> QED
      BY <3>1, <2>1, <1>11, <1>17
  <2>2. CASE k # t
    <3>1. N \in (L + 1)..N /\ k - (N - L) = t
      BY <1>8, <2>2
    <3> QED
      BY <3>1, <1>18
  <2> QED
    BY <2>1, <2>2
<1>26. \A s \in (t + 1)..k : \E n \in 1..N : WW[n] = st[s]
  <2> TAKE s \in (t + 1)..k
  <2> DEFINE n == L + (k + 1 - s)
  <2>1. n \in (L + 1)..N /\ k + 1 - (n - L) = s /\ n \in 1..N
    BY <1>8
  <2> HIDE DEF n
  <2>2. WW[n] = st[s]
    BY <1>18, <2>1
  <2> QED
    BY <2>1, <2>2
<1>27. SS[N] = Append(SubSeq(T, 1, h[t]), ValueAt(d, After(st, t, x)))
  BY <1>25 DEF Z
<1>28. \A s \in (t + 1)..k : \E n \in 1..Len(pp) : WW[n] = st[s]
  BY <1>8, <1>26
<1>29. SS[Len(pp)] = Append(SubSeq(T, 1, h[t]), ValueAt(d, After(st, t, x)))
  BY <1>8, <1>27
<1>30. \A n \in 1..Len(p) : WW[n] = W[n]
  BY ONLY <1>19
<1>31. AllOut(st, t, WW, Len(pp))
  BY ONLY <1>28 DEF AllOut
<1>32. Emission(d, T, W, p, pp, nums, st, h[t], t, After(st, t, x), SS, WW)
  BY ONLY <1>24, <1>29, <1>30, <1>31 DEF Emission
<1> QED
  BY ONLY <1>32

\* ss is what is under t on st with j on top of it.
Pushed(d, st, h, t, j, ss, hh) ==
    /\ Stacked(d, ss) /\ Heights(d, ss, hh) /\ Len(ss) = t + 1
    /\ \A s \in 1..t : ss[s] = st[s]
    /\ ss[t + 1] = j
    /\ \A s \in 0..t : hh[s] = h[s]
    /\ hh[t + 1] = IF Sign(d, j) \in Operators THEN h[t] + 1 ELSE h[t]

LEMMA PushToken ==
  ASSUME NEW d, NEW st, Stacked(d, st), NEW h, Heights(d, st, h), NEW t \in 0..Len(st),
         NEW j \in Nodes(d), Sign(d, j) \in OpChars, FirstOf(d, j) = Under(st, t) + 1
  PROVE  \E ss, hh : Pushed(d, st, h, t, j, ss, hh)
<1> DEFINE ss == [s \in 1..(t + 1) |-> IF s <= t THEN st[s] ELSE j]
           top == IF Sign(d, j) \in Operators THEN h[t] + 1 ELSE h[t]
           hh == [s \in 0..(t + 1) |-> IF s <= t THEN h[s] ELSE top]
<1>1. Len(st) \in Nat /\ t \in Nat /\ t <= Len(st)
  BY DEF Stacked
<1>2. \A s \in 1..(t + 1) : s \in 1..t \/ s = t + 1
  BY <1>1
<1>3. \A s \in 1..t : s \in 1..Len(st) /\ st[s] \in Nodes(d)
  BY <1>1 DEF Stacked
<1>4. ss \in [1..(t + 1) -> Nodes(d)]
  BY <1>1, <1>2, <1>3
<1>5. t + 1 \in Nat
  BY <1>1
<1>6. ss \in Seq(Nodes(d))
  BY <1>4, <1>5, SeqDef
<1>7. Len(ss) = t + 1
  BY <1>4, <1>5, <1>6, LenProperties
<1>8. (\A s \in 1..t : ss[s] = st[s]) /\ ss[t + 1] = j
  BY <1>1
<1>9. (\A s \in 0..t : hh[s] = h[s]) /\ hh[t + 1] = top
  BY <1>1
<1> HIDE DEF ss, hh
<1>10. \A s \in 0..t : Under(ss, s) = Under(st, s)
  BY <1>1, <1>8 DEF Under
<1>11. Stacked(d, ss)
  <2>1. SUFFICES ASSUME NEW s \in 1..(t + 1)
                 PROVE  /\ ss[s] \in Nodes(d) /\ Sign(d, ss[s]) \in OpChars
                        /\ FirstOf(d, ss[s]) = Under(ss, s - 1) + 1
    BY <1>1, <1>7 DEF Stacked
  <2>2. CASE s \in 1..t
    <3>1. s \in 1..Len(st) /\ s - 1 \in 0..t
      BY <1>1, <2>2
    <3>2. /\ st[s] \in Nodes(d) /\ Sign(d, st[s]) \in OpChars
          /\ FirstOf(d, st[s]) = Under(st, s - 1) + 1
      BY <3>1 DEF Stacked
    <3> QED
      BY <1>8, <1>10, <2>2, <3>1, <3>2
  <2>3. CASE s = t + 1
    <3>1. s - 1 = t /\ t \in 0..t
      BY <1>1, <2>3
    <3> QED
      BY <1>8, <1>10, <2>3, <3>1
  <2> QED
    BY <1>2, <2>2, <2>3
<1>12. /\ h[0] = 0 /\ \A s \in 0..Len(st) : h[s] \in Nat
       /\ \A s \in 1..Len(st) :
            /\ Sign(d, st[s]) \in Operators => h[s] = h[s - 1] + 1
            /\ Sign(d, st[s]) \notin Operators => h[s] = h[s - 1]
       /\ \A s, q \in 0..Len(st) : s <= q => h[s] <= h[q]
  BY DEF Heights
<1>13. hh[0] = 0 /\ \A s \in 0..t : hh[s] \in Nat
  <2>1. 0 \in 0..t /\ \A s \in 0..t : s \in 0..Len(st)
    BY <1>1
  <2> QED
    BY ONLY <1>9, <1>12, <2>1
<1>14. hh[t + 1] \in Nat /\ h[t] <= hh[t + 1] /\ h[t] \in Nat
  <2>1. h[t] \in Nat
    BY <1>12
  <2> QED
    BY <1>9, <2>1
<1>15. \A s \in 1..(t + 1) :
         /\ Sign(d, ss[s]) \in Operators => hh[s] = hh[s - 1] + 1
         /\ Sign(d, ss[s]) \notin Operators => hh[s] = hh[s - 1]
  <2> TAKE s \in 1..(t + 1)
  <2>1. CASE s \in 1..t
    <3>1. s \in 1..Len(st) /\ s - 1 \in 0..t /\ s \in 0..t
      BY <1>1, <2>1
    <3> QED
      BY ONLY <3>1, <2>1, <1>8, <1>9, <1>12
  <2>2. CASE s = t + 1
    <3>1. s - 1 = t /\ t \in 0..t
      BY <1>1, <2>2
    <3>2. hh[t] = h[t]
      BY ONLY <1>9, <3>1
    <3> QED
      BY <1>8, <1>9, <2>2, <3>1, <3>2
  <2> QED
    BY <1>2, <2>1, <2>2
<1>16. \A s, q \in 0..(t + 1) : s <= q => hh[s] <= hh[q]
  <2> SUFFICES ASSUME NEW s \in 0..(t + 1), NEW q \in 0..(t + 1), s <= q PROVE hh[s] <= hh[q]
    OBVIOUS
  <2>1. (s \in 0..t /\ q \in 0..t) \/ (s \in 0..t /\ q = t + 1) \/ (s = t + 1 /\ q = t + 1)
    BY <1>1
  <2>2. CASE s \in 0..t /\ q \in 0..t
    <3>1. s \in 0..Len(st) /\ q \in 0..Len(st)
      BY <1>1, <2>2
    <3> QED
      BY ONLY <3>1, <2>2, <1>9, <1>12, s <= q
  <2>3. CASE s \in 0..t /\ q = t + 1
    <3>1. s \in 0..Len(st) /\ t \in 0..Len(st) /\ s <= t
      BY <1>1, <2>3
    <3>2. h[s] <= h[t] /\ h[s] \in Nat
      BY ONLY <3>1, <1>12
    <3>3. hh[s] = h[s]
      BY ONLY <2>3, <1>9
    <3> QED
      BY ONLY <3>2, <3>3, <1>14, <2>3
  <2>4. CASE s = t + 1 /\ q = t + 1
    BY ONLY <2>4, <1>14
  <2> QED
    BY <2>1, <2>2, <2>3, <2>4
<1>17. \A s \in 0..(t + 1) : hh[s] \in Nat
  <2>1. \A s \in 0..(t + 1) : s \in 0..t \/ s = t + 1
    BY <1>1
  <2> QED
    BY ONLY <2>1, <1>13, <1>14
<1>18. Heights(d, ss, hh)
  BY ONLY <1>7, <1>13, <1>15, <1>16, <1>17 DEF Heights
<1>19. hh[t + 1] = IF Sign(d, j) \in Operators THEN h[t] + 1 ELSE h[t]
  BY <1>9
<1> HIDE DEF top
<1>20. Pushed(d, st, h, t, j, ss, hh)
  BY ONLY <1>7, <1>8, <1>9, <1>11, <1>18, <1>19 DEF Pushed
<1> QED
  BY ONLY <1>20

Cut(d, st, h, t, ss) ==
    Stacked(d, ss) /\ Heights(d, ss, h) /\ Len(ss) = t /\ \A s \in 1..t : ss[s] = st[s]

LEMMA CutStack ==
  ASSUME NEW d, NEW st, Stacked(d, st), NEW h, Heights(d, st, h), NEW t \in 0..Len(st)
  PROVE  \E ss : Cut(d, st, h, t, ss)
<1> DEFINE ss == [s \in 1..t |-> st[s]]
<1>1. Len(st) \in Nat /\ t \in Nat /\ t <= Len(st)
  BY DEF Stacked
<1>2. \A s \in 1..t : s \in 1..Len(st) /\ st[s] \in Nodes(d)
  BY <1>1 DEF Stacked
<1>3. ss \in [1..t -> Nodes(d)]
  BY <1>2
<1>4. ss \in Seq(Nodes(d))
  BY <1>1, <1>3, SeqDef
<1>5. Len(ss) = t
  BY <1>1, <1>3, <1>4, LenProperties
<1>6. \A s \in 1..t : ss[s] = st[s]
  OBVIOUS
<1> HIDE DEF ss
<1>7. Stacked(d, ss)
  <2>1. SUFFICES ASSUME NEW s \in 1..t
                 PROVE  /\ ss[s] \in Nodes(d) /\ Sign(d, ss[s]) \in OpChars
                        /\ FirstOf(d, ss[s]) = Under(ss, s - 1) + 1
    BY <1>1, <1>5 DEF Stacked
  <2>2. /\ st[s] \in Nodes(d) /\ Sign(d, st[s]) \in OpChars
        /\ FirstOf(d, st[s]) = Under(st, s - 1) + 1
    BY <1>2 DEF Stacked
  <2>3. Under(ss, s - 1) = Under(st, s - 1)
    <3>1. s - 1 = 0 \/ s - 1 \in 1..t
      BY <1>1
    <3> QED
      BY ONLY <3>1, <1>6 DEF Under
  <2> QED
    BY <1>6, <2>2, <2>3
<1>8. Heights(d, ss, h)
  <2>1. \A s \in 0..t : s \in 0..Len(st)
    BY <1>1
  <2>2. /\ h[0] = 0 /\ \A s \in 0..Len(st) : h[s] \in Nat
        /\ \A s \in 1..Len(st) :
             /\ Sign(d, st[s]) \in Operators => h[s] = h[s - 1] + 1
             /\ Sign(d, st[s]) \notin Operators => h[s] = h[s - 1]
        /\ \A s, q \in 0..Len(st) : s <= q => h[s] <= h[q]
    BY DEF Heights
  <2> QED
    BY ONLY <1>2, <1>5, <1>6, <2>1, <2>2 DEF Heights
<1>9. Cut(d, st, h, t, ss)
  BY ONLY <1>5, <1>6, <1>7, <1>8 DEF Cut
<1> QED
  BY ONLY <1>9

LEMMA CharacterKinds ==
  /\ \A c \in DigitSet : c \notin OpChars /\ c \notin Operators /\ c # "(" /\ c # ")" /\ c # "n" /\ c # "NUL"
  /\ \A c \in Operators : c \in OpChars /\ c \notin DigitSet /\ c # "(" /\ c # ")" /\ c # "n" /\ c # "NUL"
  /\ "(" \in OpChars /\ "(" \notin Operators /\ "(" \notin DigitSet
  /\ ")" \notin OpChars /\ ")" \notin Operators /\ ")" \notin DigitSet
  /\ "n" \notin Operators /\ "n" \notin OpChars
BY DEF DigitSet, OpChars, Operators

\* Where an operand must begin, the tree has a number or a "(".
LEMMA OperandBegins ==
  ASSUME NEW d, Parsed(d), NEW o, NEW p, NEW nums, NEW st, NEW h, NEW S, NEW W,
         Stacks(d, o, p, nums, st, h, S, W), NEW j, Awaits(d, st, h, S[Len(p)], j, 0)
  PROVE  j \in Nodes(d) /\ Sign(d, j) \in DigitSet \union {"("}
<1>1. Stacked(d, st) /\ j = Under(st, Len(st)) + 1
  BY DEF Stacks, Awaits
<1> QED
  BY <1>1, Begins

\* Behind an operand: the chain above t is complete, and the tree has a parent of
\* what that chain amounts to, or the end.
LEMMA OperandEnds ==
  ASSUME NEW d, Parsed(d), NEW o, NEW p, NEW nums, NEW st, NEW h, NEW S, NEW W,
         Stacks(d, o, p, nums, st, h, S, W), NEW x, x # 0, NEW j, Awaits(d, st, h, S[Len(p)], j, x)
  PROVE  \E t \in 0..Len(st) : Follows(d, st, t, x, j)
<1>1. Stacked(d, st) /\ x \in Nodes(d) /\ FirstOf(d, x) = Under(st, Len(st)) + 1 /\ LastOf(d, x) = j - 1
  BY DEF Stacks, Awaits
<1>2. j \in Nat
  <2>1. j \in 1..(Len(d.tokens) + 1) /\ Len(d.tokens) \in Nat
    BY DEF Awaits, Parsed
  <2> QED
    BY <2>1
<1> QED
  BY <1>1, <1>2, Reached

\* An operand is awaited where one begins, and nowhere else.
LEMMA AwaitsOperand ==
  ASSUME NEW d, Parsed(d), NEW o, NEW p, NEW nums, NEW j, NEW x, Scanning(d, o, p, nums, j, x)
  PROVE  x = 0 <=> (j \in Nodes(d) /\ Sign(d, j) \in DigitSet \union {"("})
<1>1. PICK st, h, S, W : Stacks(d, o, p, nums, st, h, S, W) /\ Awaits(d, st, h, S[Len(p)], j, x)
  BY DEF Scanning
<1>2. CASE x = 0
  BY <1>1, <1>2, OperandBegins
<1>3. CASE x # 0
  <2>1. PICK t \in 0..Len(st) : Follows(d, st, t, x, j)
    BY <1>1, <1>3, OperandEnds
  <2>2. \/ j \in Nodes(d) /\ Sign(d, j) \in Operators
        \/ Sign(d, j) = ")"
        \/ j = Len(d.tokens) + 1
    BY <2>1 DEF Follows
  <2>3. j \in Nodes(d) => j # Len(d.tokens) + 1
    BY SignFacts
  <2> QED
    BY <1>3, <2>2, <2>3, CharacterKinds
<1> QED
  BY <1>2, <1>3

LEMMA LeftsBelow ==
  ASSUME NEW d, NEW st, Stacked(d, st), NEW h, Heights(d, st, h), NEW t \in 1..Len(st),
         Sign(d, st[t]) \in Operators, NEW s \in t..Len(st)
  PROVE  h[t] \in 1..h[s] /\ h[s] \in Nat
<1>1. t \in 0..Len(st) /\ s \in 0..Len(st) /\ t - 1 \in 0..Len(st) /\ t <= s
  BY DEF Stacked
<1>2. h[t] = h[t - 1] + 1 /\ h[t] <= h[s] /\ h[t - 1] \in Nat /\ h[s] \in Nat /\ h[t] \in Nat
  BY ONLY <1>1, Heights(d, st, h), t \in 1..Len(st), Sign(d, st[t]) \in Operators DEF Heights
<1> QED
  BY ONLY <1>2

\* A number goes to postfix_string, and the operand is there.
LEMMA NumberRead ==
  ASSUME NEW d, Parsed(d), NEW o, NEW p \in Seq(Entry), NEW nums \in Seq(Word),
         NEW j \in Nodes(d), Sign(d, j) \in DigitSet, Scanning(d, o, p, nums, j, 0)
  PROVE  Scanning(d, o, Append(p, [op |-> "n", k |-> Len(nums) + 1]), Append(nums, ValueAt(d, j)),
                  j + 1, j)
<1>1. PICK st, h, S, W : /\ Stacks(d, o, p, nums, st, h, S, W)
                         /\ Awaits(d, st, h, S[Len(p)], j, 0) /\ Covered(d, st, W, Len(p), j)
  BY DEF Scanning
<1> DEFINE L == Len(p)
           T == S[L]
           v == ValueAt(d, j)
           e == [op |-> "n", k |-> Len(nums) + 1]
           pp == Append(p, e)
           nn == Append(nums, v)
           TT == Append(T, v)
           SS == [n \in 0..(L + 1) |-> IF n <= L THEN S[n] ELSE TT]
           WW == [n \in 1..(L + 1) |-> IF n <= L THEN W[n] ELSE j]
<1>2. /\ Stacked(d, st) /\ Heights(d, st, h) /\ Run(d, S, W, p, nums) /\ Lefts(d, st, h, T)
      /\ Len(o) = Len(st) /\ \A t \in 1..Len(st) : o[t] = Sign(d, st[t])
  BY <1>1 DEF Stacks
<1>3. /\ j \in 1..Len(d.tokens) /\ Len(d.tokens) \in Nat
      /\ FirstOf(d, j) = j /\ LastOf(d, j) = j /\ v \in Word
  BY SignFacts, NumberNode, NodeFacts
<1>4. j = Under(st, Len(st)) + 1 /\ Len(T) = h[Len(st)]
  BY <1>1 DEF Awaits
<1>5. L \in Nat /\ T \in Seq(Word)
  BY <1>2 DEF Run
<1>6. TT \in Seq(Word) /\ Len(TT) = Len(T) + 1 /\ TT[Len(T) + 1] = v /\ \A n \in 1..Len(T) : TT[n] = T[n]
  BY <1>3, <1>5
<1>7. /\ Len(nn) = Len(nums) + 1 /\ nn[Len(nums) + 1] = v /\ Len(nums) \in Nat
      /\ \A n \in 1..Len(nums) : nn[n] = nums[n]
  BY <1>3
<1>8. e \in Entry /\ e.op = "n" /\ e.k = Len(nums) + 1
  BY <1>7 DEF Entry
<1> HIDE DEF e
<1>9. /\ Len(pp) = L + 1 /\ pp[L + 1] = e /\ \A n \in 1..L : pp[n] = p[n]
  BY <1>8
<1> HIDE DEF v, pp, nn, TT, T
<1>10. /\ \A n \in 0..L : SS[n] = S[n]
       /\ SS[L + 1] = TT /\ WW[L + 1] = j /\ \A n \in 1..L : WW[n] = W[n]
  BY <1>5
<1> HIDE DEF SS, WW
<1>11. Run(d, SS, WW, pp, nn)
  <2>1. S[0] = <<>> /\ (\A n \in 0..L : S[n] \in Seq(Word))
        /\ \A n \in 1..L : Turn(d, S[n - 1], S[n], W[n], p[n], nums)
    BY <1>2 DEF Run
  <2>2. /\ 0 \in 0..L /\ L \in 0..L /\ L + 1 \in Nat /\ (L + 1) - 1 = L
        /\ \A n \in 0..(L + 1) : n \in 0..L \/ n = L + 1
        /\ \A n \in 1..(L + 1) : (n \in 1..L /\ n - 1 \in 0..L /\ n \in 0..L) \/ n = L + 1
    BY <1>5
  <2>3. \A n \in 0..(L + 1) : SS[n] \in Seq(Word)
    BY ONLY <2>1, <2>2, <1>6, <1>10
  <2>4. \A n \in 1..L : Turn(d, SS[n - 1], SS[n], WW[n], pp[n], nn)
    <3> TAKE n \in 1..L
    <3>1. Turn(d, S[n - 1], S[n], W[n], p[n], nums)
      BY ONLY <2>1, n \in 1..L
    <3>2. Turn(d, S[n - 1], S[n], W[n], p[n], nn)
      <4>1. p[n].k \in 1..Len(nums) => p[n].k \in 1..Len(nn) /\ nn[p[n].k] = nums[p[n].k]
        BY ONLY <1>7
      <4> QED
        BY ONLY <3>1, <4>1 DEF Turn
    <3> QED
      BY ONLY <3>2, <2>2, <1>9, <1>10, n \in 1..L
  <2>5. Turn(d, T, TT, j, e, nn)
    <3>1. e.k \in 1..Len(nn) /\ nn[e.k] = ValueAt(d, j)
      BY <1>7, <1>8 DEF v
    <3>2. TT = Append(T, ValueAt(d, j))
      BY DEF TT, v
    <3> QED
      BY ONLY <1>8, <3>1, <3>2, j \in Nodes(d), Sign(d, j) \in DigitSet DEF Turn
  <2>6. SS[L] = T
    BY ONLY <2>2, <1>10 DEF T
  <2>7. \A n \in 1..(L + 1) : Turn(d, SS[n - 1], SS[n], WW[n], pp[n], nn)
    BY ONLY <2>2, <2>4, <2>5, <2>6, <1>9, <1>10
  <2>8. SS[0] = <<>>
    BY ONLY <2>1, <2>2, <1>10
  <2> QED
    BY ONLY <2>2, <2>3, <2>7, <2>8, <1>9 DEF Run
<1>12. SS[Len(pp)] = TT
  BY <1>9, <1>10
<1>13. Lefts(d, st, h, TT)
  <2> SUFFICES ASSUME NEW t \in 1..Len(st), Sign(d, st[t]) \in Operators
               PROVE  TT[h[t]] = ValueAt(d, LeftOf(d, st[t]))
    BY DEF Lefts
  <2>1. Len(st) \in t..Len(st)
    BY <1>2 DEF Stacked
  <2>2. h[t] \in 1..Len(T)
    BY <1>2, <1>4, <2>1, LeftsBelow
  <2>3. T[h[t]] = ValueAt(d, LeftOf(d, st[t]))
    BY <1>2 DEF Lefts
  <2> QED
    BY ONLY <1>6, <2>2, <2>3
<1>14. Stacks(d, o, pp, nn, st, h, SS, WW)
  BY <1>2, <1>11, <1>12, <1>13 DEF Stacks
<1>15. Awaits(d, st, h, SS[Len(pp)], j + 1, j)
  <2>1. j + 1 \in 1..(Len(d.tokens) + 1) /\ j # 0 /\ (j + 1) - 1 = j
    BY <1>3
  <2>2. Len(TT) = h[Len(st)] + 1 /\ TT[Len(TT)] = ValueAt(d, j)
    BY <1>4, <1>6 DEF v
  <2> QED
    BY ONLY <1>3, <1>4, <1>12, <2>1, <2>2, j \in Nodes(d) DEF Awaits
<1>16. Covered(d, st, WW, Len(pp), j + 1)
  <2> SUFFICES ASSUME NEW q \in Nodes(d), q < j + 1, Sign(d, q) \in Operators
               PROVE  (\E t \in 1..Len(st) : st[t] = q) \/ (\E m \in 1..Len(pp) : WW[m] = q)
    BY DEF Covered
  <2>1. q # j
    BY CharacterKinds
  <2>2. q < j
    BY <1>3, <2>1, SignFacts
  <2>3. (\E t \in 1..Len(st) : st[t] = q) \/ (\E m \in 1..L : W[m] = q)
    BY <1>1, <2>2 DEF Covered
  <2>4. \A m \in 1..L : m \in 1..Len(pp) /\ WW[m] = W[m]
    BY <1>5, <1>9, <1>10
  <2> QED
    BY ONLY <2>3, <2>4
<1>17. Scanning(d, o, pp, nn, j + 1, j)
  BY ONLY <1>14, <1>15, <1>16 DEF Scanning
<1> QED
  BY <1>17 DEF pp, nn, e, v

\* A "(" goes on operator_stack.
LEMMA Opened ==
  ASSUME NEW d, Parsed(d), NEW o \in Seq(OpChars), NEW p, NEW nums,
         NEW j \in Nodes(d), Sign(d, j) = "(", Scanning(d, o, p, nums, j, 0)
  PROVE  Scanning(d, Append(o, "("), p, nums, j + 1, 0)
<1>1. PICK st, h, S, W : /\ Stacks(d, o, p, nums, st, h, S, W)
                         /\ Awaits(d, st, h, S[Len(p)], j, 0) /\ Covered(d, st, W, Len(p), j)
  BY DEF Scanning
<1> DEFINE T == S[Len(p)]
           t == Len(st)
           oo == Append(o, "(")
<1>2. /\ Stacked(d, st) /\ Heights(d, st, h) /\ Run(d, S, W, p, nums) /\ Lefts(d, st, h, T)
      /\ Len(o) = Len(st) /\ \A s \in 1..Len(st) : o[s] = Sign(d, st[s])
  BY <1>1 DEF Stacks
<1>3. j \in 1..Len(d.tokens) /\ Len(d.tokens) \in Nat /\ FirstOf(d, j) = j
  BY SignFacts, ParenNode
<1>4. j = Under(st, t) + 1 /\ Len(T) = h[t]
  BY <1>1 DEF Awaits
<1>5. t \in Nat /\ t \in 0..Len(st) /\ Len(o) = t
  BY <1>2 DEF Stacked
<1>6. Len(oo) = t + 1 /\ oo[t + 1] = "(" /\ \A s \in 1..t : oo[s] = o[s]
  BY <1>5
<1> HIDE DEF oo, T
<1>7. PICK ss, hh : Pushed(d, st, h, t, j, ss, hh)
  <2>1. Sign(d, j) \in OpChars /\ FirstOf(d, j) = Under(st, t) + 1
    BY <1>3, <1>4, CharacterKinds
  <2> HIDE DEF t
  <2> QED
    BY ONLY <2>1, <1>2, <1>5, j \in Nodes(d), PushToken
<1>8. /\ Stacked(d, ss) /\ Heights(d, ss, hh) /\ Len(ss) = t + 1
      /\ \A s \in 1..t : ss[s] = st[s]
      /\ ss[t + 1] = j
      /\ \A s \in 0..t : hh[s] = h[s]
      /\ hh[t + 1] = IF Sign(d, j) \in Operators THEN h[t] + 1 ELSE h[t]
  BY <1>7 DEF Pushed
<1> HIDE DEF t
<1>9. hh[t + 1] = h[t]
  BY <1>8, CharacterKinds
<1>10. \A s \in 1..(t + 1) : (s \in 1..t /\ s \in 0..t /\ s \in 1..Len(st)) \/ s = t + 1
  BY <1>5
<1>11. \A s \in 1..Len(ss) : oo[s] = Sign(d, ss[s])
  BY ONLY <1>2, <1>6, <1>8, <1>10, Sign(d, j) = "("
<1>12. Lefts(d, ss, hh, T)
  <2>1. \A s \in 1..Len(st) : Sign(d, st[s]) \in Operators => T[h[s]] = ValueAt(d, LeftOf(d, st[s]))
    BY <1>2 DEF Lefts
  <2>2. Sign(d, j) \notin Operators
    BY CharacterKinds
  <2> QED
    BY ONLY <2>1, <2>2, <1>8, <1>10 DEF Lefts
<1>13. Stacks(d, oo, p, nums, ss, hh, S, W)
  BY <1>2, <1>6, <1>8, <1>11, <1>12 DEF Stacks, T
<1>14. Awaits(d, ss, hh, S[Len(p)], j + 1, 0)
  <2>1. j + 1 \in 1..(Len(d.tokens) + 1)
    BY <1>3
  <2>2. Under(ss, Len(ss)) = j
    BY <1>5, <1>8 DEF Under
  <2> QED
    BY <1>4, <1>8, <1>9, <2>1, <2>2 DEF Awaits, T
<1>15. Covered(d, ss, W, Len(p), j + 1)
  <2> SUFFICES ASSUME NEW q \in Nodes(d), q < j + 1, Sign(d, q) \in Operators
               PROVE  (\E s \in 1..Len(ss) : ss[s] = q) \/ (\E m \in 1..Len(p) : W[m] = q)
    BY DEF Covered
  <2>1. q # j
    BY CharacterKinds
  <2>2. q < j
    BY <1>3, <2>1, SignFacts
  <2>3. (\E s \in 1..Len(st) : st[s] = q) \/ (\E m \in 1..Len(p) : W[m] = q)
    BY <1>1, <2>2 DEF Covered
  <2>4. \A s \in 1..Len(st) : s \in 1..Len(ss) /\ ss[s] = st[s]
    BY <1>5, <1>8 DEF t
  <2> QED
    BY ONLY <2>3, <2>4
<1>16. Scanning(d, oo, p, nums, j + 1, 0)
  BY ONLY <1>13, <1>14, <1>15 DEF Scanning
<1> QED
  BY <1>16 DEF oo

LEMMA CutTop ==
  ASSUME NEW T \in Seq(Word), NEW b \in Nat, b <= Len(T), NEW v \in Word
  PROVE  LET U == Append(SubSeq(T, 1, b), v)
         IN /\ Len(U) = b + 1 /\ U[b + 1] = v
            /\ \A n \in 1..b : U[n] = T[n]
<1> DEFINE F == SubSeq(T, 1, b)
<1>1. F \in Seq(Word) /\ Len(F) = b /\ \A n \in 1..b : F[n] = T[n]
  OBVIOUS
<1> HIDE DEF F
<1>2. LET U == Append(F, v)
      IN Len(U) = b + 1 /\ U[b + 1] = v /\ \A n \in 1..b : U[n] = F[n]
  BY <1>1
<1> QED
  BY <1>1, <1>2 DEF F

\* No operator is lost when those above t are moved.
LEMMA StillCovered ==
  ASSUME NEW d, Parsed(d), NEW o, NEW p, NEW nums, NEW st, NEW h, NEW S, NEW W,
         Stacks(d, o, p, nums, st, h, S, W),
         NEW j, Covered(d, st, W, Len(p), j), NEW t \in 0..Len(st), NEW pp, Moves(pp, p, o, t),
         NEW values, NEW nodes, NEW T, NEW b, NEW z,
         Emission(d, T, W, p, pp, nums, st, b, t, z, values, nodes),
         NEW q \in Nodes(d), q < j, Sign(d, q) \in Operators
  PROVE  (\E s \in 1..t : st[s] = q) \/ (\E m \in 1..Len(pp) : nodes[m] = q)
<1>1. (\E s \in 1..Len(st) : st[s] = q) \/ (\E m \in 1..Len(p) : W[m] = q)
  BY DEF Covered
<1>2. Len(p) \in Nat /\ Len(st) \in Nat /\ Len(o) = Len(st)
  BY DEF Stacks, Run, Stacked
<1>3. Len(pp) = Len(p) + (Len(o) - t) /\ t \in Nat /\ t <= Len(st)
  BY <1>2 DEF Moves
<1>4. ASSUME NEW m \in 1..Len(p), W[m] = q
      PROVE  \E n \in 1..Len(pp) : nodes[n] = q
  <2>1. m \in 1..Len(pp)
    BY <1>2, <1>3
  <2>2. nodes[m] = q
    BY <1>4 DEF Emission
  <2> QED
    BY <2>1, <2>2
<1>5. ASSUME NEW s \in 1..Len(st), st[s] = q, s > t
      PROVE  \E n \in 1..Len(pp) : nodes[n] = q
  <2>1. s \in (t + 1)..Len(st)
    BY <1>2, <1>3, <1>5
  <2>2. AllOut(st, t, nodes, Len(pp))
    BY DEF Emission
  <2> QED
    BY <1>5, <2>1, <2>2 DEF AllOut
<1>6. ASSUME NEW s \in 1..Len(st), st[s] = q, ~(s > t)
      PROVE  \E r \in 1..t : st[r] = q
  <2>1. s \in 1..t
    BY <1>2, <1>3, <1>6
  <2> QED
    BY <1>6, <2>1
<1> QED
  BY <1>1, <1>4, <1>5, <1>6

\* A ")" moves what is above the innermost "(" on the stack, which is the one that
\* the tree has for it.
LEMMA Closed ==
  ASSUME NEW d, Parsed(d), NEW o \in Seq(OpChars), NEW p, NEW nums, NEW j, NEW x,
         Scanning(d, o, p, nums, j, x), j \in 1..Len(d.tokens), Sign(d, j) = ")",
         NEW m \in 0..Len(o), m # 0 => o[m] = "(", \A s \in (m + 1)..Len(o) : o[s] # "(",
         NEW pp, Moves(pp, p, o, m)
  PROVE  \E y : Scanning(d, SubSeq(o, 1, m - 1), pp, nums, j + 1, y)
<1>1. PICK st, h, S, W : /\ Stacks(d, o, p, nums, st, h, S, W)
                         /\ Awaits(d, st, h, S[Len(p)], j, x) /\ Covered(d, st, W, Len(p), j)
  BY DEF Scanning
<1> DEFINE T == S[Len(p)]
<1>2. /\ Stacked(d, st) /\ Heights(d, st, h) /\ Run(d, S, W, p, nums) /\ Lefts(d, st, h, T)
      /\ Len(o) = Len(st) /\ \A s \in 1..Len(st) : o[s] = Sign(d, st[s])
  BY <1>1 DEF Stacks
<1>3. x # 0
  BY AwaitsOperand, CharacterKinds
<1>4. PICK t \in 0..Len(st) : Follows(d, st, t, x, j)
  BY <1>1, <1>3, OperandEnds
<1> DEFINE z == After(st, t, x)
<1>5. Len(st) \in Nat /\ Len(d.tokens) \in Nat /\ j \in Nat
  BY <1>2 DEF Stacked, Parsed
<1>6. /\ Chain(d, st, t, x, j) /\ z \in Nodes(d)
      /\ t # 0 /\ Sign(d, st[t]) = "(" /\ RightOf(d, st[t]) = z /\ LastOf(d, st[t]) = j
  BY <1>4, <1>5, CharacterKinds DEF Follows
<1>7. t \in 1..Len(st) /\ t \in Nat
  BY <1>5, <1>6
<1>8. m = t
  <2>1. o[t] = "("
    BY <1>2, <1>6, <1>7
  <2>2. ~(t \in (m + 1)..Len(o))
    BY <2>1
  <2>3. ~(m \in (t + 1)..Len(st))
    <3> SUFFICES ASSUME m \in (t + 1)..Len(st) PROVE FALSE
      OBVIOUS
    <3>1. m # 0 /\ m \in 1..Len(st)
      BY <1>5, <1>7
    <3>2. Sign(d, st[m]) \in Operators
      BY <1>6 DEF Chain
    <3>3. Sign(d, st[m]) = "("
      BY <1>2, <3>1
    <3> QED
      BY <3>2, <3>3, CharacterKinds
  <2> QED
    BY ONLY <1>2, <1>5, <1>7, <2>2, <2>3, m \in 0..Len(o)
<1>9. Moves(pp, p, o, t)
  BY <1>8
<1>10. PICK values, nodes : Emission(d, T, W, p, pp, nums, st, h[t], t, z, values, nodes)
  BY <1>1, <1>3, <1>6, <1>9, Emitting
<1>11. st[t] \in Nodes(d) /\ FirstOf(d, st[t]) = Under(st, t - 1) + 1
  BY <1>2, <1>7 DEF Stacked
<1>12. ValueAt(d, st[t]) = ValueAt(d, z) /\ ValueAt(d, z) \in Word /\ st[t] # 0
  BY <1>6, <1>11, ParenNode, NodeFacts, SignFacts
<1>13. T \in Seq(Word)
  BY <1>2 DEF Run
<1>14. Len(T) = h[Len(st)] + 1
  BY <1>1, <1>3 DEF Awaits
<1>15. h[t] \in Nat /\ h[t] = h[t - 1] /\ h[t] <= Len(T)
  <2>1. t \in 0..Len(st) /\ Len(st) \in 0..Len(st) /\ t <= Len(st)
    BY <1>5, <1>7
  <2>2. /\ h[t] \in Nat /\ h[Len(st)] \in Nat /\ h[t] <= h[Len(st)]
        /\ Sign(d, st[t]) \notin Operators => h[t] = h[t - 1]
    BY ONLY <1>2, <1>7, <2>1 DEF Heights
  <2> QED
    BY <1>6, <1>14, <2>2, CharacterKinds
<1> DEFINE TT == values[Len(pp)]
<1>16. Len(TT) = h[t] + 1 /\ TT[h[t] + 1] = ValueAt(d, z) /\ \A n \in 1..h[t] : TT[n] = T[n]
  <2>1. TT = Append(SubSeq(T, 1, h[t]), ValueAt(d, z))
    BY <1>10 DEF Emission
  <2> HIDE DEF TT, T, z
  <2> QED
    BY ONLY <2>1, <1>12, <1>13, <1>15, CutTop
<1>17. Run(d, values, nodes, pp, nums)
  BY <1>10 DEF Emission
<1> HIDE DEF TT, T, z
<1>18. PICK ss : Cut(d, st, h, t - 1, ss)
  <2>1. t - 1 \in 0..Len(st)
    BY <1>5, <1>7
  <2> QED
    BY <1>2, <2>1, CutStack
<1>19. /\ Stacked(d, ss) /\ Heights(d, ss, h) /\ Len(ss) = t - 1
       /\ \A s \in 1..(t - 1) : ss[s] = st[s]
  BY <1>18 DEF Cut
<1> DEFINE oo == SubSeq(o, 1, m - 1)
<1>20. Len(oo) = t - 1 /\ \A s \in 1..(t - 1) : oo[s] = o[s]
  <2>1. t - 1 \in Nat /\ t - 1 <= Len(o) /\ oo = SubSeq(o, 1, t - 1)
    BY <1>2, <1>5, <1>7, <1>8
  <2> HIDE DEF oo
  <2> QED
    BY <2>1
<1> HIDE DEF oo
<1>21. \A s \in 1..(t - 1) : s \in 1..Len(st) /\ t \in s..Len(st)
  BY <1>5, <1>7
<1>22. Lefts(d, ss, h, TT)
  <2> SUFFICES ASSUME NEW s \in 1..(t - 1), Sign(d, st[s]) \in Operators
               PROVE  TT[h[s]] = ValueAt(d, LeftOf(d, st[s]))
    BY <1>19 DEF Lefts
  <2>1. h[s] \in 1..h[t]
    BY <1>2, <1>21, LeftsBelow
  <2>2. T[h[s]] = ValueAt(d, LeftOf(d, st[s]))
    BY <1>2, <1>21 DEF Lefts
  <2> QED
    BY ONLY <1>16, <2>1, <2>2
<1>23. Stacks(d, oo, pp, nums, ss, h, values, nodes)
  <2>1. \A s \in 1..Len(ss) : oo[s] = Sign(d, ss[s])
    BY ONLY <1>2, <1>19, <1>20, <1>21
  <2> QED
    BY <1>17, <1>19, <1>20, <1>22, <2>1 DEF Stacks, TT
<1>24. Awaits(d, ss, h, values[Len(pp)], j + 1, st[t])
  <2>1. j + 1 \in 1..(Len(d.tokens) + 1) /\ (j + 1) - 1 = j
    BY <1>5
  <2>2. Under(ss, Len(ss)) = Under(st, t - 1)
    <3>1. t - 1 = 0 \/ t - 1 \in 1..(t - 1)
      BY <1>7
    <3> QED
      BY ONLY <3>1, <1>19 DEF Under
  <2>3. Len(TT) = h[Len(ss)] + 1 /\ TT[Len(TT)] = ValueAt(d, st[t])
    BY <1>12, <1>15, <1>16, <1>19
  <2> QED
    BY ONLY <1>6, <1>11, <1>12, <2>1, <2>2, <2>3 DEF Awaits, TT
<1>25. Covered(d, ss, nodes, Len(pp), j + 1)
  <2> SUFFICES ASSUME NEW q \in Nodes(d), q < j + 1, Sign(d, q) \in Operators
               PROVE  (\E s \in 1..Len(ss) : ss[s] = q) \/ (\E n \in 1..Len(pp) : nodes[n] = q)
    BY DEF Covered
  <2>1. q # j /\ q \in Nat
    BY CharacterKinds, SignFacts
  <2>2. q < j
    BY <1>5, <2>1
  <2>3. (\E s \in 1..t : st[s] = q) \/ (\E n \in 1..Len(pp) : nodes[n] = q)
    BY <1>1, <1>9, <1>10, <2>2, StillCovered
  <2>4. \A s \in 1..t : st[s] = q => s \in 1..(t - 1)
    <3>1. \A s \in 1..t : s = t \/ s \in 1..(t - 1)
      BY <1>7
    <3>2. st[t] # q
      BY <1>6, CharacterKinds
    <3> QED
      BY ONLY <3>1, <3>2
  <2> QED
    BY ONLY <1>19, <2>3, <2>4
<1>26. Scanning(d, oo, pp, nums, j + 1, st[t])
  BY ONLY <1>23, <1>24, <1>25 DEF Scanning
<1> QED
  BY <1>26 DEF oo

\* An operator moves what binds tighter than it does, and what is left below
\* is where the tree has it.
LEMMA Operated ==
  ASSUME NEW d, Parsed(d), NEW o \in Seq(OpChars), NEW p, NEW nums, NEW j \in Nodes(d), NEW x,
         Scanning(d, o, p, nums, j, x), NEW c \in Operators, c = Sign(d, j),
         NEW m \in 0..Len(o), m # 0 => ~Higher(o[m], c), \A s \in (m + 1)..Len(o) : Higher(o[s], c),
         NEW pp, Moves(pp, p, o, m)
  PROVE  Scanning(d, Append(SubSeq(o, 1, m), c), pp, nums, j + 1, 0)
<1>1. PICK st, h, S, W : /\ Stacks(d, o, p, nums, st, h, S, W)
                         /\ Awaits(d, st, h, S[Len(p)], j, x) /\ Covered(d, st, W, Len(p), j)
  BY DEF Scanning
<1> DEFINE T == S[Len(p)]
<1>2. /\ Stacked(d, st) /\ Heights(d, st, h) /\ Run(d, S, W, p, nums) /\ Lefts(d, st, h, T)
      /\ Len(o) = Len(st) /\ \A s \in 1..Len(st) : o[s] = Sign(d, st[s])
  BY <1>1 DEF Stacks
<1>3. x # 0
  BY AwaitsOperand, CharacterKinds
<1>4. PICK t \in 0..Len(st) : Follows(d, st, t, x, j)
  BY <1>1, <1>3, OperandEnds
<1> DEFINE z == After(st, t, x)
<1>5. /\ Len(st) \in Nat /\ Len(d.tokens) \in Nat /\ j \in 1..Len(d.tokens) /\ t \in Nat
      /\ t <= Len(st) /\ Len(st) \in 0..Len(st)
  BY <1>2, SignFacts DEF Stacked
<1>6. /\ Chain(d, st, t, x, j) /\ z \in Nodes(d) /\ FirstOf(d, z) = Under(st, t) + 1
      /\ LeftOf(d, j) = z
  <2>1. Sign(d, j) # ")" /\ j # Len(d.tokens) + 1
    BY <1>5, CharacterKinds
  <2> QED
    BY <1>4, <2>1 DEF Follows
<1>7. \A s \in (t + 1)..Len(st) : Higher(o[s], c)
  <2> TAKE s \in (t + 1)..Len(st)
  <2>1. Place(Sign(d, st[s])) > Place(Sign(d, j))
    BY <1>2, <1>6, Tighter
  <2>2. Sign(d, st[s]) \in Operators
    BY <1>6 DEF Chain
  <2>3. s \in 1..Len(st)
    BY <1>5
  <2>4. o[s] = Sign(d, st[s])
    BY <1>2, <2>3
  <2> QED
    BY ONLY <2>1, <2>2, <2>4, c = Sign(d, j) DEF Higher
<1>8. t # 0 => ~Higher(o[t], c)
  <2> SUFFICES ASSUME t # 0, Higher(o[t], c) PROVE FALSE
    OBVIOUS
  <2>1. t \in 1..Len(st)
    BY <1>5
  <2>2. o[t] = Sign(d, st[t]) /\ st[t] \in Nodes(d) /\ Under(st, t) = st[t]
    BY <1>2, <2>1 DEF Stacked, Under
  <2>3. Sign(d, st[t]) \in Operators /\ Place(Sign(d, st[t])) > Place(Sign(d, j))
    BY <2>2 DEF Higher
  <2>4. Place(Sign(d, st[t])) <= Place(Sign(d, j))
    BY <1>6, <2>2, <2>3, Looser
  <2> QED
    BY ONLY <2>3, <2>4, PlaceInt
<1>9. m = t
  <2>1. ~(t \in (m + 1)..Len(o))
    <3>1. t \in (m + 1)..Len(o) => t # 0
      BY ONLY m \in 0..Len(o), <1>2, <1>5
    <3> QED
      BY <1>8, <3>1
  <2>2. ~(m \in (t + 1)..Len(st))
    <3>1. m \in (t + 1)..Len(st) => m # 0
      BY ONLY <1>5
    <3> QED
      BY <1>7, <3>1
  <2> QED
    BY ONLY <1>2, <1>5, <2>1, <2>2, m \in 0..Len(o)
<1>10. Moves(pp, p, o, t)
  BY <1>9
<1>11. PICK values, nodes : Emission(d, T, W, p, pp, nums, st, h[t], t, z, values, nodes)
  BY <1>1, <1>3, <1>6, <1>10, Emitting
<1>12. ValueAt(d, z) \in Word
  BY <1>6, NodeFacts
<1>13. T \in Seq(Word)
  BY <1>2 DEF Run
<1>14. Len(T) = h[Len(st)] + 1
  BY <1>1, <1>3 DEF Awaits
<1>15. h[t] \in Nat /\ h[t] <= Len(T)
  <2>1. h[t] \in Nat /\ h[Len(st)] \in Nat /\ h[t] <= h[Len(st)]
    BY ONLY <1>2, <1>5, t \in 0..Len(st) DEF Heights
  <2> QED
    BY <1>14, <2>1
<1> DEFINE TT == values[Len(pp)]
<1>16. Len(TT) = h[t] + 1 /\ TT[h[t] + 1] = ValueAt(d, z) /\ \A n \in 1..h[t] : TT[n] = T[n]
  <2>1. TT = Append(SubSeq(T, 1, h[t]), ValueAt(d, z))
    BY <1>11 DEF Emission
  <2> HIDE DEF TT, T, z
  <2> QED
    BY ONLY <2>1, <1>12, <1>13, <1>15, CutTop
<1>17. Run(d, values, nodes, pp, nums)
  BY <1>11 DEF Emission
<1>18. FirstOf(d, j) = Under(st, t) + 1
  BY <1>6, OperatorNode
<1> HIDE DEF TT, T, z
<1>19. PICK ss, hh : Pushed(d, st, h, t, j, ss, hh)
  BY <1>2, <1>18, PushToken, CharacterKinds
<1>20. /\ Stacked(d, ss) /\ Heights(d, ss, hh) /\ Len(ss) = t + 1
       /\ \A s \in 1..t : ss[s] = st[s]
       /\ ss[t + 1] = j
       /\ \A s \in 0..t : hh[s] = h[s]
       /\ hh[t + 1] = h[t] + 1
  BY <1>19 DEF Pushed
<1> DEFINE oo == Append(SubSeq(o, 1, m), c)
<1>21. Len(oo) = t + 1 /\ oo[t + 1] = c /\ \A s \in 1..t : oo[s] = o[s]
  <2> DEFINE F == SubSeq(o, 1, m)
  <2>1. F \in Seq(OpChars) /\ Len(F) = t /\ \A s \in 1..t : F[s] = o[s]
    BY <1>2, <1>5, <1>9
  <2> HIDE DEF F
  <2>2. Len(Append(F, c)) = t + 1 /\ Append(F, c)[t + 1] = c /\ \A s \in 1..t : Append(F, c)[s] = F[s]
    BY <2>1, CharacterKinds
  <2> QED
    BY <2>1, <2>2 DEF F
<1> HIDE DEF oo
<1>22. \A s \in 1..(t + 1) :
         (s \in 1..t /\ s \in 0..t /\ s \in 1..Len(st) /\ t \in s..Len(st)) \/ s = t + 1
  BY <1>5
<1>23. Lefts(d, ss, hh, TT)
  <2> SUFFICES ASSUME NEW s \in 1..(t + 1), Sign(d, ss[s]) \in Operators
               PROVE  TT[hh[s]] = ValueAt(d, LeftOf(d, ss[s]))
    BY <1>20 DEF Lefts
  <2>1. CASE s \in 1..t
    <3>1. s \in 0..t /\ s \in 1..Len(st) /\ t \in s..Len(st)
      BY <1>5, <2>1
    <3>2. ss[s] = st[s] /\ hh[s] = h[s]
      BY ONLY <1>20, <2>1, <3>1
    <3>3. Sign(d, st[s]) \in Operators
      BY <3>2
    <3>4. h[s] \in 1..h[t]
      BY <1>2, <3>1, <3>3, LeftsBelow
    <3>5. T[h[s]] = ValueAt(d, LeftOf(d, st[s]))
      BY <1>2, <3>1, <3>3 DEF Lefts
    <3> QED
      BY ONLY <1>16, <3>2, <3>4, <3>5
  <2>2. CASE s = t + 1
    BY ONLY <2>2, <1>6, <1>16, <1>20
  <2> QED
    BY <1>22, <2>1, <2>2
<1>24. Stacks(d, oo, pp, nums, ss, hh, values, nodes)
  <2>1. \A s \in 1..Len(ss) : oo[s] = Sign(d, ss[s])
    BY ONLY <1>2, <1>20, <1>21, <1>22, c = Sign(d, j)
  <2> QED
    BY <1>17, <1>20, <1>21, <1>23, <2>1 DEF Stacks, TT
<1>25. Awaits(d, ss, hh, values[Len(pp)], j + 1, 0)
  <2>1. j + 1 \in 1..(Len(d.tokens) + 1)
    BY <1>5
  <2>2. Under(ss, Len(ss)) = j
    BY <1>5, <1>20 DEF Under
  <2>3. Len(TT) = hh[Len(ss)]
    BY <1>16, <1>20
  <2> QED
    BY ONLY <2>1, <2>2, <2>3 DEF Awaits, TT
<1>26. Covered(d, ss, nodes, Len(pp), j + 1)
  <2> SUFFICES ASSUME NEW q \in Nodes(d), q < j + 1, Sign(d, q) \in Operators
               PROVE  (\E s \in 1..Len(ss) : ss[s] = q) \/ (\E n \in 1..Len(pp) : nodes[n] = q)
    BY DEF Covered
  <2>1. CASE q = j
    <3>1. t + 1 \in 1..Len(ss)
      BY <1>5, <1>20
    <3> QED
      BY <1>20, <2>1, <3>1
  <2>2. CASE q # j
    <3>1. q < j
      BY <1>5, <2>2, SignFacts
    <3>2. (\E s \in 1..t : st[s] = q) \/ (\E n \in 1..Len(pp) : nodes[n] = q)
      BY <1>1, <1>10, <1>11, <3>1, StillCovered
    <3>3. \A s \in 1..t : s \in 1..Len(ss) /\ ss[s] = st[s]
      BY <1>5, <1>20
    <3> QED
      BY ONLY <3>2, <3>3
  <2> QED
    BY <2>1, <2>2
<1>27. Scanning(d, oo, pp, nums, j + 1, 0)
  BY ONLY <1>24, <1>25, <1>26 DEF Scanning
<1> QED
  BY <1>27 DEF oo

\* What postfix_string is when the scan is through.
Finished(d, p, nums, S, W) ==
    /\ Run(d, S, W, p, nums)
    /\ Len(S[Len(p)]) = 1 /\ S[Len(p)][1] = ValueAt(d, d.root)
    /\ \A q \in Nodes(d) : Sign(d, q) \in Operators => \E m \in 1..Len(p) : W[m] = q

\* The end of the text moves everything.
LEMMA Emptied ==
  ASSUME NEW d, Parsed(d), NEW o, NEW p, NEW nums, NEW j, NEW x,
         Scanning(d, o, p, nums, j, x), j = Len(d.tokens) + 1, NEW pp, Moves(pp, p, o, 0)
  PROVE  \E S, W : Finished(d, pp, nums, S, W)
<1>1. PICK st, h, S, W : /\ Stacks(d, o, p, nums, st, h, S, W)
                         /\ Awaits(d, st, h, S[Len(p)], j, x) /\ Covered(d, st, W, Len(p), j)
  BY DEF Scanning
<1> DEFINE T == S[Len(p)]
<1>2. Stacked(d, st) /\ Heights(d, st, h) /\ Run(d, S, W, p, nums)
  BY <1>1 DEF Stacks
<1>3. j \notin Nodes(d) /\ \A q \in Nodes(d) : q < j /\ LastOf(d, q) # j
  <2>1. Len(d.tokens) \in Nat
    BY DEF Parsed
  <2>2. \A q \in Nodes(d) : q \in 1..Len(d.tokens) /\ LastOf(d, q) \in q..Len(d.tokens)
    BY SignFacts, NodeFacts
  <2> QED
    BY ONLY <2>1, <2>2, j = Len(d.tokens) + 1
<1>4. x # 0
  BY <1>3, AwaitsOperand
<1>5. PICK t \in 0..Len(st) : Follows(d, st, t, x, j)
  BY <1>1, <1>4, OperandEnds
<1>6. Len(st) \in Nat
  BY <1>2 DEF Stacked
<1>7. t = 0 \/ (t \in 1..Len(st) /\ st[t] \in Nodes(d))
  <2>1. t = 0 \/ t \in 1..Len(st)
    BY <1>6
  <2> QED
    BY <1>2, <2>1 DEF Stacked
<1>8. t = 0 /\ After(st, t, x) = d.root /\ Chain(d, st, t, x, j)
  BY <1>3, <1>5, <1>7 DEF Follows
<1>9. t \in 0..Len(st) /\ Moves(pp, p, o, t)
  BY <1>8
<1>10. PICK values, nodes : Emission(d, T, W, p, pp, nums, st, h[t], t, After(st, t, x), values, nodes)
  BY <1>1, <1>4, <1>8, <1>9, Emitting
<1>11. h[t] = 0
  BY <1>2, <1>8 DEF Heights
<1>12. T \in Seq(Word)
  BY <1>2 DEF Run
<1>13. ValueAt(d, d.root) \in Word
  BY RootNode, NodeFacts
<1>14. Len(values[Len(pp)]) = 1 /\ values[Len(pp)][1] = ValueAt(d, d.root)
  <2>1. values[Len(pp)] = Append(SubSeq(T, 1, 0), ValueAt(d, d.root))
    BY <1>8, <1>10, <1>11 DEF Emission
  <2> HIDE DEF T
  <2>2. SubSeq(T, 1, 0) = <<>>
    BY <1>12
  <2> QED
    BY <1>13, <2>1, <2>2
<1>15. \A q \in Nodes(d) : Sign(d, q) \in Operators => \E m \in 1..Len(pp) : nodes[m] = q
  <2> SUFFICES ASSUME NEW q \in Nodes(d), Sign(d, q) \in Operators
               PROVE  \E m \in 1..Len(pp) : nodes[m] = q
    OBVIOUS
  <2>1. (\E s \in 1..t : st[s] = q) \/ (\E m \in 1..Len(pp) : nodes[m] = q)
    BY <1>1, <1>3, <1>9, <1>10, StillCovered
  <2>2. ~(\E s \in 1..t : st[s] = q)
    BY <1>8
  <2> QED
    BY <2>1, <2>2
<1>16. Run(d, values, nodes, pp, nums)
  BY <1>10 DEF Emission
<1>17. Finished(d, pp, nums, values, nodes)
  BY ONLY <1>14, <1>15, <1>16 DEF Finished
<1> QED
  BY ONLY <1>17

(***************************************************************************)
(* The evaluator at work on d.                                             *)
(***************************************************************************)
Prepared(d) ==
    /\ pc = "sectors" => Partway(text, d.source, d.middle, d.words)
    /\ pc = "points" => Partway(text, d.middle, d.text, d.points)
    /\ pc = "scan" => text = d.text

\* i is before token j or, while a number is read, in it or right behind it.
AtToken(d, j, x) ==
    IF from = 0 THEN To(d, j - 1) < i /\ i <= From(d, j)
    ELSE /\ x = 0 /\ j \in Nodes(d) /\ Sign(d, j) \in DigitSet
         /\ from = From(d, j) /\ i <= To(d, j) + 1

Scans(d) == \E j, x : Scanning(d, ops, postfix, numbers, j, x) /\ AtToken(d, j, x)

\* The first i - 1 entries have been calculated, without a division by zero.
Calculating(d, S, W) ==
    /\ Finished(d, postfix, numbers, S, W)
    /\ calc = S[i - 1]
    /\ \A n \in 1..(i - 1) : ~(Sign(d, W[n]) = "/" /\ ValueAt(d, RightOf(d, W[n])) = 0)

Right(d) ==
    /\ Prepared(d)
    /\ pc = "scan" => Scans(d)
    /\ pc = "calc" => \E S, W : Calculating(d, S, W)
    /\ Calculates(Worth(d))

ValueInv == \A d \in Documents : d.source = source => Right(d)

LEMMA TokenFacts ==
  ASSUME NEW d, Parsed(d), NEW j \in 1..Len(d.tokens)
  PROVE  /\ From(d, j) \in Nat /\ To(d, j) \in Nat /\ Sign(d, j) = d.text[From(d, j)]
         /\ To(d, j - 1) < From(d, j) /\ From(d, j) <= To(d, j) /\ To(d, j) <= Len(d.text)
         /\ Sign(d, j) \in DigitSet =>
              /\ \A x \in From(d, j)..To(d, j) : d.text[x] \in DigitSet
              /\ To(d, j) < Len(d.text) => d.text[To(d, j) + 1] \notin DigitSet
              /\ To(d, j) - From(d, j) < DigitLimit
         /\ Sign(d, j) \notin DigitSet =>
              Sign(d, j) \in Operators \union {"(", ")"} /\ From(d, j) = To(d, j)
<1>1. Spelled(d) /\ Len(d.tokens) \in Nat
  BY DEF Parsed
<1>2. /\ d.tokens[j].from \in Nat /\ d.tokens[j].to \in Nat
      /\ To(d, j - 1) < From(d, j) /\ From(d, j) <= To(d, j) /\ To(d, j) <= Len(d.text)
      /\ \/ /\ \A x \in From(d, j)..To(d, j) : d.text[x] \in DigitSet
            /\ To(d, j) < Len(d.text) => d.text[To(d, j) + 1] \notin DigitSet
            /\ To(d, j) - From(d, j) < DigitLimit
         \/ Sign(d, j) \in Operators \union {"(", ")"} /\ From(d, j) = To(d, j)
  BY <1>1 DEF Spelled
<1>3. From(d, j) = d.tokens[j].from /\ To(d, j) = d.tokens[j].to
  BY <1>1 DEF From, To
<1>4. Sign(d, j) = d.text[From(d, j)]
  BY <1>3 DEF Sign
<1>5. From(d, j) \in From(d, j)..To(d, j)
  BY <1>2, <1>3
<1>6. \A c \in Operators \union {"(", ")"} : c \notin DigitSet
  BY CharacterKinds
<1>7. CASE /\ \A x \in From(d, j)..To(d, j) : d.text[x] \in DigitSet
           /\ To(d, j) < Len(d.text) => d.text[To(d, j) + 1] \notin DigitSet
           /\ To(d, j) - From(d, j) < DigitLimit
  <2>1. Sign(d, j) \in DigitSet
    BY ONLY <1>4, <1>5, <1>7
  <2> QED
    BY ONLY <1>2, <1>3, <1>4, <1>7, <2>1
<1>8. CASE Sign(d, j) \in Operators \union {"(", ")"} /\ From(d, j) = To(d, j)
  BY ONLY <1>2, <1>3, <1>4, <1>6, <1>8
<1> QED
  BY <1>2, <1>7, <1>8

\* Outside of a number: what is at i is the next token or nothing.
LEMMA TokenSeen ==
  ASSUME Typed, NEW d, Parsed(d), text = d.text, NEW j \in 1..(Len(d.tokens) + 1),
         To(d, j - 1) < i, i <= From(d, j)
  PROVE  /\ Ch \in DigitSet \union Operators \union {"(", ")"} =>
              j \in 1..Len(d.tokens) /\ i = From(d, j) /\ Ch = Sign(d, j)
         /\ i <= Len(text) /\ Ch \notin DigitSet \union Operators \union {"(", ")"} => i < From(d, j)
         /\ i > Len(text) => j = Len(d.tokens) + 1
<1>1. Len(d.tokens) \in Nat /\ Spelled(d) /\ i \in Nat /\ Len(text) \in Nat
  BY Lengths DEF Parsed, Typed
<1>2. \A x \in (To(d, j - 1) + 1)..(From(d, j) - 1) :
        d.text[x] \notin DigitSet \union Operators \union {"(", ")"}
  <2>1. j - 1 \in 0..Len(d.tokens) /\ (j - 1) + 1 = j
    BY <1>1
  <2>2. \A x \in (To(d, j - 1) + 1)..(From(d, (j - 1) + 1) - 1) :
          d.text[x] \notin DigitSet \union Operators \union {"(", ")"}
    BY ONLY <1>1, <2>1 DEF Spelled
  <2> QED
    BY ONLY <2>1, <2>2
<1>3. "NUL" \notin DigitSet \union Operators \union {"(", ")"}
  BY CharacterKinds
<1>4. CASE j = Len(d.tokens) + 1
  <2>1. From(d, j) = Len(text) + 1
    BY <1>1, <1>4 DEF From
  <2>2. To(d, j - 1) \in Nat
    <3>1. CASE Len(d.tokens) = 0
      BY <1>4, <3>1 DEF To
    <3>2. CASE Len(d.tokens) # 0
      <4>1. j - 1 = Len(d.tokens) /\ Len(d.tokens) \in 1..Len(d.tokens)
        BY <1>1, <1>4, <3>2
      <4> QED
        BY <4>1, TokenFacts
    <3> QED
      BY <3>1, <3>2
  <2>3. i <= Len(text) => i \in (To(d, j - 1) + 1)..(From(d, j) - 1)
    BY <1>1, <2>1, <2>2
  <2>4. i <= Len(text) => text[i] \notin DigitSet \union Operators \union {"(", ")"}
    BY <1>2, <2>3
  <2>5. Ch \notin DigitSet \union Operators \union {"(", ")"}
    BY <1>3, <2>4 DEF Ch
  <2> QED
    BY ONLY <1>1, <1>4, <2>1, <2>5
<1>5. CASE j # Len(d.tokens) + 1
  <2>1. j \in 1..Len(d.tokens)
    BY <1>1, <1>5
  <2>2. /\ From(d, j) \in Nat /\ To(d, j) \in Nat /\ Sign(d, j) = text[From(d, j)]
        /\ From(d, j) <= To(d, j) /\ To(d, j) <= Len(text)
        /\ Sign(d, j) \in DigitSet \union Operators \union {"(", ")"}
    BY <2>1, TokenFacts
  <2>3. i <= Len(text) /\ Ch = text[i]
    BY <1>1, <2>2 DEF Ch
  <2>4. To(d, j - 1) \in Nat
    <3>1. j - 1 = 0 \/ j - 1 \in 1..Len(d.tokens)
      BY <1>1, <2>1
    <3>2. j - 1 = 0 => To(d, j - 1) = 0
      BY DEF To
    <3> QED
      BY <3>1, <3>2, TokenFacts
  <2>5. i < From(d, j) => i \in (To(d, j - 1) + 1)..(From(d, j) - 1)
    BY <1>1, <2>2, <2>4
  <2>6. i < From(d, j) => Ch \notin DigitSet \union Operators \union {"(", ")"}
    BY <1>2, <2>3, <2>5
  <2>7. ~(i < From(d, j)) => i = From(d, j) /\ Ch = Sign(d, j)
    BY <1>1, <2>2, <2>3
  <2> QED
    BY ONLY <1>1, <2>1, <2>2, <2>3, <2>6, <2>7
<1> QED
  BY <1>4, <1>5

\* Inside of one.
LEMMA DigitSeen ==
  ASSUME Typed, NEW d, Parsed(d), text = d.text, NEW j \in Nodes(d), Sign(d, j) \in DigitSet,
         from = From(d, j), i <= To(d, j) + 1, from \in 1..(i - 1)
  PROVE  /\ Ch \in DigitSet => i <= To(d, j)
         /\ Ch \notin DigitSet => i = To(d, j) + 1
         /\ i - from <= DigitLimit \/ i <= To(d, j)
<1>1. j \in 1..Len(d.tokens) /\ i \in Nat /\ Len(text) \in Nat /\ DigitLimit \in Nat
  BY SignFacts, Lengths, SizesFit DEF Typed
<1>2. /\ From(d, j) \in Nat /\ To(d, j) \in Nat
      /\ From(d, j) <= To(d, j) /\ To(d, j) <= Len(text)
      /\ \A x \in From(d, j)..To(d, j) : text[x] \in DigitSet
      /\ To(d, j) < Len(text) => text[To(d, j) + 1] \notin DigitSet
      /\ To(d, j) - From(d, j) < DigitLimit
  BY <1>1, TokenFacts
<1>3. i <= To(d, j) => Ch \in DigitSet
  <2>1. i <= To(d, j) => i \in From(d, j)..To(d, j) /\ i <= Len(text)
    BY <1>1, <1>2
  <2> QED
    BY <1>2, <2>1 DEF Ch
<1>4. i = To(d, j) + 1 => Ch \notin DigitSet
  BY <1>1, <1>2, CharacterKinds DEF Ch
<1>5. From(d, j) \in Nat /\ To(d, j) \in Nat /\ To(d, j) - From(d, j) < DigitLimit
  BY <1>2
<1> QED
  BY ONLY <1>1, <1>3, <1>4, <1>5, from = From(d, j), i <= To(d, j) + 1

LEMMA DocumentTexts ==
  ASSUME NEW d, Parsed(d)
  PROVE  /\ d.source \in Seq(STRING) /\ d.middle \in Seq(STRING) /\ d.text \in Seq(STRING)
         /\ Len(d.source) \in Nat /\ Len(d.middle) \in Nat /\ Len(d.text) \in Nat
         /\ Substituted(d.source, "N", DiskDigits, d.middle, d.words)
         /\ Substituted(d.middle, ".", <<>>, d.text, d.points)
<1>1. d.source \in Seq(STRING) /\ d.middle \in Seq(STRING) /\ d.text \in Seq(STRING)
  BY DEF Parsed
<1> QED
  BY <1>1 DEF Parsed

\* The outcomes that say nothing of the value.
LEMMA Overran ==
  ASSUME NEW d, pc' \in {"overrun", "sectors", "points"}, Prepared(d)'
  PROVE  Right(d)'
BY DEF Right, Calculates

\* The start of an evaluation.
LEMMA CallRight ==
  ASSUME NEW d, Parsed(d), Call(d.source)
  PROVE  Right(d)'
<1>1. text' = d.source /\ pc' = "sectors"
  BY DEF Call
<1>2. Partway(d.source, d.source, d.middle, d.words)
  BY DocumentTexts, NoneReplaced
<1>3. Prepared(d)'
  BY <1>1, <1>2 DEF Prepared
<1> QED
  BY <1>1, <1>3, Overran

\* A step of strrep.
LEMMA ReplaceRight ==
  ASSUME IInv, NEW c, NEW r \in Seq(STRING), Replace(c, r), NEW t, NEW u, NEW w,
         Len(t) \in Nat, Len(u) \in Nat, Substituted(t, c, r, u, w),
         \A k \in 1..Len(r) : r[k] # c, Partway(text, t, u, w)
  PROVE  Partway(text', t, u, w) /\ pc' = pc
<1>1. text \in Seq(STRING) /\ Len(text) \in Nat /\ Len(r) \in Nat
  BY DEF IInv, Typed
<1>2. PICK p \in 1..Len(text) :
         /\ text[p] = c
         /\ \A q \in 1..(p - 1) : text[q] # c
         /\ text' = SubSeq(text, 1, p - 1) \o r \o SubSeq(text, p + 1, Len(text))
  BY DEF Replace
<1>3. Spliced(text', text, p, r)
  BY <1>1, <1>2, SplicedFacts
<1> QED
  BY <1>1, <1>2, <1>3, OneReplaced DEF Replace

LEMMA ReplaceWordRight ==
  ASSUME IInv, NEW d, Parsed(d), Right(d), ReplaceWord
  PROVE  Right(d)'
<1>1. DiskDigits \in Seq(STRING) /\ \A k \in 1..Len(DiskDigits) : DiskDigits[k] # "N"
  BY DigitsAreText DEF DigitSet
<1>2. Partway(text, d.source, d.middle, d.words) /\ pc = "sectors" /\ Replace("N", DiskDigits)
  BY DEF Right, Prepared, ReplaceWord
<1>3. Partway(text', d.source, d.middle, d.words) /\ pc' = pc
  BY <1>1, <1>2, DocumentTexts, ReplaceRight
<1>4. Prepared(d)'
  BY <1>2, <1>3 DEF Prepared
<1> QED
  BY <1>2, <1>3, <1>4, Overran

LEMMA RemovePointRight ==
  ASSUME IInv, NEW d, Parsed(d), Right(d), RemovePoint
  PROVE  Right(d)'
<1>1. <<>> \in Seq(STRING) /\ \A k \in 1..Len(<<>>) : <<>>[k] # "."
  OBVIOUS
<1>2. Partway(text, d.middle, d.text, d.points) /\ pc = "points" /\ Replace(".", <<>>)
  BY DEF Right, Prepared, RemovePoint
<1>3. Partway(text', d.middle, d.text, d.points) /\ pc' = pc
  BY <1>1, <1>2, DocumentTexts, ReplaceRight
<1>4. Prepared(d)'
  BY <1>2, <1>3 DEF Prepared
<1> QED
  BY <1>2, <1>3, <1>4, Overran

LEMMA CopyRight ==
  ASSUME IInv, NEW d, Parsed(d), Right(d), CopyToBuffer
  PROVE  Right(d)'
<1>1. /\ Partway(text, d.source, d.middle, d.words) /\ \A p \in 1..Len(text) : text[p] # "N"
      /\ text' = text /\ pc' \in {"overrun", "points"}
  BY DEF Right, Prepared, CopyToBuffer
<1>2. text \in Seq(STRING) /\ Len(text) \in Nat
  BY DEF IInv, Typed
<1>3. Len(text) = Len(d.middle) /\ \A x \in 1..Len(text) : text[x] = d.middle[x]
  BY <1>1, <1>2, DocumentTexts, AllReplaced
<1>4. text = d.middle
  BY <1>2, <1>3, DocumentTexts, SeqEqual
<1>5. Partway(d.middle, d.middle, d.text, d.points)
  BY DocumentTexts, NoneReplaced
<1>6. Prepared(d)'
  BY <1>1, <1>4, <1>5 DEF Prepared
<1> QED
  BY <1>1, <1>6, Overran

\* The start of the scan.
LEMMA NothingScanned ==
  ASSUME NEW d, Parsed(d), NEW nums
  PROVE  Scanning(d, <<>>, <<>>, nums, 1, 0)
<1> DEFINE h == [n \in {0} |-> 0]
           S == [n \in {0} |-> <<>>]
<1>1. h[0] = 0 /\ S[0] = <<>> /\ Len(<<>>) = 0 /\ <<>> \in Seq(Word)
  OBVIOUS
<1> HIDE DEF h, S
<1>2. 1..0 = {} /\ 0..0 = {0}
  OBVIOUS
<1>3. Stacked(d, <<>>)
  BY <1>1, <1>2 DEF Stacked
<1>4. Heights(d, <<>>, h)
  BY <1>1, <1>2 DEF Heights
<1>5. Run(d, S, <<>>, <<>>, nums)
  BY <1>1, <1>2 DEF Run
<1>6. Lefts(d, <<>>, h, S[Len(<<>>)])
  BY <1>1, <1>2 DEF Lefts
<1>7. Stacks(d, <<>>, <<>>, nums, <<>>, h, S, <<>>)
  BY <1>1, <1>2, <1>3, <1>4, <1>5, <1>6 DEF Stacks
<1>8. Awaits(d, <<>>, h, S[Len(<<>>)], 1, 0)
  <2>1. 1 \in 1..(Len(d.tokens) + 1)
    BY DEF Parsed
  <2> QED
    BY <1>1, <2>1 DEF Awaits, Under
<1>9. Covered(d, <<>>, <<>>, Len(<<>>), 1)
  <2>1. \A q \in Nodes(d) : ~(q < 1)
    BY SignFacts
  <2> QED
    BY <2>1 DEF Covered
<1> QED
  BY <1>7, <1>8, <1>9 DEF Scanning

LEMMA PointsRight ==
  ASSUME IInv, NEW d, Parsed(d), Right(d), PointsRemoved
  PROVE  Right(d)'
<1>1. /\ Partway(text, d.middle, d.text, d.points) /\ \A p \in 1..Len(text) : text[p] # "."
      /\ text' = text /\ pc' = "scan"
  BY DEF Right, Prepared, PointsRemoved
<1>2. text \in Seq(STRING) /\ Len(text) \in Nat
  BY DEF IInv, Typed
<1>3. Len(text) = Len(d.text) /\ \A x \in 1..Len(text) : text[x] = d.text[x]
  BY <1>1, <1>2, DocumentTexts, AllReplaced
<1>4. text = d.text
  BY <1>2, <1>3, DocumentTexts, SeqEqual
<1>5. Prepared(d)'
  BY <1>1, <1>4 DEF Prepared
<1>6. i' = 1 /\ from' = 0 /\ ops' = <<>> /\ postfix' = <<>> /\ numbers' = numbers
  <2>1. \A s : (\E Q : s \in Seq(Q)) /\ Len(s) = 0 => s = <<>>
    BY EmptySeq
  <2>2. (\E Q : ops \in Seq(Q)) /\ (\E Q : postfix \in Seq(Q))
    BY DEF IInv, Typed
  <2>3. i = 1 /\ from = 0 /\ Len(ops) = 0 /\ Len(postfix) = 0
    BY DEF IInv, Fresh, PointsRemoved
  <2>4. ops = <<>> /\ postfix = <<>>
    BY ONLY <2>1, <2>2, <2>3
  <2> QED
    BY <2>3, <2>4 DEF PointsRemoved
<1>7. AtToken(d, 1, 0)'
  <2>1. To(d, 1 - 1) = 0
    BY DEF To
  <2>2. 1 <= From(d, 1)
    <3>1. Len(d.tokens) \in Nat /\ Len(d.text) \in Nat
      BY DocumentTexts DEF Parsed
    <3>2. CASE Len(d.tokens) = 0
      BY <3>1, <3>2 DEF From
    <3>3. CASE Len(d.tokens) # 0
      <4>1. 1 \in 1..Len(d.tokens)
        BY <3>1, <3>3
      <4>2. To(d, 1 - 1) < From(d, 1) /\ From(d, 1) \in Nat
        BY <4>1, TokenFacts
      <4> QED
        BY <2>1, <4>2
    <3> QED
      BY <3>2, <3>3
  <2> QED
    BY <1>6, <2>1, <2>2 DEF AtToken
<1>8. Scans(d)'
  BY <1>6, <1>7, NothingScanned DEF Scans
<1> QED
  BY <1>1, <1>5, <1>8 DEF Right, Calculates

LEMMA OverrunRight ==
  ASSUME NEW d, pc' = "overrun"
  PROVE  Right(d)'
BY DEF Right, Prepared, Calculates

LEMMA ScanOn ==
  ASSUME NEW d, pc' = "scan", text' = d.text, NEW j, NEW x,
         Scanning(d, ops', postfix', numbers', j, x), AtToken(d, j, x)'
  PROVE  Right(d)'
BY DEF Right, Prepared, Calculates, Scans

LEMMA ScanPlace ==
  ASSUME NEW d, Parsed(d), NEW o, NEW p, NEW nums, NEW j, NEW x, Scanning(d, o, p, nums, j, x)
  PROVE  j \in 1..(Len(d.tokens) + 1) /\ j \in Nat /\ Len(d.tokens) \in Nat
<1>1. j \in 1..(Len(d.tokens) + 1)
  BY DEF Scanning, Awaits
<1> QED
  BY <1>1 DEF Parsed

\* A token character outside of a number is the next token.
LEMMA AtNextToken ==
  ASSUME IInv, NEW d, Parsed(d), Right(d), pc = "scan", from = 0,
         Ch \in DigitSet \union Operators \union {"(", ")"}
  PROVE  \E j, x : /\ Scanning(d, ops, postfix, numbers, j, x)
                   /\ j \in 1..Len(d.tokens) /\ i = From(d, j) /\ Ch = Sign(d, j)
<1>1. PICK j, x : Scanning(d, ops, postfix, numbers, j, x) /\ AtToken(d, j, x)
  BY DEF Right, Scans
<1>2. j \in 1..(Len(d.tokens) + 1) /\ To(d, j - 1) < i /\ i <= From(d, j)
  BY <1>1, ScanPlace DEF AtToken
<1>3. Typed /\ text = d.text
  BY DEF IInv, Right, Prepared
<1> QED
  BY <1>1, <1>2, <1>3, TokenSeen

\* The position after a token that is one character.
LEMMA AfterToken ==
  ASSUME Typed, NEW d, Parsed(d), NEW j \in 1..Len(d.tokens), i = From(d, j),
         Sign(d, j) \notin DigitSet, i' = i + 1, from' = 0, NEW x
  PROVE  AtToken(d, j + 1, x)'
<1>1. /\ From(d, j) = To(d, j) /\ To(d, j) \in Nat /\ To(d, j) <= Len(d.text)
  BY TokenFacts
<1>2. j \in Nat /\ Len(d.tokens) \in Nat /\ Len(d.text) \in Nat /\ (j + 1) - 1 = j
  BY DocumentTexts DEF Parsed
<1>3. i' <= From(d, j + 1)
  <2>1. CASE j = Len(d.tokens)
    BY <1>1, <1>2, <2>1 DEF From
  <2>2. CASE j # Len(d.tokens)
    <3>1. j + 1 \in 1..Len(d.tokens)
      BY <1>2, <2>2
    <3>2. To(d, (j + 1) - 1) < From(d, j + 1) /\ From(d, j + 1) \in Nat
      BY <3>1, TokenFacts
    <3> QED
      BY <1>1, <1>2, <3>2
  <2> QED
    BY <2>1, <2>2
<1>4. To(d, (j + 1) - 1) < i'
  BY <1>1, <1>2
<1> QED
  BY <1>3, <1>4 DEF AtToken

LEMMA OtherCharRight ==
  ASSUME IInv, NEW d, Parsed(d), Right(d), OtherChar
  PROVE  Right(d)'
<1>1. PICK j, x : Scanning(d, ops, postfix, numbers, j, x) /\ AtToken(d, j, x)
  BY DEF Right, Scans, OtherChar
<1>2. from = 0 /\ from' = 0 /\ i' = i + 1 /\ pc' = "scan" /\ UNCHANGED <<text, ops, postfix, numbers>>
  BY DEF OtherChar
<1>3. j \in 1..(Len(d.tokens) + 1) /\ To(d, j - 1) < i /\ i <= From(d, j)
  BY <1>1, <1>2, ScanPlace DEF AtToken
<1>4. Typed /\ text = d.text /\ i \in Nat
  BY DEF IInv, Right, Prepared, Typed, OtherChar
<1>5. i < From(d, j)
  BY <1>3, <1>4, TokenSeen DEF OtherChar
<1>6. From(d, j) \in Int /\ To(d, j - 1) \in Int
  <2>1. Len(d.tokens) \in Nat /\ Len(d.text) \in Nat
    BY DocumentTexts DEF Parsed
  <2>2. \A q \in 1..Len(d.tokens) : From(d, q) \in Int /\ To(d, q) \in Int
    BY TokenFacts
  <2>3. CASE j = Len(d.tokens) + 1
    <3>1. From(d, j) = Len(d.text) + 1
      BY <2>1, <2>3 DEF From
    <3>2. j - 1 = 0 \/ j - 1 \in 1..Len(d.tokens)
      BY <2>1, <2>3
    <3> QED
      BY <2>1, <2>2, <3>1, <3>2 DEF To
  <2>4. CASE j # Len(d.tokens) + 1
    <3>1. j \in 1..Len(d.tokens) /\ (j - 1 = 0 \/ j - 1 \in 1..Len(d.tokens))
      BY <1>3, <2>1, <2>4
    <3> QED
      BY <2>2, <3>1 DEF To
  <2> QED
    BY <2>3, <2>4
<1>7. AtToken(d, j, x)'
  BY <1>2, <1>3, <1>4, <1>5, <1>6 DEF AtToken
<1> QED
  BY <1>1, <1>2, <1>4, <1>7, ScanOn

LEMMA BeginNumberRight ==
  ASSUME IInv, NEW d, Parsed(d), Right(d), BeginNumber
  PROVE  Right(d)'
<1>1. /\ pc = "scan" /\ from = 0 /\ Ch \in DigitSet /\ from' = i /\ i' = i + 1 /\ pc' = "scan"
      /\ UNCHANGED <<text, ops, postfix, numbers>>
  BY DEF BeginNumber
<1>2. PICK j, x : /\ Scanning(d, ops, postfix, numbers, j, x)
                  /\ j \in 1..Len(d.tokens) /\ i = From(d, j) /\ Ch = Sign(d, j)
  BY <1>1, AtNextToken
<1>3. j \in Nodes(d)
  BY <1>1, <1>2, CharacterKinds DEF Nodes
<1>4. x = 0
  BY <1>1, <1>2, <1>3, AwaitsOperand
<1>5. i \in Nat /\ i # 0 /\ text = d.text
  BY <1>1 DEF IInv, Typed, Scanned, Right, Prepared
<1>6. From(d, j) <= To(d, j) /\ To(d, j) \in Nat
  BY <1>2, TokenFacts
<1>7. AtToken(d, j, x)'
  BY <1>1, <1>2, <1>3, <1>4, <1>5, <1>6 DEF AtToken
<1> QED
  BY <1>1, <1>2, <1>5, <1>7, ScanOn

LEMMA InNumberRight ==
  ASSUME IInv, NEW d, Parsed(d), Right(d), InNumber
  PROVE  Right(d)'
<1>1. /\ pc = "scan" /\ from # 0 /\ Ch \in DigitSet /\ from' = from /\ i' = i + 1 /\ pc' = "scan"
      /\ UNCHANGED <<text, ops, postfix, numbers>>
  BY DEF InNumber
<1>2. PICK j, x : Scanning(d, ops, postfix, numbers, j, x) /\ AtToken(d, j, x)
  BY <1>1 DEF Right, Scans
<1>3. /\ x = 0 /\ j \in Nodes(d) /\ Sign(d, j) \in DigitSet
      /\ from = From(d, j) /\ i <= To(d, j) + 1
  BY <1>1, <1>2 DEF AtToken
<1>4. Typed /\ text = d.text /\ from \in 1..(i - 1) /\ i \in Nat
  BY <1>1 DEF IInv, Right, Prepared, Typed, Scanned, Inside
<1>5. i <= To(d, j)
  BY <1>1, <1>3, <1>4, DigitSeen
<1>6. To(d, j) \in Nat
  BY <1>3, SignFacts, TokenFacts
<1>7. AtToken(d, j, x)'
  BY <1>1, <1>3, <1>4, <1>5, <1>6 DEF AtToken
<1> QED
  BY <1>1, <1>2, <1>4, <1>7, ScanOn

LEMMA EndNumberRight ==
  ASSUME IInv, Ranged, NEW d, Parsed(d), Right(d), EndNumber
  PROVE  Right(d)'
<1>1. /\ pc = "scan" /\ from # 0 /\ Ch \notin DigitSet /\ from' = 0
      /\ UNCHANGED <<text, i, ops>>
  BY DEF EndNumber
<1>2. PICK j, x : Scanning(d, ops, postfix, numbers, j, x) /\ AtToken(d, j, x)
  BY <1>1 DEF Right, Scans
<1>3. /\ x = 0 /\ j \in Nodes(d) /\ Sign(d, j) \in DigitSet
      /\ from = From(d, j) /\ i <= To(d, j) + 1
  BY <1>1, <1>2 DEF AtToken
<1>4. Typed /\ text = d.text /\ from \in 1..(i - 1) /\ i \in Nat
  BY <1>1 DEF IInv, Right, Prepared, Typed, Scanned, Inside
<1>5. i = To(d, j) + 1 /\ (i - from <= DigitLimit \/ i <= To(d, j))
  BY <1>1, <1>3, <1>4, DigitSeen
<1>6. /\ To(d, j) \in Nat /\ DigitLimit \in Nat /\ j \in 1..Len(d.tokens) /\ Len(d.tokens) \in Nat
      /\ To(d, j) <= Len(d.text) /\ Len(d.text) \in Nat
  BY <1>3, SignFacts, TokenFacts, DocumentTexts, SizesFit
<1>7. ~(i - from > DigitLimit)
  BY <1>4, <1>5, <1>6
<1>8. CASE pc' = "overrun"
  BY <1>8, OverrunRight
<1>9. CASE pc' # "overrun"
  <2>1. /\ pc' = "scan"
        /\ postfix' = Append(postfix, [op |-> "n", k |-> Len(numbers) + 1])
        /\ numbers' = Append(numbers, NumberOf(SubSeq(text, from, i - 1)))
    BY <1>1, <1>7, <1>9 DEF EndNumber
  <2>2. i - 1 = To(d, j)
    BY <1>5, <1>6
  <2>3. numbers' = Append(numbers, ValueAt(d, j))
    BY <1>3, <1>4, <2>1, <2>2, NumberNode
  <2>4. postfix \in Seq(Entry) /\ numbers \in Seq(Word)
    BY <1>4 DEF Typed, Ranged
  <2>5. Scanning(d, ops, Append(postfix, [op |-> "n", k |-> Len(numbers) + 1]),
                 Append(numbers, ValueAt(d, j)), j + 1, j)
    BY <1>2, <1>3, <2>4, NumberRead
  <2>6. Scanning(d, ops', postfix', numbers', j + 1, j)
    BY <1>1, <2>1, <2>3, <2>5
  <2>7. AtToken(d, j + 1, j)'
    <3>1. (j + 1) - 1 = j
      BY <1>6
    <3>2. i <= From(d, j + 1)
      <4>1. CASE j = Len(d.tokens)
        BY <1>5, <1>6, <4>1 DEF From
      <4>2. CASE j # Len(d.tokens)
        <5>1. j + 1 \in 1..Len(d.tokens)
          BY <1>6, <4>2
        <5>2. To(d, (j + 1) - 1) < From(d, j + 1) /\ From(d, j + 1) \in Nat
          BY <5>1, TokenFacts
        <5> QED
          BY <1>5, <1>6, <3>1, <5>2
      <4> QED
        BY <4>1, <4>2
    <3>3. To(d, (j + 1) - 1) < i
      BY <1>5, <1>6, <3>1
    <3> QED
      BY <1>1, <3>2, <3>3 DEF AtToken
  <2> QED
    BY <1>1, <1>4, <2>1, <2>6, <2>7, ScanOn
<1> QED
  BY <1>8, <1>9

LEMMA PoppedMoves ==
  ASSUME Typed, NEW j \in 0..Len(ops)
  PROVE  Moves(postfix \o Popped(j), postfix, ops, j)
<1> DEFINE P == Popped(j)
           pp == postfix \o P
<1>1. P \in Seq(Entry) /\ Len(P) = Len(ops) - j
  BY PoppedFacts
<1>2. \A n \in 1..(Len(ops) - j) : P[n].op = ops[Len(ops) + 1 - n]
  BY DEF Popped
<1>3. postfix \in Seq(Entry) /\ Len(postfix) \in Nat /\ Len(ops) \in Nat
  BY Lengths DEF Typed
<1> HIDE DEF P
<1>4. /\ Len(pp) = Len(postfix) + Len(P)
      /\ \A n \in 1..Len(pp) : pp[n] = IF n <= Len(postfix) THEN postfix[n] ELSE P[n - Len(postfix)]
  BY ONLY <1>1, <1>3, ConcatProperties
<1> HIDE DEF pp
<1>5. \A n \in 1..Len(postfix) : pp[n] = postfix[n]
  BY <1>1, <1>3, <1>4
<1>6. \A n \in 1..(Len(ops) - j) : pp[Len(postfix) + n] = P[n]
  <2> TAKE n \in 1..(Len(ops) - j)
  <2> DEFINE m == Len(postfix) + n
  <2>1. m \in 1..Len(pp) /\ ~(m <= Len(postfix)) /\ m - Len(postfix) = n
    BY <1>1, <1>3, <1>4
  <2> HIDE DEF m
  <2>2. pp[m] = P[n]
    BY ONLY <2>1, <1>4
  <2> QED
    BY <2>2 DEF m
<1>7. \A n \in 1..(Len(ops) - j) : pp[Len(postfix) + n].op = ops[Len(ops) + 1 - n]
  BY ONLY <1>2, <1>6
<1>8. Moves(pp, postfix, ops, j)
  BY <1>1, <1>4, <1>5, <1>7 DEF Moves
<1> QED
  BY <1>8 DEF pp, P

LEMMA OpenParenRight ==
  ASSUME IInv, NEW d, Parsed(d), Right(d), OpenParen
  PROVE  Right(d)'
<1>1. /\ pc = "scan" /\ from = 0 /\ Ch = "(" /\ from' = 0 /\ i' = i + 1
      /\ UNCHANGED <<text, postfix, numbers>>
      /\ pc' = "overrun" \/ (pc' = "scan" /\ ops' = Append(ops, "("))
  BY DEF OpenParen
<1>2. PICK j, x : /\ Scanning(d, ops, postfix, numbers, j, x)
                  /\ j \in 1..Len(d.tokens) /\ i = From(d, j) /\ Ch = Sign(d, j)
  BY <1>1, AtNextToken
<1>3. j \in Nodes(d) /\ Sign(d, j) = "("
  BY <1>1, <1>2 DEF Nodes
<1>4. x = 0
  BY <1>2, <1>3, AwaitsOperand
<1>5. Typed /\ ops \in Seq(OpChars) /\ text = d.text
  BY <1>1 DEF IInv, Typed, Right, Prepared
<1>6. Scanning(d, Append(ops, "("), postfix, numbers, j + 1, 0)
  BY <1>2, <1>3, <1>4, <1>5, Opened
<1>7. AtToken(d, j + 1, 0)'
  BY <1>1, <1>2, <1>3, <1>5, AfterToken, CharacterKinds
<1>8. CASE pc' = "overrun"
  BY <1>8, OverrunRight
<1>9. CASE pc' = "scan" /\ ops' = Append(ops, "(")
  <2>1. Scanning(d, ops', postfix', numbers', j + 1, 0)
    BY <1>1, <1>6, <1>9
  <2> QED
    BY <1>1, <1>5, <1>7, <1>9, <2>1, ScanOn
<1> QED
  BY <1>1, <1>8, <1>9

LEMMA CloseParenRight ==
  ASSUME IInv, NEW d, Parsed(d), Right(d), CloseParen
  PROVE  Right(d)'
<1>1. /\ pc = "scan" /\ from = 0 /\ Ch = ")" /\ from' = 0 /\ i' = i + 1
      /\ UNCHANGED <<text, numbers>>
  BY DEF CloseParen
<1>2. PICK m \in 0..Len(ops) :
         /\ m # 0 => ops[m] = "("
         /\ \A s \in (m + 1)..Len(ops) : ops[s] # "("
         /\ pc' = "overrun" \/ (/\ postfix' = postfix \o Popped(m)
                                /\ ops' = SubSeq(ops, 1, m - 1) /\ pc' = pc)
  BY DEF CloseParen
<1>3. PICK j, x : /\ Scanning(d, ops, postfix, numbers, j, x)
                  /\ j \in 1..Len(d.tokens) /\ i = From(d, j) /\ Ch = Sign(d, j)
  BY <1>1, AtNextToken
<1>4. Typed /\ ops \in Seq(OpChars) /\ text = d.text
  BY <1>1 DEF IInv, Typed, Right, Prepared
<1>5. Moves(postfix \o Popped(m), postfix, ops, m)
  BY <1>4, PoppedMoves
<1> DEFINE pp == postfix \o Popped(m)
<1> HIDE DEF pp
<1>6. Sign(d, j) = ")" /\ Moves(pp, postfix, ops, m)
  BY <1>1, <1>3, <1>5 DEF pp
<1>7. PICK y : Scanning(d, SubSeq(ops, 1, m - 1), pp, numbers, j + 1, y)
  BY <1>2, <1>3, <1>4, <1>6, Closed
<1>8. AtToken(d, j + 1, y)'
  BY <1>1, <1>3, <1>4, <1>6, AfterToken, CharacterKinds
<1>9. CASE pc' = "overrun"
  BY <1>9, OverrunRight
<1>10. CASE pc' # "overrun"
  <2>1. postfix' = pp /\ ops' = SubSeq(ops, 1, m - 1) /\ pc' = "scan"
    BY <1>1, <1>2, <1>10 DEF pp
  <2>2. Scanning(d, ops', postfix', numbers', j + 1, y)
    BY <1>1, <1>7, <2>1
  <2> QED
    BY <1>1, <1>4, <1>8, <2>1, <2>2, ScanOn
<1> QED
  BY <1>9, <1>10

LEMMA OperatorRight ==
  ASSUME IInv, NEW d, Parsed(d), Right(d), Operator
  PROVE  Right(d)'
<1>1. /\ pc = "scan" /\ from = 0 /\ Ch \in Operators /\ from' = 0 /\ i' = i + 1
      /\ UNCHANGED <<text, numbers>>
  BY DEF Operator
<1>2. PICK m \in 0..Len(ops) :
         /\ m # 0 => ~Higher(ops[m], Ch)
         /\ \A s \in (m + 1)..Len(ops) : Higher(ops[s], Ch)
         /\ pc' = "overrun" \/ (/\ postfix' = postfix \o Popped(m)
                                /\ ops' = Append(SubSeq(ops, 1, m), Ch) /\ pc' = pc)
  BY DEF Operator
<1>3. PICK j, x : /\ Scanning(d, ops, postfix, numbers, j, x)
                  /\ j \in 1..Len(d.tokens) /\ i = From(d, j) /\ Ch = Sign(d, j)
  BY <1>1, AtNextToken
<1>4. Typed /\ ops \in Seq(OpChars) /\ text = d.text
  BY <1>1 DEF IInv, Typed, Right, Prepared
<1>5. Moves(postfix \o Popped(m), postfix, ops, m)
  BY <1>4, PoppedMoves
<1> DEFINE pp == postfix \o Popped(m)
           c == Ch
<1>6. Moves(pp, postfix, ops, m) /\ c = Sign(d, j) /\ c \in Operators /\ c \notin DigitSet /\ j \in Nodes(d)
  BY <1>1, <1>3, <1>5, CharacterKinds DEF Nodes
<1>7. (m # 0 => ~Higher(ops[m], c)) /\ \A s \in (m + 1)..Len(ops) : Higher(ops[s], c)
  BY <1>2
<1> HIDE DEF pp, c
<1>8. Scanning(d, Append(SubSeq(ops, 1, m), c), pp, numbers, j + 1, 0)
  BY <1>3, <1>4, <1>6, <1>7, Operated
<1>9. AtToken(d, j + 1, 0)'
  BY <1>1, <1>3, <1>4, <1>6, AfterToken
<1>10. CASE pc' = "overrun"
  BY <1>10, OverrunRight
<1>11. CASE pc' # "overrun"
  <2>1. postfix' = pp /\ ops' = Append(SubSeq(ops, 1, m), c) /\ pc' = "scan"
    BY <1>1, <1>2, <1>11 DEF pp, c
  <2>2. Scanning(d, ops', postfix', numbers', j + 1, 0)
    BY <1>1, <1>8, <2>1
  <2> QED
    BY <1>1, <1>4, <1>9, <2>1, <2>2, ScanOn
<1> QED
  BY <1>10, <1>11

LEMMA EndScanRight ==
  ASSUME IInv, NEW d, Parsed(d), Right(d), EndScan
  PROVE  Right(d)'
<1>1. /\ pc = "scan" /\ from = 0 /\ i > Len(text) /\ UNCHANGED <<text, numbers, calc>>
      /\ pc' = "overrun" \/ (postfix' = postfix \o Popped(0) /\ i' = 1 /\ pc' = "calc")
  BY DEF EndScan
<1>2. PICK j, x : Scanning(d, ops, postfix, numbers, j, x) /\ AtToken(d, j, x)
  BY <1>1 DEF Right, Scans
<1>3. j \in 1..(Len(d.tokens) + 1) /\ To(d, j - 1) < i /\ i <= From(d, j)
  BY <1>1, <1>2, ScanPlace DEF AtToken
<1>4. Typed /\ text = d.text
  BY <1>1 DEF IInv, Right, Prepared
<1>5. j = Len(d.tokens) + 1
  BY <1>1, <1>3, <1>4, TokenSeen
<1> DEFINE pp == postfix \o Popped(0)
<1>6. Moves(pp, postfix, ops, 0)
  BY <1>4, PoppedMoves, Lengths
<1> HIDE DEF pp
<1>7. PICK S, W : Finished(d, pp, numbers, S, W)
  BY <1>2, <1>5, <1>6, Emptied
<1>8. CASE pc' = "overrun"
  BY <1>8, OverrunRight
<1>9. CASE pc' # "overrun"
  <2>1. pc' = "calc" /\ postfix' = pp /\ i' = 1
    BY <1>1, <1>9 DEF pp
  <2>2. calc' = <<>>
    <3>1. Len(calc) = 0 /\ \E Q : calc \in Seq(Q)
      BY <1>1, <1>4 DEF IInv, Scanned, Typed
    <3> QED
      BY <1>1, <3>1, EmptySeq
  <2>3. S[1 - 1] = <<>>
    BY <1>7 DEF Finished, Run
  <2>4. Calculating(d, S, W)'
    BY <1>1, <1>7, <2>1, <2>2, <2>3 DEF Calculating
  <2> QED
    BY <2>1, <2>4 DEF Right, Prepared, Calculates
<1> QED
  BY <1>8, <1>9

\* The calculation follows the run.
LEMMA CalcRight ==
  ASSUME IInv, Ranged, NEW d, Parsed(d), Right(d), PushNumber \/ Operate
  PROVE  Right(d)'
<1>1. /\ pc = "calc" /\ i <= Len(postfix) /\ i' = i + 1 /\ UNCHANGED <<text, postfix, numbers>>
  BY DEF PushNumber, Operate
<1>2. PICK S, W : Calculating(d, S, W)
  BY <1>1 DEF Right
<1>3. i \in 1..Len(postfix) /\ i \in Nat /\ (i + 1) - 1 = i /\ Len(postfix) \in Nat
  BY <1>1, Lengths DEF IInv, Held, Typed
<1> DEFINE node == W[i]
           e == postfix[i]
<1>4. Run(d, S, W, postfix, numbers) /\ calc = S[i - 1] /\ Finished(d, postfix, numbers, S, W)
  BY <1>2 DEF Calculating, Finished
<1>5. Turn(d, calc, S[i], node, e, numbers)
  BY ONLY <1>3, <1>4 DEF Run
<1>6. node \in Nodes(d)
  BY <1>5 DEF Turn
<1>7. ASSUME calc' = S[i], ~(Sign(d, node) = "/" /\ ValueAt(d, RightOf(d, node)) = 0), pc' = "calc"
      PROVE  Right(d)'
  <2>1. \A n \in 1..i : n \in 1..(i - 1) \/ n = i
    BY <1>3
  <2>2. \A n \in 1..i : ~(Sign(d, W[n]) = "/" /\ ValueAt(d, RightOf(d, W[n])) = 0)
    BY <1>2, <1>7, <2>1 DEF Calculating
  <2>3. Calculating(d, S, W)'
    BY <1>1, <1>3, <1>4, <1>7, <2>2 DEF Calculating
  <2> QED
    BY <1>7, <2>3 DEF Right, Prepared, Calculates
<1>8. CASE PushNumber
  <2>1. e.op = "n"
    BY <1>8 DEF PushNumber
  <2>2. Sign(d, node) # "/" /\ S[i] = Append(calc, numbers[e.k])
    BY <1>5, <2>1, CharacterKinds DEF Turn, Operators
  <2>3. pc' = "overrun" \/ (pc' = "calc" /\ calc' = Append(calc, numbers[e.k]))
    BY <1>8 DEF PushNumber
  <2> QED
    BY <1>7, <2>2, <2>3, OverrunRight
<1>9. CASE Operate
  <2> DEFINE n == Len(calc)
  <2>1. e.op # "n"
    BY <1>9, CharacterKinds DEF Operate
  <2>2. /\ e.op = Sign(d, node) /\ Sign(d, node) \in Operators /\ n >= 2
        /\ calc[n - 1] = ValueAt(d, LeftOf(d, node)) /\ calc[n] = ValueAt(d, RightOf(d, node))
        /\ S[i] = Append(SubSeq(calc, 1, n - 2), ValueAt(d, node))
    BY <1>5, <2>1 DEF Turn
  <2>3. ~(n < 2)
    <3>1. n \in Nat
      BY Lengths DEF IInv
    <3> QED
      BY <2>2, <3>1
  <2>4. CASE e.op = "/" /\ calc[n] = 0
    <3>1. pc' = "sigfpe"
      BY <1>9, <2>3, <2>4 DEF Operate
    <3>2. Worth(d) = Undefined
      BY <1>6, <2>2, <2>4 DEF Worth, ValueAt, RightOf
    <3> QED
      BY <3>1, <3>2 DEF Right, Prepared, Calculates
  <2>5. CASE ~(e.op = "/" /\ calc[n] = 0)
    <3>1. /\ pc' = "calc"
          /\ calc' = Append(SubSeq(calc, 1, n - 2), Apply(e.op, calc[n - 1], calc[n]))
      BY <1>9, <2>3, <2>5 DEF Operate
    <3>2. ValueAt(d, node) = Apply(Sign(d, node), ValueAt(d, LeftOf(d, node)), ValueAt(d, RightOf(d, node)))
      BY <1>6, <2>2, <2>5, OperatorNode
    <3>3. calc' = S[i]
      BY <2>2, <3>1, <3>2
    <3> QED
      BY <1>7, <2>2, <2>5, <3>1, <3>3
  <2> QED
    BY <2>4, <2>5
<1> QED
  BY <1>8, <1>9

LEMMA CalculatedRight ==
  ASSUME IInv, NEW d, Parsed(d), Right(d), UnclosedParen \/ Calculated
  PROVE  Right(d)'
<1>1. pc = "calc"
  BY DEF UnclosedParen, Calculated
<1>2. PICK S, W : Calculating(d, S, W)
  BY <1>1 DEF Right
<1>3. i \in 1..(Len(postfix) + 1) /\ i \in Nat /\ Len(postfix) \in Nat
  BY <1>1, Lengths DEF IInv, Held, Typed
<1>4. Run(d, S, W, postfix, numbers) /\ calc = S[i - 1] /\ Finished(d, postfix, numbers, S, W)
  BY <1>2 DEF Calculating, Finished
<1>5. ~UnclosedParen
  <2> SUFFICES ASSUME UnclosedParen PROVE FALSE
    OBVIOUS
  <2>1. i \in 1..Len(postfix) /\ postfix[i].op = "("
    BY <1>3 DEF UnclosedParen
  <2>2. Turn(d, S[i - 1], S[i], W[i], postfix[i], numbers)
    BY ONLY <1>4, <2>1 DEF Run
  <2> QED
    BY <2>1, <2>2, CharacterKinds DEF Turn
<1>6. i - 1 = Len(postfix)
  BY <1>3, <1>5 DEF Calculated
<1>7. Len(calc) = 1 /\ calc[1] = ValueAt(d, d.root)
  BY <1>4, <1>6 DEF Finished
<1>8. calc # <<>>
  BY <1>7
<1>9. pc' = "done" /\ result' = ValueAt(d, d.root)
  BY <1>5, <1>7, <1>8 DEF Calculated
<1>10. ~(\E q \in Nodes(d) : Sign(d, q) = "/" /\ ValueAt(d, RightOf(d, q)) = 0)
  <2> SUFFICES ASSUME NEW q \in Nodes(d), Sign(d, q) = "/", ValueAt(d, RightOf(d, q)) = 0 PROVE FALSE
    OBVIOUS
  <2>1. PICK m \in 1..Len(postfix) : W[m] = q
    BY <1>4 DEF Finished, Operators
  <2>2. ~(Sign(d, W[m]) = "/" /\ ValueAt(d, RightOf(d, W[m])) = 0)
    BY <1>2, <1>6, <2>1 DEF Calculating
  <2> QED
    BY <2>1, <2>2
<1>11. Worth(d) = ValueAt(d, d.root)
  BY <1>10 DEF Worth, ValueAt, RightOf
<1> QED
  BY <1>9, <1>11 DEF Right, Prepared, Calculates

\* Every step of the evaluator, and the steps of the loop around it.
LEMMA RightStep ==
  ASSUME IInv, Ranged, NEW d, Parsed(d), Right(d), EvaluatorStep
  PROVE  Right(d)'
BY ReplaceWordRight, CopyRight, RemovePointRight, PointsRight, BeginNumberRight, InNumberRight,
   EndNumberRight, OpenParenRight, CloseParenRight, OperatorRight, OtherCharRight, EndScanRight,
   CalcRight, CalculatedRight
   DEF EvaluatorStep

LEMMA RightStays ==
  ASSUME NEW d, Right(d), UNCHANGED evaluatorVars
  PROVE  Right(d)'
BY DEF evaluatorVars, Right, Prepared, Scans, AtToken, Calculating, Calculates

LEMMA ValueNext ==
  ASSUME DocumentsParsed, IInv, Ranged, ValueInv,
         EvaluatorStep \/ ReadNumber \/ UNCHANGED evaluatorVars
  PROVE  ValueInv'
<1> SUFFICES ASSUME NEW d \in Documents, d.source = source'
             PROVE  Right(d)'
  BY DEF ValueInv
<1>1. Parsed(d)
  BY DEF DocumentsParsed
<1>2. CASE EvaluatorStep
  <2>1. source' = source
    BY <1>2, EvaluatorKeeps
  <2> QED
    BY <1>1, <1>2, <2>1, RightStep DEF ValueInv
<1>3. CASE ReadNumber
  <2>1. PICK s : Call(s)
    BY <1>3 DEF ReadNumber
  <2>2. Call(d.source)
    BY <2>1 DEF Call
  <2> QED
    BY <1>1, <2>2, CallRight
<1>4. CASE UNCHANGED evaluatorVars
  BY <1>4, RightStays DEF evaluatorVars, ValueInv
<1> QED
  BY <1>2, <1>3, <1>4

\* However long an expression is and however deep its parentheses are: when its
\* number of sectors is put in and its points are taken out, the two stacks give
\* it the value of its syntax tree, unless it overruns the arrays; none is refused,
\* and SIGFPE is only for a division by zero.
THEOREM ValuesMatch ==
  ASSUME DocumentsParsed
  PROVE  Spec => []ValueMatches
<1>1. Init => IInv /\ AtLine /\ Ranged /\ AtField /\ ValueInv
  <2>1. Init => ValueInv
    BY DEF Init, EvaluatorInit, ValueInv, Right, Prepared, Calculates
  <2> QED
    BY <2>1, InitInv, InitRanged
<1>2. IInv /\ AtLine /\ Ranged /\ AtField /\ ValueInv /\ [Next]_vars
        => (IInv /\ AtLine /\ Ranged /\ AtField /\ ValueInv)'
  <2> SUFFICES ASSUME IInv, AtLine, Ranged, AtField, ValueInv, [Next]_vars
               PROVE  (IInv /\ AtLine /\ Ranged /\ AtField /\ ValueInv)'
    OBVIOUS
  <2>1. AtLine' /\ (EvaluatorStep \/ ReadNumber \/ UNCHANGED evaluatorVars)
    BY LoopSteps
  <2>2. IInv'
    BY <2>1, EvaluatorInv, ReadNumberInv, StutterInv
  <2>3. Ranged' /\ AtField'
    BY <2>1, <2>2, RangedNext, FieldNext
  <2> QED
    BY <2>1, <2>2, <2>3, ValueNext
<1>3. ValueInv => ValueMatches
  BY DEF ValueInv, ValueMatches, Right
<1> QED
  BY <1>1, <1>2, <1>3, PTL DEF Spec

\* For every rawprogram0.xml whose complete lines have well formed numbers: what
\* the image routines are called with is what those lines say, in their order,
\* and no line that asks for something is passed over. DocumentsParsed is about
\* Documents alone: it says what it is for a number to be well formed.
THEOREM LinesDecide ==
  ASSUME NumbersAreDocuments, DocumentsParsed
  PROVE  Spec => []LineDecides
<1>1. Init => LoopInv /\ lines \in Files
  <2> SUFFICES ASSUME Init PROVE LoopInv /\ lines \in Files
    OBVIOUS
  <2>1. IInv /\ AtLine
    BY InitInv
  <2>2. Ranged /\ AtField
    BY InitRanged
  <2> QED
    BY <2>1, <2>2, LoopInit DEF LoopInv, Init
<1>2. LoopInv /\ lines \in Files /\ ValueMatches /\ [Next]_vars => (LoopInv /\ lines \in Files)'
  <2> SUFFICES ASSUME LoopInv, lines \in Files, ValueMatches, [Next]_vars
               PROVE  (LoopInv /\ lines \in Files)'
    OBVIOUS
  <2>1. IInv /\ AtLine /\ Ranged /\ AtField
    BY DEF LoopInv
  <2>2. AtLine' /\ (EvaluatorStep \/ ReadNumber \/ UNCHANGED evaluatorVars)
    BY <2>1, LoopSteps
  <2>3. IInv'
    BY <2>1, <2>2, EvaluatorInv, ReadNumberInv, StutterInv
  <2>4. Ranged' /\ AtField'
    BY <2>1, <2>2, <2>3, RangedNext, FieldNext
  <2>5. Reading' /\ Filling' /\ Written'
    BY LoopNext
  <2>6. lines' = lines
    BY DEF Next, vars, StartLine, EndOfFile, ReadNumber, Evaluate, StoreNumber, EvaluatorFails,
           ReadName, ReadSparse, IgnoreAttribute, SkipLine, OpenSimlock, WriteImage,
           WriteSimlock, loopVars
  <2> QED
    BY <2>2, <2>3, <2>4, <2>5, <2>6 DEF LoopInv
<1>3. LoopInv => LineDecides
  <2> SUFFICES ASSUME Written PROVE LineDecides
    BY DEF LoopInv
  <2>1. DOMAIN writes = 1..Len(writes)
    BY DEF Written
  <2> QED
    BY <2>1 DEF Written, LineDecides
<1>4. Spec => []ValueMatches
  BY ValuesMatch
<1> QED
  BY <1>1, <1>2, <1>3, <1>4, PTL DEF Spec
=============================================================================
