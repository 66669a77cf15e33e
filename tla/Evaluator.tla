------------------------------ MODULE Evaluator ------------------------------
(***************************************************************************)
(* firehose_strtoint and evaluator of utils.c: the value of a numeric      *)
(* attribute of rawprogram0.xml, such as "NUM_DISK_SECTORS-33.".           *)
(*                                                                         *)
(* The text first gets the number of sectors in place of the word and      *)
(* loses its points (strrep, one occurrence per turn), then it is scanned  *)
(* into postfix order with a stack of operators, then it is calculated.    *)
(* All stacks are arrays of a fixed size that nobody compares with their   *)
(* size: a push onto a full one is the outcome "overrun".                  *)
(*                                                                         *)
(* A text is a sequence of characters; "N" stands for the word             *)
(* NUM_DISK_SECTORS.                                                       *)
(***************************************************************************)
EXTENDS Integers, Sequences, FiniteSets, SequencesExt

CONSTANTS BufferSize,       \* sizeof(buffer) in firehose_strtoint
          PostfixSize,      \* sizeof(postfix_string)
          NumberListSize,   \* entries of postfix_string_number_list
          OperatorSize,     \* sizeof(operator_stack)
          CalculationSize,  \* entries of calculation_stack
          DigitLimit,       \* sizeof(number_buffer) - 1
          WordSize,         \* SIZE_MAX + 1
          DiskDigits,       \* NUM_DISK_SECTORS as "%zu" prints it
          Documents         \* well formed expressions, for the properties

ASSUME SizesFit ==
    /\ {BufferSize, PostfixSize, NumberListSize, OperatorSize, CalculationSize,
        DigitLimit, WordSize} \subseteq Nat \ {0}
    /\ PostfixSize < BufferSize
    /\ PostfixSize <= OperatorSize
    /\ PostfixSize <= 2 * NumberListSize
    /\ NumberListSize <= CalculationSize

VARIABLES source,    \* the string given to firehose_strtoint
          text,      \* buffer
          pc,        \* where firehose_strtoint is, or how it ended
          i,         \* position, in buffer and then in postfix_string
          from,      \* number_start, or 0: EXPR_NOT_IN_NUMBER
          ops,       \* operator_stack
          postfix,   \* postfix_string
          numbers,   \* postfix_string_number_list
          calc,      \* calculation_stack
          result

evaluatorVars == <<source, text, pc, i, from, ops, postfix, numbers, calc, result>>

Digits == <<"0", "1", "2", "3", "4", "5", "6", "7", "8", "9">>
DigitSet == {"0", "1", "2", "3", "4", "5", "6", "7", "8", "9"}
Operators == {"-", "+", "*", "/"}

ASSUME DigitsAreText ==
    DiskDigits \in Seq(STRING) /\ \A k \in 1..Len(DiskDigits) : DiskDigits[k] \in DigitSet

\* operatorHigherPrecedenceThan: the place in "-+*/"; "(" is in no place.
Place(op) == CASE op = "-" -> 1 [] op = "+" -> 2 [] op = "*" -> 3 [] op = "/" -> 4 [] OTHER -> 0

\* Mutant of Higher: operators of one level are popped too.
HigherOrEqual(left, right) == left \in Operators /\ Place(left) >= Place(right)

Higher(left, right) == left \in Operators /\ Place(left) > Place(right)

\* strtoul(number, NULL, 0): a leading zero means octal, up to the first digit
\* that is none. number_buffer keeps the value below SIZE_MAX.
InBase(base, digits) ==
    FoldLeft(LAMBDA v, d : base * v + (CHOOSE k \in 0..9 : Digits[k + 1] = d), 0, digits)
OctalPart(digits) ==
    SubSeq(digits, 1, Cardinality({n \in DOMAIN digits : \A m \in 1..n : digits[m] \notin {"8", "9"}}))
NumberOf(digits) ==
    IF Head(digits) = "0" THEN InBase(8, OctalPart(digits)) ELSE InBase(10, digits)

\* 15 digits are below 2^64, so strtoul never saturates.
ASSUME NumbersFitWord ==
    \A n \in 1..DigitLimit : \A digits \in [1..n -> DigitSet] : NumberOf(digits) \in 0..(WordSize - 1)

Apply(op, x, y) ==
    (IF op = "+" THEN x + y ELSE IF op = "-" THEN x - y ELSE IF op = "*" THEN x * y ELSE x \div y)
        % WordSize

\* The character at i; the string ends with a character that is in no class.
Ch == IF i <= Len(text) THEN text[i] ELSE "NUL"

Ended == {"idle", "done", "refused", "overrun", "wild", "sigfpe"}

EvaluatorInit ==
    /\ source = <<>> /\ text = <<>> /\ pc = "idle"
    /\ i = 1 /\ from = 0
    /\ ops = <<>> /\ postfix = <<>> /\ numbers = <<>> /\ calc = <<>>
    /\ result = 0

\* firehose_strtoint(s) is called; everything in it is local.
Call(s) ==
    /\ pc \in {"idle", "done"}
    /\ source' = s /\ text' = s /\ pc' = "sectors"
    /\ i' = 1 /\ from' = 0
    /\ ops' = <<>> /\ postfix' = <<>> /\ numbers' = <<>> /\ calc' = <<>>
    /\ UNCHANGED result

\* A turn of strrep: the first occurrence of c gives way to r.
Replace(c, r) ==
    /\ \E p \in 1..Len(text) :
         /\ text[p] = c
         /\ \A q \in 1..(p - 1) : text[q] # c
         /\ text' = SubSeq(text, 1, p - 1) \o r \o SubSeq(text, p + 1, Len(text))
    /\ UNCHANGED <<source, pc, i, from, ops, postfix, numbers, calc, result>>

ReplaceWord == pc = "sectors" /\ Replace("N", DiskDigits)

\* strrep is through and its result is copied into buffer.
CopyToBuffer ==
    /\ pc = "sectors"
    /\ \A p \in 1..Len(text) : text[p] # "N"
    /\ pc' = IF Len(text) >= BufferSize THEN "overrun" ELSE "points"
    /\ UNCHANGED <<source, text, i, from, ops, postfix, numbers, calc, result>>

RemovePoint == pc = "points" /\ Replace(".", <<>>)

PointsRemoved ==
    /\ pc = "points"
    /\ \A p \in 1..Len(text) : text[p] # "."
    /\ pc' = "scan"
    /\ UNCHANGED <<source, text, i, from, ops, postfix, numbers, calc, result>>
-----------------------------------------------------------------------------
(* The scan. *)

BeginNumber ==
    /\ pc = "scan" /\ from = 0 /\ Ch \in DigitSet
    /\ from' = i /\ i' = i + 1
    /\ UNCHANGED <<source, text, pc, ops, postfix, numbers, calc, result>>

InNumber ==
    /\ pc = "scan" /\ from # 0 /\ Ch \in DigitSet
    /\ i' = i + 1
    /\ UNCHANGED <<source, text, pc, from, ops, postfix, numbers, calc, result>>

\* Mutant of EndNumber: expr_state is not set back.
EndNumberStays ==
    /\ pc = "scan" /\ from # 0 /\ Ch \notin DigitSet
    /\ IF i - from > DigitLimit
       THEN pc' = "refused" /\ UNCHANGED <<postfix, numbers>>
       ELSE IF Len(postfix) = PostfixSize \/ Len(numbers) = NumberListSize
       THEN pc' = "overrun" /\ UNCHANGED <<postfix, numbers>>
       ELSE /\ postfix' = Append(postfix, [op |-> "n", k |-> Len(numbers) + 1])
            /\ numbers' = Append(numbers, NumberOf(SubSeq(text, from, i - 1)))
            /\ UNCHANGED pc
    /\ UNCHANGED <<source, text, i, from, ops, calc, result>>

\* The character after a number is seen again in the next turn.
EndNumber ==
    /\ pc = "scan" /\ from # 0 /\ Ch \notin DigitSet
    /\ from' = 0
    /\ IF i - from > DigitLimit
       THEN pc' = "refused" /\ UNCHANGED <<postfix, numbers>>
       ELSE IF Len(postfix) = PostfixSize \/ Len(numbers) = NumberListSize
       THEN pc' = "overrun" /\ UNCHANGED <<postfix, numbers>>
       ELSE /\ postfix' = Append(postfix, [op |-> "n", k |-> Len(numbers) + 1])
            /\ numbers' = Append(numbers, NumberOf(SubSeq(text, from, i - 1)))
            /\ UNCHANGED pc
    /\ UNCHANGED <<source, text, i, ops, calc, result>>

\* The operators above position j leave the stack, the last one first.
Popped(j) == [n \in 1..(Len(ops) - j) |-> [op |-> ops[Len(ops) + 1 - n], k |-> 0]]

OpenParen ==
    /\ pc = "scan" /\ from = 0 /\ Ch = "("
    /\ i' = i + 1
    /\ IF Len(ops) = OperatorSize
       THEN pc' = "overrun" /\ UNCHANGED ops
       ELSE ops' = Append(ops, "(") /\ UNCHANGED pc
    /\ UNCHANGED <<source, text, from, postfix, numbers, calc, result>>

\* Down to the last "(", which goes as well, or to the bottom.
CloseParen ==
    /\ pc = "scan" /\ from = 0 /\ Ch = ")"
    /\ i' = i + 1
    /\ \E j \in 0..Len(ops) :
         /\ j # 0 => ops[j] = "("
         /\ \A m \in (j + 1)..Len(ops) : ops[m] # "("
         /\ IF Len(postfix) + Len(ops) - j > PostfixSize
            THEN pc' = "overrun" /\ UNCHANGED <<ops, postfix>>
            ELSE /\ postfix' = postfix \o Popped(j)
                 /\ ops' = SubSeq(ops, 1, j - 1)
                 /\ UNCHANGED pc
    /\ UNCHANGED <<source, text, from, numbers, calc, result>>

\* The operators on top that bind tighter come first.
Operator ==
    /\ pc = "scan" /\ from = 0 /\ Ch \in Operators
    /\ i' = i + 1
    /\ \E j \in 0..Len(ops) :
         /\ j # 0 => ~Higher(ops[j], Ch)
         /\ \A m \in (j + 1)..Len(ops) : Higher(ops[m], Ch)
         /\ IF Len(postfix) + Len(ops) - j > PostfixSize \/ j = OperatorSize
            THEN pc' = "overrun" /\ UNCHANGED <<ops, postfix>>
            ELSE /\ postfix' = postfix \o Popped(j)
                 /\ ops' = Append(SubSeq(ops, 1, j), Ch)
                 /\ UNCHANGED pc
    /\ UNCHANGED <<source, text, from, numbers, calc, result>>

OtherChar ==
    /\ pc = "scan" /\ from = 0
    /\ i <= Len(text) /\ Ch \notin DigitSet \union Operators \union {"(", ")"}
    /\ i' = i + 1
    /\ UNCHANGED <<source, text, pc, from, ops, postfix, numbers, calc, result>>

\* Mutant of EndScan: i goes on from the end of the text.
EndScanKeepsPlace ==
    /\ pc = "scan" /\ from = 0 /\ i > Len(text)
    /\ IF Len(postfix) + Len(ops) > PostfixSize
       THEN pc' = "overrun" /\ UNCHANGED <<ops, postfix>>
       ELSE postfix' = postfix \o Popped(0) /\ ops' = <<>> /\ pc' = "calc"
    /\ UNCHANGED <<source, text, i, from, numbers, calc, result>>

\* At the end of the text what is left on the stack follows.
EndScan ==
    /\ pc = "scan" /\ from = 0 /\ i > Len(text)
    /\ IF Len(postfix) + Len(ops) > PostfixSize
       THEN pc' = "overrun" /\ UNCHANGED <<ops, postfix, i>>
       ELSE /\ postfix' = postfix \o Popped(0)
            /\ ops' = <<>>
            /\ i' = 1
            /\ pc' = "calc"
    /\ UNCHANGED <<source, text, from, numbers, calc, result>>
-----------------------------------------------------------------------------
(* The calculation. *)

PushNumber ==
    /\ pc = "calc" /\ i <= Len(postfix) /\ postfix[i].op = "n"
    /\ i' = i + 1
    /\ IF Len(calc) = CalculationSize
       THEN pc' = "overrun" /\ UNCHANGED calc
       ELSE calc' = Append(calc, numbers[postfix[i].k]) /\ UNCHANGED pc
    /\ UNCHANGED <<source, text, from, ops, postfix, numbers, result>>

\* Mutant of Operate: the operand popped first is taken for the left one.
OperateSwapped ==
    /\ pc = "calc" /\ i <= Len(postfix) /\ postfix[i].op \in Operators
    /\ i' = i + 1
    /\ IF Len(calc) < 2
       THEN pc' = "wild" /\ UNCHANGED calc
       ELSE LET n == Len(calc) IN
            IF postfix[i].op = "/" /\ calc[n - 1] = 0
            THEN pc' = "sigfpe" /\ UNCHANGED calc
            ELSE /\ calc' = Append(SubSeq(calc, 1, n - 2),
                                   Apply(postfix[i].op, calc[n], calc[n - 1]))
                 /\ UNCHANGED pc
    /\ UNCHANGED <<source, text, from, ops, postfix, numbers, result>>

\* With fewer than two operands the sizes wrap and anything is read.
Operate ==
    /\ pc = "calc" /\ i <= Len(postfix) /\ postfix[i].op \in Operators
    /\ i' = i + 1
    /\ IF Len(calc) < 2
       THEN pc' = "wild" /\ UNCHANGED calc
       ELSE LET n == Len(calc) IN
            IF postfix[i].op = "/" /\ calc[n] = 0
            THEN pc' = "sigfpe" /\ UNCHANGED calc
            ELSE /\ calc' = Append(SubSeq(calc, 1, n - 2),
                                   Apply(postfix[i].op, calc[n - 1], calc[n]))
                 /\ UNCHANGED pc
    /\ UNCHANGED <<source, text, from, ops, postfix, numbers, result>>

\* A "(" that was never closed is taken for the index of a number.
UnclosedParen ==
    /\ pc = "calc" /\ i <= Len(postfix) /\ postfix[i].op = "("
    /\ pc' = "wild"
    /\ UNCHANGED <<source, text, i, from, ops, postfix, numbers, calc, result>>

Calculated ==
    /\ pc = "calc" /\ i > Len(postfix)
    /\ IF calc = <<>>
       THEN pc' = "refused" /\ UNCHANGED result
       ELSE pc' = "done" /\ result' = calc[Len(calc)]
    /\ UNCHANGED <<source, text, i, from, ops, postfix, numbers, calc>>

EvaluatorStep ==
    \/ ReplaceWord \/ CopyToBuffer \/ RemovePoint \/ PointsRemoved
    \/ BeginNumber \/ InNumber \/ EndNumber
    \/ OpenParen \/ CloseParen \/ Operator \/ OtherChar \/ EndScan
    \/ PushNumber \/ Operate \/ UnclosedParen \/ Calculated
-----------------------------------------------------------------------------
(* What a text means.  An expression is a record that shows how its source *)
(* is read: what the replacements make of it, where its tokens are, and    *)
(* for every number, operator and "(" the node of the syntax tree it is:   *)
(* the tokens from first to last that belong to it, the nodes to its left  *)
(* and right (a "(" has what is inside to its right), and its value.       *)

\* u is t with r in place of every c; w[n] is where the first n characters end.
Substituted(t, c, r, u, w) ==
    /\ w \in [0..Len(t) -> Nat] /\ w[0] = 0 /\ w[Len(t)] = Len(u)
    /\ \A n \in 1..Len(t) :
         IF t[n] = c
         THEN w[n] = w[n - 1] + Len(r) /\ \A k \in 1..Len(r) : u[w[n - 1] + k] = r[k]
         ELSE w[n] = w[n - 1] + 1 /\ u[w[n]] = t[n]

From(d, j) == IF j > Len(d.tokens) THEN Len(d.text) + 1 ELSE d.tokens[j].from
To(d, j) == IF j = 0 THEN 0 ELSE d.tokens[j].to
Sign(d, j) == d.text[d.tokens[j].from]

\* The tokens are the numbers, operators and parentheses of the text, in order.
Spelled(d) ==
    /\ \A j \in 1..Len(d.tokens) :
         /\ d.tokens[j].from \in Nat /\ d.tokens[j].to \in Nat
         /\ To(d, j - 1) < From(d, j) /\ From(d, j) <= To(d, j) /\ To(d, j) <= Len(d.text)
         /\ \/ /\ \A x \in From(d, j)..To(d, j) : d.text[x] \in DigitSet
               /\ To(d, j) < Len(d.text) => d.text[To(d, j) + 1] \notin DigitSet
               /\ To(d, j) - From(d, j) < DigitLimit
            \/ Sign(d, j) \in Operators \union {"(", ")"} /\ From(d, j) = To(d, j)
    /\ \A j \in 0..Len(d.tokens) : \A x \in (To(d, j) + 1)..(From(d, j + 1) - 1) :
         d.text[x] \notin DigitSet \union Operators \union {"(", ")"}

Nodes(d) == {j \in 1..Len(d.tokens) : Sign(d, j) # ")"}

\* "-" binds least, then "+", "*", "/", and all of them group to the right.
Divided(d, j) ==
    LET node == d.tokens[j]
        left == d.tokens[node.left]
        right == d.tokens[node.right]
    IN /\ node.left \in Nodes(d) /\ node.right \in Nodes(d)
       /\ left.first = node.first /\ left.last = j - 1
       /\ right.first = j + 1 /\ right.last = node.last
       /\ Sign(d, node.left) \in Operators => Place(Sign(d, node.left)) > Place(Sign(d, j))
       /\ Sign(d, node.right) \in Operators => Place(Sign(d, node.right)) >= Place(Sign(d, j))
       /\ ~(Sign(d, j) = "/" /\ right.value = 0) =>
              node.value = Apply(Sign(d, j), left.value, right.value)

Enclosing(d, j) ==
    LET node == d.tokens[j]
        inside == d.tokens[node.right]
    IN /\ node.right \in Nodes(d)
       /\ node.first = j /\ inside.first = j + 1 /\ node.last = inside.last + 1
       /\ Sign(d, node.last) = ")"
       /\ node.value = inside.value

Single(d, j) ==
    /\ d.tokens[j].first = j /\ d.tokens[j].last = j
    /\ d.tokens[j].value = NumberOf(SubSeq(d.text, From(d, j), To(d, j)))

\* Every node but the root is to the left or to the right of another one.
Parsed(d) ==
    /\ d.source \in Seq(STRING) /\ d.middle \in Seq(STRING) /\ d.text \in Seq(STRING)
    /\ Substituted(d.source, "N", DiskDigits, d.middle, d.words)
    /\ Substituted(d.middle, ".", <<>>, d.text, d.points)
    /\ Len(d.tokens) \in Nat /\ Spelled(d)
    /\ \A j \in Nodes(d) :
         /\ d.tokens[j].first \in 1..j /\ d.tokens[j].last \in j..Len(d.tokens)
         /\ d.tokens[j].value \in 0..(WordSize - 1)
         /\ CASE Sign(d, j) \in Operators -> Divided(d, j)
              [] Sign(d, j) = "(" -> Enclosing(d, j)
              [] OTHER -> Single(d, j)
         /\ j # d.root => \E p \in Nodes(d) :
              \/ Sign(d, p) \in Operators /\ d.tokens[p].left = j
              \/ Sign(d, p) \in Operators \union {"("} /\ d.tokens[p].right = j
    /\ d.root \in Nodes(d)
    /\ d.tokens[d.root].first = 1 /\ d.tokens[d.root].last = Len(d.tokens)

DocumentsParsed == \A d \in Documents : Parsed(d)
Sources == {d.source : d \in Documents}

Undefined == -1

\* The value of an expression, unless one of its divisions is by zero.
Worth(d) ==
    IF \E j \in Nodes(d) : Sign(d, j) = "/" /\ d.tokens[d.tokens[j].right].value = 0
    THEN Undefined
    ELSE d.tokens[d.root].value

\* p and q, p before q, are inside the same parentheses of t.
Count(t, c, p, q) == Cardinality({n \in p..q : t[n] = c})
SameLevel(t, p, q) ==
    /\ Count(t, "(", p, q) = Count(t, ")", p, q)
    /\ \A r \in p..q : Count(t, "(", p, r) >= Count(t, ")", p, r)

\* The value of t when an expression is divided at the operator that SplitAt
\* takes among those outside of parentheses; Undefined if it divides by zero.
Value(t, SplitAt(_, _)) ==
    LET V[lo \in 1..Len(t), hi \in 1..Len(t)] ==
            LET P == {p \in lo..hi : t[p] \in Operators /\ SameLevel(t, lo, p)
                                     /\ Count(t, "(", lo, p) = Count(t, ")", lo, p)}
            IN IF P # {}
               THEN LET p == SplitAt(t, P)
                        x == V[lo, p - 1]
                        y == V[p + 1, hi]
                    IN IF x = Undefined \/ y = Undefined \/ (t[p] = "/" /\ y = 0)
                       THEN Undefined
                       ELSE Apply(t[p], x, y)
               ELSE IF t[lo] = "(" THEN V[lo + 1, hi - 1]
               ELSE NumberOf(SelectSeq(SubSeq(t, lo, hi), LAMBDA c : c \in DigitSet))
    IN V[1, Len(t)]

\* The usual order: "+" and "-" bind less than "*" and "/"; all group to the left.
Sum == {"+", "-"}
LastOfLowest(t, P) ==
    CHOOSE p \in P : \A q \in P \ {p} :
        \/ t[p] \in Sum /\ t[q] \notin Sum
        \/ (t[p] \in Sum <=> t[q] \in Sum) /\ p > q

\* Texts whose value is the same in both orders: no "+" or "-" comes after a
\* "-", and a "/" is the first operator of its product.
OrderFree(t) ==
    \A p, q \in DOMAIN t :
        (p < q /\ SameLevel(t, p, q)) =>
            /\ ~(t[p] = "-" /\ t[q] \in Sum)
            /\ (t[p] \in {"*", "/"} /\ t[q] = "/") =>
                   \E r \in p..q : t[r] \in Sum /\ SameLevel(t, p, r)

\* result is the value of an expression, and dying of SIGFPE means that it has none.
Calculates(value) ==
    /\ pc = "done" => result = value
    /\ pc = "sigfpe" => value = Undefined
    /\ pc \notin {"refused", "wild"}

\* Whatever order one has in mind, the code has its own, and the two stacks
\* implement it: a well formed expression that fits the arrays gives its value in
\* that order, and SIGFPE is only for a division by zero.
ValueMatches == \A d \in Documents : d.source = source => Calculates(Worth(d))

\* Where the usual order of arithmetic gives the same value, so does the code;
\* "NUM_DISK_SECTORS-33." and "8*(N-1)" are of this kind, "a-b-c" is not.
UsualOrder ==
    \A d \in Documents :
        (d.source = source /\ OrderFree(d.text)) => Calculates(Value(d.text, LastOfLowest))

\* No text of at most 16 characters, well formed or not, writes outside of the
\* arrays of evaluator, though nothing compares them with their sizes.
ShortTextsFit == pc = "overrun" => Len(text) > PostfixSize
=============================================================================
