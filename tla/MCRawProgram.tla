----------------------------- MODULE MCRawProgram -----------------------------
(***************************************************************************)
(* Small contents of rawprogram0.xml: expressions of up to four operands,  *)
(* texts that are none, and files of up to three lines that give all, some *)
(* or none of the attributes.                                              *)
(***************************************************************************)
EXTENDS RawProgram

MCDiskDigits == <<"1", "6">>

\* "8", "12", octal "012" and "019", nought, "3.", the word.
Atoms == {<<"8">>, <<"1", "2">>, <<"0", "1", "2">>, <<"0", "1", "9">>, <<"0">>, <<"3", ".">>, <<"N">>}
Wrap(t) == <<"(">> \o t \o <<")">>
Binary(x, op, y) == x \o <<op>> \o y

Pairs == {Binary(x, op, y) : x, y \in Atoms, op \in Operators}
Triples == {Binary(Binary(<<"9">>, o, <<"3">>), p, z) : o, p \in Operators, z \in {<<"2">>, <<"N">>}}
Quads == {Binary(Binary(Binary(<<"8">>, o, <<"6">>), p, <<"2">>), q, <<"3">>) : o, p, q \in Operators}
Grouped ==
    UNION {{Binary(<<"9">>, o, Wrap(Binary(<<"7">>, p, <<"2">>))),
            Binary(Wrap(Binary(<<"9">>, o, <<"7">>)), p, <<"2">>),
            Binary(Binary(<<"9">>, o, Wrap(Binary(<<"6">>, p, <<"4">>))), o, <<"5">>),
            Wrap(Wrap(Binary(<<"N">>, o, Wrap(<<"2">>)))),
            Binary(<<"9", " ">>, o, <<" ", "4", " ">>)} : o, p \in Operators}
Long == {Binary(Wrap(<<"9", "9", "9", "9", "*", "9", "9", "9", "9">>), "*", <<"4">>),
         <<"1", "+", "2", "-", "3", "*", "4", "/", "5", "+", "6", "*", "7", "/", "8">>}
Plain == {<<d>> : d \in {"2", "3", "4", "5", "6", "7", "9"}}
Expressions == Plain \union Atoms \union Pairs \union Triples \union Quads \union Grouped \union Long

\* Reading an expression.
Offsets(t, c, size) == [n \in 0..Len(t) |-> n + (size - 1) * Cardinality({k \in 1..n : t[k] = c})]
With(t, c, r) == FoldLeft(LAMBDA u, x : u \o IF x = c THEN r ELSE <<x>>, <<>>, t)
Begins(t, x) ==
    \/ t[x] \in Operators \union {"(", ")"}
    \/ t[x] \in DigitSet /\ (x = 1 \/ t[x - 1] \notin DigitSet)
EndOf(t, x) ==
    CHOOSE y \in x..Len(t) :
        /\ y = x \/ \A z \in x..y : t[z] \in DigitSet
        /\ t[x] \in DigitSet => y = Len(t) \/ t[y + 1] \notin DigitSet

\* The code's order: "-" binds least, then "+", "*", "/"; all group to the right.
FirstOfLowest(t, P) ==
    CHOOSE p \in P : \A q \in P \ {p} :
        Place(t[p]) < Place(t[q]) \/ (Place(t[p]) = Place(t[q]) /\ p < q)

\* The root of the tree over lo..hi, c having one sign for each token.
Root(c, lo, hi) ==
    LET P == {p \in lo..hi : c[p] \in Operators /\ SameLevel(c, lo, p)}
    IN IF P = {} THEN lo ELSE FirstOfLowest(c, P)

Middles == {[source |-> s, middle |-> With(s, "N", DiskDigits)] : s \in Expressions}
Texts ==
    {[source |-> r.source, middle |-> r.middle, text |-> With(r.middle, ".", <<>>)] : r \in Middles}
Starts ==
    {<<r, SelectSeq([x \in DOMAIN r.text |-> x], LAMBDA x : Begins(r.text, x))>> : r \in Texts}
Signs == {<<q[1], q[2], FoldLeft(LAMBDA u, x : Append(u, q[1].text[x]), <<>>, q[2])>> : q \in Starts}

\* The tokens from lo to hi, of which c has the signs, as one expression: a
\* number, an expression in parentheses, or two and the operator between them.
Readings(t, start, c) ==
    LET Token(j, lo, hi, left, right, value) ==
            [from |-> start[j], to |-> EndOf(t, start[j]),
             first |-> lo, last |-> hi, left |-> left, right |-> right, value |-> value]
        Quotient(op, x, y) == IF op = "/" /\ y = 0 THEN 0 ELSE Apply(op, x, y)
        R[lo \in DOMAIN c, hi \in DOMAIN c] ==
            UNION {CASE c[p] \in Operators ->
                          {u \o <<Token(p, lo, hi, k, n,
                                        Quotient(c[p], u[k - lo + 1].value, v[n - p].value))>> \o v :
                               u \in R[lo, p - 1], v \in R[p + 1, hi],
                               k \in {Root(c, lo, p - 1)}, n \in {Root(c, p + 1, hi)}}
                     [] c[p] = "(" ->
                          {<<Token(lo, lo, hi, 0, n, u[n - lo].value)>> \o u
                               \o <<Token(hi, hi, hi, 0, 0, 0)>> :
                               u \in R[lo + 1, hi - 1], n \in {Root(c, lo + 1, hi - 1)}}
                     [] OTHER ->
                          {<<Token(lo, lo, lo, 0, 0,
                                   NumberOf(SubSeq(t, start[lo], EndOf(t, start[lo]))))>>}
                   : p \in {Root(c, lo, hi)}}
    IN R[1, Len(c)]

Trees ==
    UNION {{[source |-> q[1].source, middle |-> q[1].middle, text |-> q[1].text,
             words |-> Offsets(q[1].source, "N", Len(DiskDigits)),
             points |-> Offsets(q[1].middle, ".", 0),
             tokens |-> tokens, root |-> Root(q[3], 1, Len(q[3]))]
              : tokens \in Readings(q[1].text, q[2], q[3])} : q \in Signs}
MCDocuments == Trees

\* The hypothesis of ValuesMatch in EvaluatorProofs.
ASSUME DocumentsAreParsed == DocumentsParsed

\* The trees give the values that dividing at the operator that binds least gives.
ASSUME TreesAgree == \A d \in Documents : Worth(d) = Value(d.text, FirstOfLowest)

Repeat(n, t) == FoldLeft(LAMBDA u, k : u \o t, <<>>, [k \in 1..n |-> k])
OtherTexts ==
    {<<>>, <<".">>, <<"+">>, <<"(">>, <<")">>, <<"5", ")">>, <<"(", "5">>, <<"5", "+">>, <<"-", "5">>,
     <<"5", " ", "5">>, <<"(", "5", "+">>, <<"1", "2", "3", "4", "5">>, <<"A", "5">>,
     <<"5", "+", ")", "6">>,
     Repeat(8, <<"1", "+">>), Repeat(8, <<"1", "+">>) \o <<"1">>, Repeat(8, <<" ", "1">>),
     Repeat(16, <<"(">>), Repeat(17, <<"(">>), Repeat(17, <<"*">>),
     Repeat(4, <<"1", "-", "(">>) \o <<"1">> \o Repeat(4, <<")">>),
     Repeat(4, <<"(", "(", "-">>) \o <<"1">>,
     Repeat(10, <<"N">>), Repeat(12, <<"N">>)}
    \union {Repeat(n, <<"*">>) \o <<"1">> \o Repeat(16 - n, <<"-">>) : n \in {13, 15}}

At(field, value) == [name |-> field, value |-> value]
ProgramLine(attributes) == [isProgram |-> TRUE, attributes |-> attributes]

Numbers(offset, start) ==
    <<At("SECTOR_SIZE_IN_BYTES", <<"8">>), At("file_sector_offset", offset),
      At("num_partition_sectors", <<"4">>), At("physical_partition_number", <<"0">>),
      At("start_sector", start)>>
FullLine(file, label, sparse, start) ==
    ProgramLine(Numbers(<<"2">>, start) \o
        <<At("filename", file), At("label", label), At("sparse", sparse), At("size_in_KB", <<"1">>)>>)

FileA == <<"a.img">>
FileB == <<"b.img">>
LongName == <<"a", "very", "long", "name">>
MCTooLong == {LongName}
MCPresent == {FileA, FileB}

Lines ==
    {FullLine(FileA, <<"boot">>, <<"false">>, <<"5">>),
     FullLine(FileB, <<"system">>, <<"true">>, <<"N">>),
     FullLine(FileB, <<"simlock">>, <<"false">>, <<"7">>),
     FullLine(<<"none.img">>, <<"cache">>, <<"true">>, <<"6">>),
     FullLine(<<>>, <<"empty">>, <<"false">>, <<"6">>),
     FullLine(LongName, <<"boot">>, <<"maybe">>, <<"9">>),
     ProgramLine(<<At("filename", FileB), At("label", <<"simlock">>)>>),
     ProgramLine(<<At("start_sector", <<"6">>), At("filename", FileA)>>),
     ProgramLine(<<At("sparse", <<"true">>), At("start_sector", LongName)>>),
     ProgramLine(<<>>),
     [isProgram |-> FALSE, attributes |-> <<At("filename", FileA)>>]}

LineFiles == {<<x, y>> : x, y \in Lines}
LongerFiles == {<<FullLine(FileB, <<"system">>, <<"true">>, <<"3">>),
                  ProgramLine(<<At("filename", FileB)>>), x>> : x \in Lines}
NumberFiles == {<<ProgramLine(<<At("start_sector", t)>>)>> : t \in Expressions \union OtherTexts}
MCFiles == LineFiles \union LongerFiles \union NumberFiles

\* Another hypothesis, of LinesDecide in EvaluatorProofs.
ASSUME NumbersAreDocuments
=============================================================================
