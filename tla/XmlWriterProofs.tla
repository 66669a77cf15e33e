---------------------------- MODULE XmlWriterProofs ----------------------------
(***************************************************************************)
(* Proofs about XmlWriter, for buffers of any length and names and texts   *)
(* of any length: nothing is written past the buffer, the text always      *)
(* reads as the tags that were opened and not closed, and there is always  *)
(* the room to close them.                                                 *)
(***************************************************************************)
EXTENDS XmlWriter, SequenceTheorems, WellFoundedInduction, TLAPS

LEMMA LeastExists ==
  ASSUME NEW S \in SUBSET Nat, S # {}
  PROVE  \E x \in S : \A y \in S : x <= y
<1> DEFINE R == OpToRel(<, Nat)
<1>1. IsWellFoundedOn(R, Nat)
  BY NatLessThanWellFounded
<1>2. \A x, y \in Nat : y < x => <<y, x>> \in R
  BY DEF OpToRel
<1> HIDE DEF R
<1>3. PICK x \in S : \A y \in S : ~ (<<y, x>> \in R)
  BY <1>1, WFMin
<1>4. \A y \in S : ~(y < x)
  BY <1>2, <1>3
<1> QED
  BY <1>3, <1>4

(***************************************************************************)
(* ReadTo is the function that its recursive definition says: the least n  *)
(* up to which there is none would be one after an n - 1 up to which there *)
(* is one.                                                                 *)
(***************************************************************************)
Start == [in |-> "text", name |-> <<>>, open |-> <<>>]

Runs(f, t, n) == f = [k \in 0..n |-> IF k = 0 THEN Start ELSE Reads(f[k - 1], t[k])]

LEMMA RunExists ==
  ASSUME NEW t, NEW n \in Nat
  PROVE  \E f : Runs(f, t, n)
<1> DEFINE None == {m \in Nat : ~ \E f : Runs(f, t, m)}
<1> SUFFICES ASSUME None # {} PROVE FALSE
  OBVIOUS
<1>1. PICK m \in None : \A k \in None : m <= k
  BY LeastExists
<1>2. m # 0
  <2> DEFINE f == [k \in 0..0 |-> Start]
  <2>1. Runs(f, t, 0)
    BY DEF Runs
  <2> QED
    BY <2>1, <1>1
<1>3. m - 1 \in Nat /\ m - 1 \notin None
  BY <1>1, <1>2
<1>4. PICK f : Runs(f, t, m - 1)
  BY <1>3
<1> DEFINE g == [k \in 0..m |-> IF k = m THEN Reads(f[m - 1], t[m]) ELSE f[k]]
<1>5. \A k \in 0..(m - 1) : g[k] = f[k]
  BY <1>3
<1>6. \A k \in 0..m : g[k] = IF k = 0 THEN Start ELSE Reads(g[k - 1], t[k])
  <2> TAKE k \in 0..m
  <2>1. CASE k = m
    <3>1. g[m - 1] = f[m - 1]
      BY <1>3, <1>5
    <3> QED
      BY <1>2, <2>1, <3>1
  <2>2. CASE k # m
    <3>1. k \in 0..(m - 1) /\ (k # 0 => k - 1 \in 0..(m - 1))
      BY <2>2, <1>3
    <3>2. f[k] = IF k = 0 THEN Start ELSE Reads(f[k - 1], t[k])
      BY <1>4, <3>1 DEF Runs
    <3> QED
      BY <1>5, <3>1, <3>2
  <2> QED
    BY <2>1, <2>2
<1>7. Runs(g, t, m)
  BY <1>6 DEF Runs
<1> QED
  BY <1>1, <1>7

LEMMA ReadToRuns ==
  ASSUME NEW t, Len(t) \in Nat
  PROVE  /\ ReadTo(t)[0] = Start
         /\ \A k \in 1..Len(t) : ReadTo(t)[k] = Reads(ReadTo(t)[k - 1], t[k])
<1> DEFINE R == CHOOSE f : Runs(f, t, Len(t))
<1>1. Runs(R, t, Len(t))
  BY RunExists
<1>2. ReadTo(t) = R
  BY DEF ReadTo, Runs, Start
<1> HIDE DEF R
<1> QED
  BY <1>1, <1>2 DEF Runs

\* What has been read of a text does not depend on what follows.
LEMMA ReadAgrees ==
  ASSUME NEW t, NEW u, Len(t) \in Nat, Len(u) \in Nat, Len(t) <= Len(u),
         \A k \in 1..Len(t) : u[k] = t[k]
  PROVE  ReadTo(u)[Len(t)] = Read(t)
<1> DEFINE Apart == {k \in Nat : k <= Len(t) /\ ReadTo(u)[k] # ReadTo(t)[k]}
<1> SUFFICES ASSUME Apart # {} PROVE FALSE
  BY DEF Read
<1>1. PICK m \in Apart : \A k \in Apart : m <= k
  BY LeastExists
<1>2. m # 0
  BY <1>1, ReadToRuns
<1>3. m - 1 \in Nat /\ m - 1 \notin Apart /\ m \in 1..Len(t) /\ m \in 1..Len(u)
  BY <1>1, <1>2
<1>4. ReadTo(u)[m - 1] = ReadTo(t)[m - 1]
  BY <1>3
<1>5. ReadTo(u)[m] = Reads(ReadTo(u)[m - 1], u[m]) /\ ReadTo(t)[m] = Reads(ReadTo(t)[m - 1], t[m])
  BY <1>3, ReadToRuns
<1> QED
  BY <1>1, <1>3, <1>4, <1>5

\* Characters that change nothing.
LEMMA ReadStays ==
  ASSUME NEW t, Len(t) \in Nat, NEW a \in 0..Len(t), NEW x, ReadTo(t)[a] = x,
         \A k \in a + 1..Len(t) : Reads(x, t[k]) = x
  PROVE  Read(t) = x
<1> DEFINE Apart == {k \in Nat : k \in a..Len(t) /\ ReadTo(t)[k] # x}
<1> SUFFICES ASSUME Apart # {} PROVE FALSE
  BY DEF Read
<1>1. PICK m \in Apart : \A k \in Apart : m <= k
  BY LeastExists
<1>2. m # a
  BY <1>1
<1>3. m - 1 \in Nat /\ m - 1 \notin Apart /\ m - 1 \in a..Len(t) /\ m \in 1..Len(t) /\ m \in a + 1..Len(t)
  BY <1>1, <1>2
<1>4. ReadTo(t)[m - 1] = x
  BY <1>3
<1>5. ReadTo(t)[m] = Reads(ReadTo(t)[m - 1], t[m])
  BY <1>3, ReadToRuns
<1> QED
  BY <1>1, <1>3, <1>4, <1>5

Modes == {"text", "open", "attributes", "close", "wrong"}
ReadState == [in : Modes, name : Seq(Chars), open : Seq(Seq(Chars))]

Named(x, name) == [x EXCEPT !.name = name]

LEMMA NamedFacts ==
  ASSUME NEW x \in ReadState, NEW name \in Seq(Chars)
  PROVE  /\ Named(x, name) \in ReadState /\ Named(x, name).in = x.in
         /\ Named(x, name).name = name /\ Named(x, name).open = x.open
BY DEF Named, ReadState

LEMMA NamedTwice ==
  ASSUME NEW x \in ReadState, NEW name, NEW n
  PROVE  Named(Named(x, name), n) = Named(x, n)
BY DEF Named, ReadState

(***************************************************************************)
(* Reads, case by case.                                                    *)
(***************************************************************************)
LEMMA ReadsLetter ==
  ASSUME NEW x \in ReadState, x.in \in {"open", "close"}, NEW c \in Letters
  PROVE  Reads(x, c) = Named(x, Append(x.name, c))
<1>1. c # "/" /\ c # " " /\ c # ">" /\ c # "<"
  BY LettersAssumption
<1> QED
  BY <1>1 DEF Reads, Named

LEMMA ReadsText ==
  ASSUME NEW x \in ReadState, x.in = "text", NEW c
  PROVE  Reads(x, c) = IF c = "<" THEN [x EXCEPT !.in = "open", !.name = <<>>] ELSE x
BY DEF Reads

LEMMA ReadsSlash ==
  ASSUME NEW x \in ReadState, x.in = "open", x.name = <<>>
  PROVE  Reads(x, "/") = [x EXCEPT !.in = "close"]
BY LettersAssumption DEF Reads

Opened(x, in) == [x EXCEPT !.in = in, !.open = Append(@, x.name)]

LEMMA ReadsNameEnd ==
  ASSUME NEW x \in ReadState, x.in = "open", NEW c \in {" ", ">"}
  PROVE  Reads(x, c) = Opened(x, IF c = ">" THEN "text" ELSE "attributes")
<1>1. c # "/" /\ c \notin Letters
  BY LettersAssumption
<1> QED
  BY <1>1 DEF Reads, Opened

LEMMA ReadsAttributes ==
  ASSUME NEW x \in ReadState, x.in = "attributes", NEW c
  PROVE  Reads(x, c) = IF c = ">" THEN [x EXCEPT !.in = "text"] ELSE x
BY DEF Reads

LEMMA ReadsEndTag ==
  ASSUME NEW x \in ReadState, x.in = "close", x.open # <<>>, Last(x.open) = x.name
  PROVE  Reads(x, ">") = [x EXCEPT !.in = "text", !.open = Front(@)]
BY LettersAssumption DEF Reads

LEMMA LenNat ==
  ASSUME NEW S, NEW s \in Seq(S)
  PROVE  Len(s) \in Nat /\ (s # <<>> => 0 < Len(s)) /\ \A k \in 1..Len(s) : s[k] \in S
OBVIOUS

LEMMA SubSeqGrows ==
  ASSUME NEW S, NEW t \in Seq(S), NEW a \in Nat, NEW m \in a + 1..Len(t)
  PROVE  Append(SubSeq(t, a + 1, m - 1), t[m]) = SubSeq(t, a + 1, m)
<1> DEFINE p == SubSeq(t, a + 1, m - 1)
           q == SubSeq(t, a + 1, m)
<1>1. Len(t) \in Nat /\ m \in 1..Len(t) /\ a + 1 \in Int /\ m - 1 \in Int /\ m \in Int
  OBVIOUS
<1>2. \A k \in 1..Len(t) : t[k] \in S
  OBVIOUS
<1>3. p \in Seq(S) /\ Len(p) = m - 1 - a /\ \A k \in 1..(m - 1 - a) : p[k] = t[a + k]
  <2>1. \A k \in a + 1..m - 1 : t[k] \in S
    BY <1>1, <1>2
  <2>2. /\ p \in Seq(S) /\ Len(p) = IF a + 1 <= m - 1 THEN m - 1 - (a + 1) + 1 ELSE 0
        /\ \A k \in 1..(m - 1 - (a + 1) + 1) : p[k] = t[a + 1 + k - 1]
    BY <1>1, <2>1, SubSeqProperties
  <2> HIDE DEF p
  <2> QED
    BY <1>1, <2>2
<1>4. q \in Seq(S) /\ Len(q) = m - a /\ \A k \in 1..(m - a) : q[k] = t[a + k]
  <2>1. \A k \in a + 1..m : t[k] \in S
    BY <1>1, <1>2
  <2>2. /\ q \in Seq(S) /\ Len(q) = IF a + 1 <= m THEN m - (a + 1) + 1 ELSE 0
        /\ \A k \in 1..(m - (a + 1) + 1) : q[k] = t[a + 1 + k - 1]
    BY <1>1, <2>1, SubSeqProperties
  <2> HIDE DEF q
  <2> QED
    BY <1>1, <2>2
<1> HIDE DEF p, q
<1>5. /\ Append(p, t[m]) \in Seq(S) /\ Len(Append(p, t[m])) = m - a
      /\ \A k \in 1..(m - 1 - a) : Append(p, t[m])[k] = p[k]
      /\ Append(p, t[m])[m - a] = t[m]
  BY <1>1, <1>2, <1>3
<1>6. \A k \in 1..(m - a) : k \in 1..(m - 1 - a) \/ k = m - a
  BY <1>1
<1>7. \A k \in 1..(m - a) : Append(p, t[m])[k] = q[k]
  BY <1>1, <1>3, <1>4, <1>5, <1>6
<1>8. Append(p, t[m]) = q
  BY <1>4, <1>5, <1>7, SeqEqual
<1> QED
  BY <1>8 DEF p, q

\* The letters of a name.
LEMMA ReadName ==
  ASSUME NEW t \in Seq(Chars), NEW a \in Nat, NEW b \in Nat, a <= b, b <= Len(t),
         ReadTo(t)[a] \in ReadState, ReadTo(t)[a].in \in {"open", "close"},
         ReadTo(t)[a].name = <<>>, \A k \in a + 1..b : t[k] \in Letters
  PROVE  ReadTo(t)[b] = Named(ReadTo(t)[a], SubSeq(t, a + 1, b))
<1> DEFINE x == ReadTo(t)[a]
           After(k) == Named(x, SubSeq(t, a + 1, k))
           Apart == {k \in Nat : k \in a..b /\ ReadTo(t)[k] # After(k)}
<1>0. /\ a \in Nat /\ b \in Nat /\ a <= b /\ b <= Len(t) /\ Len(t) \in Nat
      /\ x \in ReadState /\ x.in \in {"open", "close"} /\ x.name = <<>>
  BY LenNat
<1> SUFFICES ASSUME ReadTo(t)[b] # After(b) PROVE FALSE
  OBVIOUS
<1>1. PICK m \in Apart : \A k \in Apart : m <= k
  <2> HIDE DEF After
  <2>1. b \in Apart
    BY <1>0
  <2> QED
    BY <2>1, LeastExists
<1>2. m # a
  <2>1. SubSeq(t, a + 1, a) = <<>>
    BY <1>0, SubSeqEmpty
  <2>2. After(a) = x
    BY <1>0, <2>1 DEF ReadState, Named
  <2> QED
    BY <1>1, <2>2
<1> HIDE DEF After, x
<1>3. /\ m - 1 \in Nat /\ m - 1 \notin Apart /\ m - 1 \in a..b /\ m \in 1..Len(t)
      /\ m \in a + 1..b /\ m \in a + 1..Len(t)
  BY <1>0, <1>1, <1>2
<1>4. ReadTo(t)[m - 1] = After(m - 1)
  BY <1>3
<1>5. ReadTo(t)[m] = Reads(After(m - 1), t[m])
  BY <1>0, <1>3, <1>4, ReadToRuns
<1>6. Append(SubSeq(t, a + 1, m - 1), t[m]) = SubSeq(t, a + 1, m)
  BY <1>0, <1>3, SubSeqGrows
<1>7. SubSeq(t, a + 1, m - 1) \in Seq(Chars) /\ t[m] \in Letters
  BY <1>0, <1>3
<1>8. /\ After(m - 1) \in ReadState /\ After(m - 1).in \in {"open", "close"}
      /\ After(m - 1).name = SubSeq(t, a + 1, m - 1)
  BY <1>0, <1>7, NamedFacts DEF After
<1>9. Reads(After(m - 1), t[m]) = Named(After(m - 1), SubSeq(t, a + 1, m))
  BY <1>6, <1>7, <1>8, ReadsLetter
<1>10. Reads(After(m - 1), t[m]) = After(m)
  BY <1>0, <1>9, NamedTwice DEF After
<1> QED
  BY <1>1, <1>5, <1>10

(***************************************************************************)
(* What holds of a text in a buffer of n characters, whether its last tag  *)
(* is still opened, with the room kept, the names of the open tags and the *)
(* stack: it reads as those names, the stack says where they are, each     *)
(* followed by no letter, and the room is what their closing will take.    *)
(***************************************************************************)
Name == Seq(Letters) \ {<<>>}

Cost(names, k) == IF k <= Len(names) THEN Len(names[k]) + 3 ELSE 0
Reserve(names) == Cost(names, 1) + Cost(names, 2) + Cost(names, 3) + Cost(names, 4)

Shows(t, names, opened) ==
  /\ Read(t) \in ReadState
  /\ opened => /\ names # <<>>
               /\ \/ Read(t).in = "open" /\ Append(Read(t).open, Read(t).name) = names
                  \/ Read(t).in = "attributes" /\ Read(t).open = names
  /\ ~opened => Read(t).in = "text" /\ Read(t).open = names

PlacedAt(t, name, p) ==
  /\ p \in Nat \ {0} /\ p + Len(name) <= Len(t) + 1
  /\ \A j \in 1..Len(name) : t[p + j - 1] = name[j]
  /\ p + Len(name) <= Len(t) => t[p + Len(name)] \notin Letters
  /\ p + Len(name) = Len(t) + 1 => Read(t).in = "open"

Good(n, t, opened, space, names, stack) ==
  /\ n \in Nat /\ t \in Seq(Chars) /\ names \in Seq(Name) /\ Len(names) <= StackSize
  /\ space = Reserve(names) + (IF opened THEN 1 ELSE 0)
  /\ Len(t) + space <= n
  /\ Shows(t, names, opened)
  /\ \A k \in 1..Len(names) : PlacedAt(t, names[k], stack[k])

Extends(u, t) == Len(t) <= Len(u) /\ \A k \in 1..Len(t) : u[k] = t[k]

LEMMA PlacedGrows ==
  ASSUME NEW t \in Seq(Chars), NEW u \in Seq(Chars), Extends(u, t), Len(t) < Len(u),
         Read(t).in = "open" => u[Len(t) + 1] \notin Letters,
         NEW name \in Name, NEW p, PlacedAt(t, name, p)
  PROVE  PlacedAt(u, name, p)
<1>1. Len(t) \in Nat /\ Len(u) \in Nat /\ Len(name) \in Nat /\ p \in Nat \ {0} /\ Len(name) # 0
  BY DEF PlacedAt, Name
<1>2. p + Len(name) <= Len(t) + 1 /\ p + Len(name) < Len(u) + 1
  BY <1>1 DEF PlacedAt
<1>3. \A j \in 1..Len(name) : p + j - 1 \in 1..Len(t)
  BY <1>1, <1>2
<1>4. \A j \in 1..Len(name) : u[p + j - 1] = name[j]
  BY <1>3 DEF PlacedAt, Extends
<1>5. u[p + Len(name)] \notin Letters
  <2>1. CASE p + Len(name) <= Len(t)
    BY <1>1, <2>1 DEF PlacedAt, Extends
  <2>2. CASE p + Len(name) = Len(t) + 1
    BY <2>2 DEF PlacedAt
  <2> QED
    BY <1>1, <1>2, <2>1, <2>2
<1> QED
  BY <1>1, <1>2, <1>4, <1>5 DEF PlacedAt

LEMMA CostFacts ==
  ASSUME NEW names \in Seq(Name), NEW k \in Nat \ {0}
  PROVE  Cost(names, k) \in Nat
<1>1. CASE k <= Len(names)
  <2>1. names[k] \in Name
    BY <1>1
  <2> QED
    BY <1>1, <2>1 DEF Cost, Name
<1>2. CASE ~(k <= Len(names))
  BY <1>2 DEF Cost
<1> QED
  BY <1>1, <1>2

LEMMA ReserveFacts ==
  ASSUME NEW names \in Seq(Name)
  PROVE  Reserve(names) \in Nat
<1>1. \A k \in {1, 2, 3, 4} : Cost(names, k) \in Nat
  BY CostFacts
<1> QED
  BY <1>1 DEF Reserve

\* One name more is kept room for, or one less.
LEMMA ReserveAppend ==
  ASSUME NEW names \in Seq(Name), NEW name \in Name, Len(names) < 4
  PROVE  Reserve(Append(names, name)) = Reserve(names) + Len(name) + 3
<1> DEFINE m == Append(names, name)
<1>1. /\ m \in Seq(Name) /\ Len(m) = Len(names) + 1 /\ m[Len(names) + 1] = name
      /\ \A k \in 1..Len(names) : m[k] = names[k]
  OBVIOUS
<1>2. Len(names) \in 0..3 /\ Len(name) \in Nat
  <2>1. Len(names) \in Nat
    OBVIOUS
  <2>2. Len(name) \in Nat
    BY DEF Name
  <2>3. Len(names) < 4
    OBVIOUS
  <2>4. \A n \in Nat : n < 4 => n \in 0..3
    OBVIOUS
  <2> QED
    BY ONLY <2>1, <2>2, <2>3, <2>4
<1>3. \A k \in {1, 2, 3, 4} : Cost(names, k) \in Nat
  BY CostFacts
<1>4. \A k \in {1, 2, 3, 4} :
        Cost(m, k) = IF k = Len(names) + 1 THEN Len(name) + 3 ELSE Cost(names, k)
  <2> TAKE k \in {1, 2, 3, 4}
  <2>1. CASE k <= Len(names)
    BY <1>1, <1>2, <2>1 DEF Cost
  <2>2. CASE k = Len(names) + 1
    BY <1>1, <1>2, <2>2 DEF Cost
  <2>3. CASE k > Len(names) + 1
    BY <1>1, <1>2, <2>3 DEF Cost
  <2> QED
    BY <1>2, <2>1, <2>2, <2>3
<1>5. \A k \in {1, 2, 3, 4} : Len(names) + 1 # k => Cost(m, k) = Cost(names, k)
  BY <1>4
<1>6. Cost(names, Len(names) + 1) = 0 /\ Cost(m, Len(names) + 1) = Len(name) + 3
  BY <1>2, <1>4 DEF Cost
<1> HIDE DEF m
<1>7. Reserve(m) = Reserve(names) + Len(name) + 3
  <2>1. /\ Cost(names, 1) \in Nat /\ Cost(names, 2) \in Nat
        /\ Cost(names, 3) \in Nat /\ Cost(names, 4) \in Nat
    BY <1>3
  <2>2. CASE Len(names) + 1 = 1
    <3>1. Cost(m, 2) = Cost(names, 2) /\ Cost(m, 3) = Cost(names, 3) /\ Cost(m, 4) = Cost(names, 4)
      BY <1>5, <2>2
    <3>2. Cost(names, 1) = 0 /\ Cost(m, 1) = Len(name) + 3 /\ Len(name) \in Nat
      BY <1>2, <1>6, <2>2
    <3>3. Reserve(m) = Cost(m, 1) + Cost(m, 2) + Cost(m, 3) + Cost(m, 4)
      BY DEF Reserve
    <3>4. Reserve(names) = Cost(names, 1) + Cost(names, 2) + Cost(names, 3) + Cost(names, 4)
      BY DEF Reserve
    <3> QED
      <4>1. Reserve(m) = (Len(name) + 3) + Cost(names, 2) + Cost(names, 3) + Cost(names, 4)
        BY ONLY <3>1, <3>2, <3>3, Zenon
      <4>2. Reserve(names) = 0 + Cost(names, 2) + Cost(names, 3) + Cost(names, 4)
        BY ONLY <3>2, <3>4, Zenon
      <4> QED
        BY ONLY <2>1, <3>2, <4>1, <4>2, SMTT(30)
  <2>3. CASE Len(names) + 1 = 2
    <3>1. Cost(m, 1) = Cost(names, 1) /\ Cost(m, 3) = Cost(names, 3) /\ Cost(m, 4) = Cost(names, 4)
      BY <1>5, <2>3
    <3>2. Cost(names, 2) = 0 /\ Cost(m, 2) = Len(name) + 3 /\ Len(name) \in Nat
      BY <1>2, <1>6, <2>3
    <3>3. Reserve(m) = Cost(m, 1) + Cost(m, 2) + Cost(m, 3) + Cost(m, 4)
      BY DEF Reserve
    <3>4. Reserve(names) = Cost(names, 1) + Cost(names, 2) + Cost(names, 3) + Cost(names, 4)
      BY DEF Reserve
    <3> QED
      <4>1. Reserve(m) = Cost(names, 1) + (Len(name) + 3) + Cost(names, 3) + Cost(names, 4)
        BY ONLY <3>1, <3>2, <3>3, Zenon
      <4>2. Reserve(names) = Cost(names, 1) + 0 + Cost(names, 3) + Cost(names, 4)
        BY ONLY <3>2, <3>4, Zenon
      <4> QED
        BY ONLY <2>1, <3>2, <4>1, <4>2, SMTT(30)
  <2>4. CASE Len(names) + 1 = 3
    <3>1. Cost(m, 1) = Cost(names, 1) /\ Cost(m, 2) = Cost(names, 2) /\ Cost(m, 4) = Cost(names, 4)
      BY <1>5, <2>4
    <3>2. Cost(names, 3) = 0 /\ Cost(m, 3) = Len(name) + 3 /\ Len(name) \in Nat
      BY <1>2, <1>6, <2>4
    <3>3. Reserve(m) = Cost(m, 1) + Cost(m, 2) + Cost(m, 3) + Cost(m, 4)
      BY DEF Reserve
    <3>4. Reserve(names) = Cost(names, 1) + Cost(names, 2) + Cost(names, 3) + Cost(names, 4)
      BY DEF Reserve
    <3> QED
      <4>1. Reserve(m) = Cost(names, 1) + Cost(names, 2) + (Len(name) + 3) + Cost(names, 4)
        BY ONLY <3>1, <3>2, <3>3, Zenon
      <4>2. Reserve(names) = Cost(names, 1) + Cost(names, 2) + 0 + Cost(names, 4)
        BY ONLY <3>2, <3>4, Zenon
      <4> QED
        BY ONLY <2>1, <3>2, <4>1, <4>2, SMTT(30)
  <2>5. CASE Len(names) + 1 = 4
    <3>1. Cost(m, 1) = Cost(names, 1) /\ Cost(m, 2) = Cost(names, 2) /\ Cost(m, 3) = Cost(names, 3)
      BY <1>5, <2>5
    <3>2. Cost(names, 4) = 0 /\ Cost(m, 4) = Len(name) + 3 /\ Len(name) \in Nat
      BY <1>2, <1>6, <2>5
    <3>3. Reserve(m) = Cost(m, 1) + Cost(m, 2) + Cost(m, 3) + Cost(m, 4)
      BY DEF Reserve
    <3>4. Reserve(names) = Cost(names, 1) + Cost(names, 2) + Cost(names, 3) + Cost(names, 4)
      BY DEF Reserve
    <3> QED
      <4>1. Reserve(m) = Cost(names, 1) + Cost(names, 2) + Cost(names, 3) + (Len(name) + 3)
        BY ONLY <3>1, <3>2, <3>3, Zenon
      <4>2. Reserve(names) = Cost(names, 1) + Cost(names, 2) + Cost(names, 3) + 0
        BY ONLY <3>2, <3>4, Zenon
      <4> QED
        BY ONLY <2>1, <3>2, <4>1, <4>2, SMTT(30)
  <2> QED
    BY <1>2, <2>2, <2>3, <2>4, <2>5
<1> QED
  BY <1>7 DEF m

LEMMA FrontFacts ==
  ASSUME NEW S, NEW s \in Seq(S), s # <<>>
  PROVE  /\ Front(s) \in Seq(S) /\ Len(Front(s)) = Len(s) - 1 /\ Last(s) = s[Len(s)]
         /\ \A k \in 1..(Len(s) - 1) : Front(s)[k] = s[k]
         /\ Append(Front(s), Last(s)) = s
<1>1. Len(s) \in Nat /\ Len(s) # 0 /\ 1 \in Int /\ Len(s) - 1 \in Int
  OBVIOUS
<1>2. \A k \in 1..Len(s) - 1 : s[k] \in S
  OBVIOUS
<1>3. Last(s) = s[Len(s)] /\ s[Len(s)] \in S
  BY <1>1 DEF Last
<1>4. Front(s) = SubSeq(s, 1, Len(s) - 1)
  BY DEF Front
<1>5. /\ SubSeq(s, 1, Len(s) - 1) \in Seq(S)
      /\ Len(SubSeq(s, 1, Len(s) - 1)) = IF 1 <= Len(s) - 1 THEN Len(s) - 1 - 1 + 1 ELSE 0
      /\ \A k \in 1..(Len(s) - 1 - 1 + 1) : SubSeq(s, 1, Len(s) - 1)[k] = s[1 + k - 1]
  BY <1>1, <1>2, SubSeqProperties
<1>6. /\ Front(s) \in Seq(S) /\ Len(Front(s)) = Len(s) - 1
      /\ \A k \in 1..(Len(s) - 1) : Front(s)[k] = s[k]
  <2> DEFINE q == SubSeq(s, 1, Len(s) - 1)
  <2>1. /\ q \in Seq(S) /\ Len(q) = IF 1 <= Len(s) - 1 THEN Len(s) - 1 - 1 + 1 ELSE 0
        /\ \A k \in 1..(Len(s) - 1 - 1 + 1) : q[k] = s[1 + k - 1]
    BY <1>5
  <2>2. Front(s) = q
    BY <1>4
  <2> HIDE DEF q
  <2>3. Len(q) = Len(s) - 1 /\ \A k \in 1..(Len(s) - 1) : q[k] = s[k]
    <3>1. Len(s) - 1 - 1 + 1 = Len(s) - 1 /\ \A k \in 1..(Len(s) - 1) : 1 + k - 1 = k
      BY <1>1
    <3>2. Len(q) = Len(s) - 1
      <4>1. Len(q) = IF 1 <= Len(s) - 1 THEN Len(s) - 1 - 1 + 1 ELSE 0
        BY <2>1
      <4>2. \A l \in Nat : l # 0 => (IF 1 <= l - 1 THEN l - 1 - 1 + 1 ELSE 0) = l - 1
        OBVIOUS
      <4>3. Len(s) \in Nat /\ Len(s) # 0
        BY <1>1
      <4> QED
        BY ONLY <4>1, <4>2, <4>3
    <3>3. ASSUME NEW k \in 1..(Len(s) - 1)
          PROVE  q[k] = s[k]
      BY <2>1, <3>1
    <3> QED
      BY <3>2, <3>3
  <2> QED
    BY <2>1, <2>2, <2>3
<1>7. Append(Front(s), Last(s)) = s
  <2> DEFINE f == Front(s)
             l == Last(s)
  <2>1. f \in Seq(S) /\ l \in S /\ Len(f) = Len(s) - 1 /\ l = s[Len(s)]
        /\ \A k \in 1..(Len(s) - 1) : f[k] = s[k]
    BY <1>3, <1>6
  <2> HIDE DEF f, l
  <2>2. Append(f, l) \in Seq(S) /\ Len(Append(f, l)) = Len(s)
    BY <1>1, <2>1
  <2>3. \A k \in 1..Len(s) : Append(f, l)[k] = s[k]
    <3> TAKE k \in 1..Len(s)
    <3>1. CASE k = Len(s)
      BY <1>1, <2>1, <3>1
    <3>2. CASE k # Len(s)
      BY <1>1, <2>1, <3>2
    <3> QED
      BY <3>1, <3>2
  <2>4. Append(f, l) = s
    BY <2>2, <2>3, SeqEqual
  <2> QED
    BY <2>4 DEF f, l
<1> QED
  BY <1>3, <1>6, <1>7

LEMMA ReserveFront ==
  ASSUME NEW names \in Seq(Name), names # <<>>, Len(names) <= 4
  PROVE  Reserve(names) = Reserve(Front(names)) + Len(Last(names)) + 3
<1>1. /\ Front(names) \in Seq(Name) /\ Len(Front(names)) = Len(names) - 1
      /\ Last(names) = names[Len(names)] /\ Append(Front(names), Last(names)) = names
  BY FrontFacts
<1>2. Len(names) \in Nat /\ Len(names) # 0 /\ names[Len(names)] \in Name
  OBVIOUS
<1>3. Last(names) \in Name /\ Len(Front(names)) < 4
  BY <1>1, <1>2
<1> QED
  BY <1>1, <1>3, ReserveAppend

LEMMA ConcatFacts ==
  ASSUME NEW S, NEW t \in Seq(S), NEW s \in Seq(S)
  PROVE  /\ t \o s \in Seq(S) /\ Len(t \o s) = Len(t) + Len(s) /\ Extends(t \o s, t)
         /\ \A k \in 1..Len(s) : (t \o s)[Len(t) + k] = s[k]
<1>1. t \o s \in Seq(S) /\ Len(t \o s) = Len(t) + Len(s) /\ Len(t) \in Nat /\ Len(s) \in Nat
  OBVIOUS
<1>2. \A k \in 1..Len(t) : (t \o s)[k] = t[k]
  OBVIOUS
<1>3. \A k \in 1..Len(s) : (t \o s)[Len(t) + k] = s[k]
  OBVIOUS
<1> QED
  BY <1>1, <1>2, <1>3 DEF Extends

LEMMA Between ==
  ASSUME NEW a \in Nat, NEW b \in Nat, a < b
  PROVE  a + 1 \in 0..b /\ a + 1 \in 1..b /\ a + 1 \in a + 1..b /\ a + 1 \in Nat /\ a <= b
OBVIOUS

LEMMA AppendFacts ==
  ASSUME NEW S, NEW t \in Seq(S), NEW c \in S
  PROVE  /\ Append(t, c) \in Seq(S) /\ Len(Append(t, c)) = Len(t) + 1
         /\ Append(t, c)[Len(t) + 1] = c /\ Extends(Append(t, c), t)
BY DEF Extends

LEMMA Shifted ==
  ASSUME NEW l \in Nat, NEW m \in Nat, NEW k \in l + 1..l + m
  PROVE  k - l \in 1..m /\ k = l + (k - l)
OBVIOUS

\* One character more.
LEMMA ReadOneMore ==
  ASSUME NEW t \in Seq(Chars), NEW u \in Seq(Chars), Extends(u, t), Len(t) < Len(u)
  PROVE  /\ Len(t) + 1 \in 1..Len(u)
         /\ ReadTo(u)[Len(t)] = Read(t)
         /\ ReadTo(u)[Len(t) + 1] = Reads(Read(t), u[Len(t) + 1])
<1>1. Len(t) \in Nat /\ Len(u) \in Nat /\ Len(t) + 1 \in 1..Len(u) /\ Len(t) + 1 - 1 = Len(t)
  OBVIOUS
<1>2. ReadTo(u)[Len(t)] = Read(t)
  BY <1>1, ReadAgrees DEF Extends
<1>3. ReadTo(u)[Len(t) + 1] = Reads(ReadTo(u)[Len(t) + 1 - 1], u[Len(t) + 1])
  BY <1>1, ReadToRuns
<1> QED
  BY <1>1, <1>2, <1>3

\* The two ways in which the fields of what is read change here.
LEMMA ReadOpens ==
  ASSUME NEW x \in ReadState, NEW in \in Modes
  PROVE  /\ Opened(x, in) \in ReadState /\ Opened(x, in).in = in
         /\ Opened(x, in).open = Append(x.open, x.name)
<1>1. x.name \in Seq(Chars) /\ x.open \in Seq(Seq(Chars))
  BY DEF ReadState
<1>2. Append(x.open, x.name) \in Seq(Seq(Chars))
  BY <1>1, AppendFacts
<1> QED
  BY <1>2 DEF ReadState, Opened

LEMMA ReadEnters ==
  ASSUME NEW x \in ReadState, NEW in \in Modes, NEW y, y = [x EXCEPT !.in = in]
  PROVE  y \in ReadState /\ y.in = in /\ y.open = x.open /\ y.name = x.name
BY DEF ReadState

\* The end of a start tag, after the name or after attributes.
LEMMA ReadStartTagEnd ==
  ASSUME NEW t \in Seq(Chars), NEW u \in Seq(Chars), Extends(u, t), Len(u) = Len(t) + 1,
         u[Len(t) + 1] = ">", NEW names \in Seq(Name), Shows(t, names, TRUE)
  PROVE  Shows(u, names, FALSE)
<1> DEFINE x == Read(t)
<1>1. Len(t) \in Nat /\ Len(t) < Len(u)
  OBVIOUS
<1>2. Read(u) = Reads(x, ">")
  BY <1>1, ReadOneMore DEF Read
<1>3. x \in ReadState
  BY DEF Shows
<1>4. CASE x.in = "open" /\ Append(x.open, x.name) = names
  <2>1. Read(u) = Opened(x, "text")
    BY <1>2, <1>3, <1>4, ReadsNameEnd
  <2> HIDE DEF x
  <2>2. "text" \in Modes
    BY DEF Modes
  <2>3. Read(u) \in ReadState /\ Read(u).in = "text" /\ Read(u).open = Append(x.open, x.name)
    BY ONLY <1>3, <2>1, <2>2, ReadOpens
  <2> QED
    BY <1>4, <2>3 DEF Shows
<1>5. CASE x.in = "attributes" /\ x.open = names
  <2>1. Read(u) = [x EXCEPT !.in = "text"]
    BY <1>2, <1>3, <1>5, ReadsAttributes
  <2> HIDE DEF x
  <2>2. Read(u) \in ReadState /\ Read(u).in = "text" /\ Read(u).open = names
    BY <1>3, <1>5, <2>1, ReadEnters DEF Modes
  <2> QED
    BY <2>2 DEF Shows
<1> QED
  BY <1>4, <1>5 DEF Shows

LEMMA EndStart ==
  ASSUME NEW n, NEW t, NEW space, NEW names, NEW stack, Good(n, t, TRUE, space, names, stack)
  PROVE  Good(n, Append(t, ">"), FALSE, space - 1, names, stack) /\ Len(t) < n /\ space - 1 \in Nat
<1> DEFINE u == Append(t, ">")
<1>1. /\ n \in Nat /\ t \in Seq(Chars) /\ names \in Seq(Name) /\ Len(names) <= StackSize
      /\ space = Reserve(names) + 1 /\ Len(t) + space <= n /\ Shows(t, names, TRUE)
      /\ \A k \in 1..Len(names) : PlacedAt(t, names[k], stack[k])
  BY DEF Good
<1>2. Reserve(names) \in Nat /\ Len(t) \in Nat
  BY <1>1, ReserveFacts
<1>3. u \in Seq(Chars) /\ Len(u) = Len(t) + 1 /\ u[Len(t) + 1] = ">" /\ Extends(u, t)
  <2>1. t \in Seq(Chars)
    BY <1>1
  <2>2. ">" \in Chars
    BY LettersAssumption
  <2> QED
    BY ONLY <2>1, <2>2, AppendFacts
<1>4. Extends(u, t)
  BY <1>3
<1> HIDE DEF u
<1>5. Shows(u, names, FALSE)
  BY <1>1, <1>3, <1>4, ReadStartTagEnd
<1>6. \A k \in 1..Len(names) : PlacedAt(u, names[k], stack[k])
  <2>1. ">" \notin Letters
    BY LettersAssumption
  <2>2. Len(t) < Len(u)
    BY ONLY <1>2, <1>3
  <2> QED
    BY <1>1, <1>3, <1>4, <2>1, <2>2, PlacedGrows
<1>7. space - 1 = Reserve(names) + 0 /\ Len(u) + (space - 1) <= n
  BY <1>1, <1>2, <1>3
<1>8. Good(n, u, FALSE, space - 1, names, stack)
  BY <1>1, <1>3, <1>5, <1>6, <1>7 DEF Good
<1>9. Len(t) < n /\ space - 1 \in Nat
  BY <1>1, <1>2
<1> QED
  BY <1>8, <1>9 DEF u

\* Attributes do not end the start tag that they are in.
LEMMA ReadAttributes ==
  ASSUME NEW t \in Seq(Chars), NEW u \in Seq(Chars), Extends(u, t), Len(t) < Len(u),
         NEW names \in Seq(Name), Shows(t, names, TRUE),
         \A k \in Len(t) + 1..Len(u) : u[k] # ">",
         u[Len(t) + 1] = " " \/ Read(t).in = "attributes"
  PROVE  Shows(u, names, TRUE) /\ Read(u).in = "attributes"
<1> DEFINE x == Read(t)
           y == ReadTo(u)[Len(t) + 1]
<1>0. Len(t) \in Nat /\ Len(u) \in Nat
  BY LenNat
<1>1. Len(t) + 1 \in 0..Len(u) /\ Len(t) + 1 \in Nat /\ Len(t) + 1 \in Len(t) + 1..Len(u)
  BY ONLY <1>0, Len(t) < Len(u), Between
<1>2. y = Reads(x, u[Len(t) + 1]) /\ x \in ReadState /\ names # <<>>
  BY ReadOneMore DEF Shows
<1>3. y \in ReadState /\ y.in = "attributes" /\ y.open = names
  <2>1. CASE x.in = "open" /\ Append(x.open, x.name) = names
    <3>1. u[Len(t) + 1] = " "
      BY <2>1
    <3>2. y = Opened(x, "attributes")
      BY <1>2, <2>1, <3>1, ReadsNameEnd
    <3> HIDE DEF x, y
    <3>3. x \in ReadState /\ "attributes" \in Modes
      BY <1>2 DEF Modes
    <3>4. y \in ReadState /\ y.in = "attributes" /\ y.open = Append(x.open, x.name)
      BY ONLY <3>2, <3>3, ReadOpens
    <3> QED
      BY ONLY <2>1, <3>4
  <2>2. CASE x.in = "attributes" /\ x.open = names
    <3>1. u[Len(t) + 1] # ">"
      BY <1>1
    <3>2. y = x
      BY <1>2, <2>2, <3>1, ReadsAttributes
    <3> QED
      BY <1>2, <2>2, <3>2
  <2> QED
    BY <2>1, <2>2 DEF Shows
<1>4. \A k \in (Len(t) + 1) + 1..Len(u) : Reads(y, u[k]) = y
  <2> HIDE DEF y
  <2> TAKE k \in (Len(t) + 1) + 1..Len(u)
  <2>1. k \in Len(t) + 1..Len(u)
    BY ONLY <1>0, k \in (Len(t) + 1) + 1..Len(u)
  <2> QED
    BY <1>3, <2>1, ReadsAttributes
<1>5. Read(u) = y
  <2>1. ReadTo(u)[Len(t) + 1] = y
    OBVIOUS
  <2> HIDE DEF y
  <2> QED
    BY ONLY <1>0, <1>1, <1>4, <2>1, ReadStays
<1> HIDE DEF y
<1> QED
  BY <1>2, <1>3, <1>5 DEF Shows

LEMMA AddInTag ==
  ASSUME NEW n, NEW t, NEW space, NEW names, NEW stack, Good(n, t, TRUE, space, names, stack),
         NEW s \in Seq(Chars), \A k \in 1..Len(s) : s[k] # ">",
         (s[1] = " " /\ s # <<>>) \/ Read(t).in = "attributes",
         Len(t) + Len(s) + space <= n
  PROVE  Good(n, t \o s, TRUE, space, names, stack) /\ Read(t \o s).in = "attributes"
<1>1. /\ n \in Nat /\ t \in Seq(Chars) /\ names \in Seq(Name) /\ Len(names) <= StackSize
      /\ space = Reserve(names) + 1 /\ Shows(t, names, TRUE)
      /\ \A k \in 1..Len(names) : PlacedAt(t, names[k], stack[k])
  BY DEF Good
<1>2. CASE s = <<>>
  <2>1. t \o s = t
    BY <1>1, <1>2
  <2> QED
    BY <1>2, <2>1
<1>3. CASE s # <<>>
  <2> DEFINE u == t \o s
  <2>1. /\ u \in Seq(Chars) /\ Len(u) = Len(t) + Len(s) /\ Extends(u, t)
        /\ \A k \in 1..Len(s) : u[Len(t) + k] = s[k]
    <3>1. t \in Seq(Chars)
      BY <1>1
    <3> QED
      BY ONLY <3>1, s \in Seq(Chars), ConcatFacts
  <2> HIDE DEF u
  <2>2. Len(t) \in Nat /\ Len(s) \in Nat /\ 0 < Len(s) /\ 1 \in 1..Len(s)
    <3>1. t \in Seq(Chars) /\ s \in Seq(Chars) /\ s # <<>>
      BY <1>1, <1>3
    <3>2. Len(t) \in Nat /\ Len(s) \in Nat /\ 0 < Len(s)
      BY ONLY <3>1, LenNat
    <3> QED
      BY ONLY <3>2
  <2>3. Len(t) < Len(u) /\ u[Len(t) + 1] = s[1]
    <3>1. Len(t) < Len(u)
      BY ONLY <2>1, <2>2
    <3> QED
      BY <2>1, <2>2, <3>1
  <2>4. \A k \in Len(t) + 1..Len(u) : u[k] # ">"
    <3> TAKE k \in Len(t) + 1..Len(u)
    <3>1. k \in Len(t) + 1..Len(t) + Len(s)
      BY <2>1
    <3>2. k - Len(t) \in 1..Len(s) /\ k = Len(t) + (k - Len(t))
      BY ONLY <2>2, <3>1, Shifted
    <3> QED
      BY <2>1, <3>2
  <2>5. Shows(u, names, TRUE) /\ Read(u).in = "attributes"
    BY <1>1, <2>1, <2>3, <2>4, ReadAttributes
  <2>6. \A k \in 1..Len(names) : PlacedAt(u, names[k], stack[k])
    <3>1. Read(t).in = "open" => u[Len(t) + 1] \notin Letters
      BY <2>3, LettersAssumption
    <3>2. \A k \in 1..Len(names) : names[k] \in Name /\ PlacedAt(t, names[k], stack[k])
      BY <1>1, LenNat
    <3>3. t \in Seq(Chars) /\ u \in Seq(Chars) /\ Extends(u, t) /\ Len(t) < Len(u)
      BY <1>1, <2>1, <2>3
    <3> QED
      BY ONLY <3>1, <3>2, <3>3, PlacedGrows
  <2>7. Len(u) + space <= n
    BY <2>1
  <2>8. Good(n, u, TRUE, space, names, stack)
    BY <1>1, <2>1, <2>5, <2>6, <2>7 DEF Good
  <2> QED
    BY <2>5, <2>8 DEF u
<1> QED
  BY <1>2, <1>3

LEMMA ReadPlainText ==
  ASSUME NEW t \in Seq(Chars), NEW u \in Seq(Chars), Extends(u, t),
         NEW names \in Seq(Name), Shows(t, names, FALSE),
         \A k \in Len(t) + 1..Len(u) : u[k] # "<"
  PROVE  Shows(u, names, FALSE)
<1> DEFINE x == Read(t)
<1>1. Len(t) \in 0..Len(u) /\ ReadTo(u)[Len(t)] = x
  BY ReadAgrees DEF Extends
<1>2. x \in ReadState /\ x.in = "text" /\ x.open = names
  BY DEF Shows
<1> HIDE DEF x
<1>3. \A k \in Len(t) + 1..Len(u) : Reads(x, u[k]) = x
  BY <1>2, ReadsText
<1>4. Read(u) = x
  <2>1. Len(u) \in Nat
    BY LenNat
  <2> QED
    BY ONLY <1>1, <1>3, <2>1, ReadStays
<1> QED
  BY <1>2, <1>4 DEF Shows

LEMMA AddText ==
  ASSUME NEW n, NEW t, NEW space, NEW names, NEW stack, Good(n, t, FALSE, space, names, stack),
         NEW s \in Seq(Chars), \A k \in 1..Len(s) : s[k] # "<",
         Len(t) + Len(s) + space <= n
  PROVE  Good(n, t \o s, FALSE, space, names, stack)
<1>1. /\ n \in Nat /\ t \in Seq(Chars) /\ names \in Seq(Name) /\ Len(names) <= StackSize
      /\ space = Reserve(names) + 0 /\ Shows(t, names, FALSE)
      /\ \A k \in 1..Len(names) : PlacedAt(t, names[k], stack[k])
  BY DEF Good
<1>2. CASE s = <<>>
  <2>1. t \o s = t
    BY <1>1, <1>2
  <2> QED
    BY <1>2, <2>1
<1>3. CASE s # <<>>
  <2> DEFINE u == t \o s
  <2>1. /\ u \in Seq(Chars) /\ Len(u) = Len(t) + Len(s) /\ Extends(u, t)
        /\ \A k \in 1..Len(s) : u[Len(t) + k] = s[k]
    <3>1. t \in Seq(Chars)
      BY <1>1
    <3> QED
      BY ONLY <3>1, s \in Seq(Chars), ConcatFacts
  <2> HIDE DEF u
  <2>2. Len(t) \in Nat /\ Len(s) \in Nat /\ 0 < Len(s) /\ 1 \in 1..Len(s)
    <3>1. t \in Seq(Chars) /\ s \in Seq(Chars) /\ s # <<>>
      BY <1>1, <1>3
    <3>2. Len(t) \in Nat /\ Len(s) \in Nat /\ 0 < Len(s)
      BY ONLY <3>1, LenNat
    <3> QED
      BY ONLY <3>2
  <2>3. Len(t) < Len(u)
    BY ONLY <2>1, <2>2
  <2>4. \A k \in Len(t) + 1..Len(u) : u[k] # "<"
    <3> TAKE k \in Len(t) + 1..Len(u)
    <3>1. k \in Len(t) + 1..Len(t) + Len(s)
      BY <2>1
    <3>2. k - Len(t) \in 1..Len(s) /\ k = Len(t) + (k - Len(t))
      BY ONLY <2>2, <3>1, Shifted
    <3> QED
      BY <2>1, <3>2
  <2>5. Shows(u, names, FALSE)
    BY <1>1, <2>1, <2>4, ReadPlainText
  <2>6. \A k \in 1..Len(names) : PlacedAt(u, names[k], stack[k])
    <3>1. Read(t).in # "open"
      BY <1>1 DEF Shows
    <3>2. \A k \in 1..Len(names) : names[k] \in Name /\ PlacedAt(t, names[k], stack[k])
      BY <1>1, LenNat
    <3>3. t \in Seq(Chars) /\ u \in Seq(Chars) /\ Extends(u, t) /\ Len(t) < Len(u)
      BY <1>1, <2>1, <2>3
    <3> QED
      BY ONLY <3>1, <3>2, <3>3, PlacedGrows
  <2>7. Len(u) + space <= n
    BY <2>1
  <2>8. Good(n, u, FALSE, space, names, stack)
    BY <1>1, <2>1, <2>5, <2>6, <2>7 DEF Good
  <2> QED
    BY <2>8 DEF u
<1> QED
  BY <1>2, <1>3

LEMMA SubSeqIs ==
  ASSUME NEW S, NEW u \in Seq(S), NEW name \in Seq(S), NEW a \in Nat,
         a + Len(name) <= Len(u), \A j \in 1..Len(name) : u[a + j] = name[j]
  PROVE  SubSeq(u, a + 1, a + Len(name)) = name
<1> DEFINE q == SubSeq(u, a + 1, a + Len(name))
<1>1. Len(u) \in Nat /\ Len(name) \in Nat
  BY LenNat
<1>2. a + 1 \in Int /\ a + Len(name) \in Int /\ \A k \in a + 1..a + Len(name) : k \in 1..Len(u)
  BY <1>1
<1>3. \A k \in a + 1..a + Len(name) : u[k] \in S
  BY <1>2, LenNat
<1>4. /\ q \in Seq(S)
      /\ Len(q) = IF a + 1 <= a + Len(name) THEN (a + Len(name)) - (a + 1) + 1 ELSE 0
      /\ \A k \in 1..((a + Len(name)) - (a + 1) + 1) : q[k] = u[(a + 1) + k - 1]
  BY ONLY <1>2, <1>3, SubSeqProperties
<1> HIDE DEF q
<1>5. (a + Len(name)) - (a + 1) + 1 = Len(name) /\ (~(a + 1 <= a + Len(name)) => Len(name) = 0)
  BY ONLY <1>1, a \in Nat
<1>6. Len(q) = Len(name)
  BY ONLY <1>4, <1>5
<1>7. \A k \in 1..Len(name) : q[k] = name[k]
  <2> TAKE k \in 1..Len(name)
  <2>1. (a + 1) + k - 1 = a + k
    BY ONLY <1>1, a \in Nat, k \in 1..Len(name)
  <2>2. q[k] = u[(a + 1) + k - 1]
    BY ONLY <1>4, <1>5, k \in 1..Len(name)
  <2> QED
    BY <2>1, <2>2
<1>8. q = name
  BY <1>4, <1>6, <1>7, SeqEqual
<1> QED
  BY <1>8 DEF q

\* A state of the reader.
Reading(in, name, open) == [in |-> in, name |-> name, open |-> open]

LEMMA ReadingFacts ==
  ASSUME NEW in \in Modes, NEW name \in Seq(Chars), NEW open \in Seq(Seq(Chars))
  PROVE  /\ Reading(in, name, open) \in ReadState /\ Reading(in, name, open).in = in
         /\ Reading(in, name, open).name = name /\ Reading(in, name, open).open = open
BY DEF Reading, ReadState

LEMMA NameIsText ==
  /\ Name \subseteq Seq(Chars)
  /\ \A name \in Name : Len(name) \in Nat /\ \A j \in 1..Len(name) : name[j] \in Letters
<1>1. ASSUME NEW name \in Name
      PROVE  name \in Seq(Letters)
  BY DEF Name
<1>2. ASSUME NEW name \in Name
      PROVE  name \in Seq(Chars)
  <2>1. Len(name) \in Nat /\ \A j \in 1..Len(name) : name[j] \in Letters
    BY <1>1, LenNat
  <2>2. \A j \in 1..Len(name) : name[j] \in Chars
    BY <2>1, LettersAssumption
  <2>3. name = [j \in 1..Len(name) |-> name[j]]
    BY <1>1
  <2> QED
    BY <2>1, <2>2, <2>3, IsASeq
<1> QED
  BY <1>1, <1>2, LenNat

\* The start of a tag, up to the end of its name.
LEMMA ReadTagName ==
  ASSUME NEW t \in Seq(Chars), NEW u \in Seq(Chars), Extends(u, t), NEW name \in Name,
         Len(t) + 1 + Len(name) <= Len(u), u[Len(t) + 1] = "<",
         \A j \in 1..Len(name) : u[(Len(t) + 1) + j] = name[j],
         NEW names \in Seq(Name), Shows(t, names, FALSE)
  PROVE  ReadTo(u)[Len(t) + 1 + Len(name)] = Reading("open", name, names) /\ names \in Seq(Seq(Chars))
<1> DEFINE x == Read(t)
           l == Len(t)
           m == Len(name)
           y == Reading("open", <<>>, names)
<1>1. l \in Nat /\ m \in Nat /\ Len(u) \in Nat /\ name \in Seq(Chars)
  BY LenNat, NameIsText
<1>2. x \in ReadState /\ x.in = "text" /\ x.open = names
  BY DEF Shows
<1>3. names \in Seq(Seq(Chars)) /\ <<>> \in Seq(Chars) /\ "open" \in Modes
  BY <1>2 DEF ReadState, Modes
<1>4. ReadTo(u)[l + 1] = Reads(x, "<")
  <2>1. l < Len(u)
    BY ONLY <1>1, l + 1 + m <= Len(u)
  <2> QED
    BY <2>1, ReadOneMore
<1> HIDE DEF x
<1>5. Reads(x, "<") = y
  <2>1. Reads(x, "<") = [x EXCEPT !.in = "open", !.name = <<>>]
    BY <1>2, ReadsText
  <2> QED
    BY <1>2, <2>1 DEF ReadState, Reading
<1>6. y \in ReadState /\ y.in = "open" /\ y.name = <<>> /\ y.open = names
  BY <1>3 DEF Reading, ReadState
<1> HIDE DEF y
<1>7. l + 1 \in 0..Len(u) /\ l + 1 + m \in l + 1..Len(u) /\ l + 1 \in Nat
  BY ONLY <1>1, l + 1 + m <= Len(u)
<1>8. \A k \in (l + 1) + 1..l + 1 + m : u[k] \in Letters
  <2> TAKE k \in (l + 1) + 1..l + 1 + m
  <2>1. k - (l + 1) \in 1..m /\ k = (l + 1) + (k - (l + 1))
    BY ONLY <1>1, k \in (l + 1) + 1..l + 1 + m
  <2>2. u[(l + 1) + (k - (l + 1))] = name[k - (l + 1)]
    BY <2>1
  <2> QED
    BY <2>1, <2>2, NameIsText
<1>9. ReadTo(u)[l + 1 + m] = Named(y, SubSeq(u, (l + 1) + 1, l + 1 + m))
  <2>1. ReadTo(u)[l + 1] = y
    BY <1>4, <1>5
  <2>2. l + 1 \in Nat /\ l + 1 + m \in Nat /\ l + 1 <= l + 1 + m /\ l + 1 + m <= Len(u)
    BY ONLY <1>1, l + 1 + m <= Len(u)
  <2>3. ReadTo(u)[l + 1 + m] = Named(ReadTo(u)[l + 1], SubSeq(u, (l + 1) + 1, l + 1 + m))
    BY <1>6, <1>8, <2>1, <2>2, ReadName
  <2> QED
    BY <2>1, <2>3
<1>10. SubSeq(u, (l + 1) + 1, l + 1 + m) = name
  BY <1>1, <1>7, SubSeqIs
<1>11. Named(y, name) = Reading("open", name, names)
  BY <1>6 DEF y, Reading, Named
<1> QED
  BY <1>3, <1>9, <1>10, <1>11

LEMMA OpenTag ==
  ASSUME NEW n, NEW t, NEW space, NEW names, NEW stack \in [1..StackSize -> Nat],
         Good(n, t, FALSE, space, names, stack), Len(names) < StackSize,
         NEW name \in Name, Len(t) + 1 + Len(name) + (space + Len(name) + 4) <= n
  PROVE  Good(n, t \o (<<"<">> \o name), TRUE, space + Len(name) + 4, Append(names, name),
              [stack EXCEPT ![Len(names) + 1] = Len(t) + 2])
<1> DEFINE s == <<"<">> \o name
           u == t \o s
           m == Append(names, name)
           st == [stack EXCEPT ![Len(names) + 1] = Len(t) + 2]
<1>1. /\ n \in Nat /\ t \in Seq(Chars) /\ names \in Seq(Name) /\ Len(names) <= StackSize
      /\ space = Reserve(names) + 0 /\ Shows(t, names, FALSE)
      /\ \A k \in 1..Len(names) : PlacedAt(t, names[k], stack[k])
  BY DEF Good
<1>2. name \in Seq(Chars) /\ Len(name) \in Nat /\ Len(t) \in Nat /\ Len(names) \in 0..3
  <2>1. name \in Seq(Chars) /\ Len(name) \in Nat /\ Len(t) \in Nat /\ Len(names) \in Nat
    BY <1>1, LenNat, NameIsText
  <2>2. \A l \in Nat : l < 4 => l \in 0..3
    OBVIOUS
  <2>3. Len(names) < 4
    BY DEF StackSize
  <2> QED
    BY ONLY <2>1, <2>2, <2>3
<1>3. s \in Seq(Chars) /\ Len(s) = Len(name) + 1 /\ s[1] = "<" /\ \A j \in 1..Len(name) : s[1 + j] = name[j]
  <2>1. "<" \in Chars
    BY LettersAssumption
  <2>2. <<"<">> \in Seq(Chars) /\ Len(<<"<">>) = 1 /\ <<"<">>[1] = "<"
    BY <2>1
  <2> DEFINE p == <<"<">>
  <2> HIDE DEF p
  <2>3. /\ p \o name \in Seq(Chars) /\ Len(p \o name) = Len(p) + Len(name) /\ Extends(p \o name, p)
        /\ \A k \in 1..Len(name) : (p \o name)[Len(p) + k] = name[k]
    <3>1. p \in Seq(Chars) /\ name \in Seq(Chars)
      BY <1>2, <2>2 DEF p
    <3> QED
      BY ONLY <3>1, ConcatFacts
  <2> QED
    BY <1>2, <2>2, <2>3 DEF p, Extends
<1> HIDE DEF s
<1>4. /\ u \in Seq(Chars) /\ Len(u) = Len(t) + Len(s) /\ Extends(u, t)
      /\ \A k \in 1..Len(s) : u[Len(t) + k] = s[k]
  <2>1. t \in Seq(Chars) /\ s \in Seq(Chars)
    BY <1>1, <1>3
  <2> QED
    BY ONLY <2>1, ConcatFacts
<1> HIDE DEF u
<1>5. Len(u) = Len(t) + 1 + Len(name) /\ u[Len(t) + 1] = "<"
  BY <1>2, <1>3, <1>4
<1>6. \A j \in 1..Len(name) : u[(Len(t) + 1) + j] = name[j]
  <2> TAKE j \in 1..Len(name)
  <2>1. (Len(t) + 1) + j = Len(t) + (1 + j) /\ 1 + j \in 1..Len(s)
    BY ONLY <1>2, <1>3, j \in 1..Len(name)
  <2> QED
    BY <1>3, <1>4, <2>1
<1>7. Read(u) = Reading("open", name, names) /\ names \in Seq(Seq(Chars))
  <2>1. /\ ReadTo(u)[Len(t) + 1 + Len(name)] = Reading("open", name, names)
        /\ names \in Seq(Seq(Chars))
    <3>1. t \in Seq(Chars) /\ u \in Seq(Chars) /\ Extends(u, t) /\ names \in Seq(Name)
      BY <1>1, <1>4
    <3>2. Len(t) + 1 + Len(name) <= Len(u)
      BY ONLY <1>2, <1>5
    <3>3. Shows(t, names, FALSE)
      BY <1>1
    <3> QED
      BY ONLY <1>5, <1>6, <3>1, <3>2, <3>3, name \in Name, ReadTagName
  <2> QED
    BY <1>5, <2>1 DEF Read
<1>8. /\ Read(u) \in ReadState /\ Read(u).in = "open"
      /\ Read(u).name = name /\ Read(u).open = names
  BY <1>2, <1>7, ReadingFacts DEF Modes
<1>9. /\ m \in Seq(Name) /\ Len(m) = Len(names) + 1 /\ m[Len(names) + 1] = name
      /\ m # <<>> /\ \A k \in 1..Len(names) : m[k] = names[k]
  <2>1. names \in Seq(Name) /\ name \in Name
    BY <1>1
  <2>2. m \in Seq(Name) /\ Len(m) = Len(names) + 1 /\ m[Len(names) + 1] = name /\ Extends(m, names)
    BY ONLY <2>1, AppendFacts
  <2>3. m # <<>>
    BY ONLY <2>1
  <2> QED
    BY ONLY <2>2, <2>3 DEF Extends
<1>10. Shows(u, m, TRUE)
  <2>1. Append(Read(u).open, Read(u).name) = m
    BY <1>8
  <2> HIDE DEF m
  <2> QED
    BY <1>8, <1>9, <2>1 DEF Shows
<1>11. Reserve(m) = Reserve(names) + Len(name) + 3
  BY <1>1, ReserveAppend DEF StackSize
<1> HIDE DEF m
<1>12. st[Len(names) + 1] = Len(t) + 2 /\ \A k \in 1..Len(names) : st[k] = stack[k]
  <2>1. /\ Len(names) + 1 \in 1..StackSize
        /\ \A k \in 1..Len(names) : k \in 1..StackSize /\ k # Len(names) + 1
    <3>1. \A l \in 0..3 : l + 1 \in 1..4 /\ \A k \in 1..l : k \in 1..4 /\ k # l + 1
      OBVIOUS
    <3> QED
      BY <1>2, <3>1 DEF StackSize
  <2> QED
    BY <2>1
<1> HIDE DEF st
<1>13. PlacedAt(u, name, Len(t) + 2)
  <2>1. \A j \in 1..Len(name) : u[(Len(t) + 2) + j - 1] = name[j]
    <3> TAKE j \in 1..Len(name)
    <3>1. (Len(t) + 2) + j - 1 = (Len(t) + 1) + j
      BY ONLY <1>2, j \in 1..Len(name)
    <3> QED
      BY <1>6, <3>1
  <2>2. Len(t) + 2 \in Nat \ {0} /\ Len(t) + 2 + Len(name) = Len(u) + 1
    BY ONLY <1>2, <1>5
  <2>3. ~(Len(t) + 2 + Len(name) <= Len(u))
    BY ONLY <1>2, <1>5
  <2> QED
    BY <1>2, <1>5, <1>8, <2>1, <2>2, <2>3 DEF PlacedAt
<1>14. \A k \in 1..Len(m) : PlacedAt(u, m[k], st[k])
  <2> TAKE k \in 1..Len(m)
  <2>1. CASE k = Len(names) + 1
    BY <1>9, <1>12, <1>13, <2>1
  <2>2. CASE k \in 1..Len(names)
    <3>1. names[k] \in Name /\ PlacedAt(t, names[k], stack[k])
      BY <1>1, <2>2, LenNat
    <3>2. Len(t) < Len(u)
      BY ONLY <1>2, <1>5
    <3>3. Read(t).in # "open"
      BY <1>1 DEF Shows
    <3>4. PlacedAt(u, names[k], stack[k])
      BY <1>1, <1>4, <3>1, <3>2, <3>3, PlacedGrows
    <3> QED
      BY <1>9, <1>12, <2>2, <3>4
  <2> QED
    BY <1>2, <1>9, <2>1, <2>2
<1>15. space + Len(name) + 4 = Reserve(m) + 1 /\ Len(u) + (space + Len(name) + 4) <= n
  <2>1. Reserve(names) \in Nat
    BY <1>1, ReserveFacts
  <2>2. n \in Nat /\ space = Reserve(names) + 0
    BY <1>1
  <2> QED
    BY ONLY <1>2, <1>5, <1>11, <2>1, <2>2, Len(t) + 1 + Len(name) + (space + Len(name) + 4) <= n
<1>16. Len(m) <= StackSize
  <2>1. Len(m) = Len(names) + 1 /\ Len(names) \in 0..3
    BY <1>2, <1>9
  <2>2. \A l \in 0..3 : l + 1 <= 4
    OBVIOUS
  <2> QED
    BY ONLY <2>1, <2>2 DEF StackSize
<1>17. Good(n, u, TRUE, space + Len(name) + 4, m, st)
  BY <1>1, <1>4, <1>9, <1>10, <1>14, <1>15, <1>16 DEF Good
<1> QED
  BY <1>17 DEF u, s, m, st

\* An end tag, which has the name of the innermost open tag.
LEMMA ReadEnds ==
  ASSUME NEW t \in Seq(Chars), NEW u \in Seq(Chars), Extends(u, t), NEW name \in Name,
         Len(u) = Len(t) + 3 + Len(name), u[Len(t) + 1] = "<", u[Len(t) + 2] = "/",
         \A j \in 1..Len(name) : u[(Len(t) + 2) + j] = name[j], u[Len(t) + 3 + Len(name)] = ">",
         NEW names \in Seq(Name), names # <<>>, Last(names) = name, Shows(t, names, FALSE)
  PROVE  Shows(u, Front(names), FALSE)
<1> DEFINE x == Read(t)
           l == Len(t)
           m == Len(name)
           y == Reading("open", <<>>, names)
           z == Reading("close", <<>>, names)
<1>1. l \in Nat /\ m \in Nat /\ Len(u) \in Nat /\ name \in Seq(Chars)
  BY LenNat, NameIsText
<1>2. x \in ReadState /\ x.in = "text" /\ x.open = names
  BY DEF Shows
<1>3. names \in Seq(Seq(Chars)) /\ <<>> \in Seq(Chars)
  BY <1>2 DEF ReadState
<1>4. ReadTo(u)[l + 1] = Reads(x, "<")
  <2>1. l < Len(u)
    BY ONLY <1>1, Len(u) = l + 3 + m
  <2> QED
    BY <2>1, ReadOneMore
<1> HIDE DEF x
<1>5. Reads(x, "<") = y
  <2>1. Reads(x, "<") = [x EXCEPT !.in = "open", !.name = <<>>]
    BY <1>2, ReadsText
  <2> QED
    BY <1>2, <2>1 DEF ReadState, Reading
<1>6. y \in ReadState /\ y.in = "open" /\ y.name = <<>> /\ y.open = names
  BY <1>3 DEF Reading, ReadState, Modes
<1>7. Reads(y, "/") = z
  <2>1. Reads(y, "/") = [y EXCEPT !.in = "close"]
    <3> HIDE DEF y
    <3> QED
      BY <1>6, ReadsSlash
  <2> QED
    BY <2>1 DEF Reading
<1>8. z \in ReadState /\ z.in = "close" /\ z.name = <<>> /\ z.open = names
  BY <1>3 DEF Reading, ReadState, Modes
<1>9. Named(z, name) = Reading("close", name, names)
  BY <1>8 DEF Reading, Named
<1> HIDE DEF y, z
<1>10. ReadTo(u)[l + 2] = z
  <2>1. l + 2 \in 1..Len(u) /\ (l + 2) - 1 = l + 1
    BY ONLY <1>1, Len(u) = l + 3 + m
  <2>2. ReadTo(u)[l + 2] = Reads(ReadTo(u)[(l + 2) - 1], u[l + 2])
    BY <1>1, <2>1, ReadToRuns
  <2> QED
    BY <1>4, <1>5, <1>7, <2>1, <2>2
<1>11. \A k \in (l + 2) + 1..l + 2 + m : u[k] \in Letters
  <2> TAKE k \in (l + 2) + 1..l + 2 + m
  <2>1. k - (l + 2) \in 1..m /\ k = (l + 2) + (k - (l + 2))
    BY ONLY <1>1, k \in (l + 2) + 1..l + 2 + m
  <2>2. u[(l + 2) + (k - (l + 2))] = name[k - (l + 2)]
    BY <2>1
  <2> QED
    BY <2>1, <2>2, NameIsText
<1>12. ReadTo(u)[l + 2 + m] = Named(z, SubSeq(u, (l + 2) + 1, l + 2 + m))
  <2>1. l + 2 \in Nat /\ l + 2 + m \in Nat /\ l + 2 <= l + 2 + m /\ l + 2 + m <= Len(u)
    BY ONLY <1>1, Len(u) = l + 3 + m
  <2>2. ReadTo(u)[l + 2 + m] = Named(ReadTo(u)[l + 2], SubSeq(u, (l + 2) + 1, l + 2 + m))
    BY <1>8, <1>10, <1>11, <2>1, ReadName
  <2> QED
    BY <1>10, <2>2
<1>13. SubSeq(u, (l + 2) + 1, l + 2 + m) = name
  <2>1. (l + 2) + m <= Len(u) /\ l + 2 \in Nat
    BY ONLY <1>1, Len(u) = l + 3 + m
  <2> QED
    BY <1>1, <2>1, SubSeqIs
<1>14. Read(u) = Reads(Reading("close", name, names), ">")
  <2>1. l + 3 + m \in 1..Len(u) /\ (l + 3 + m) - 1 = l + 2 + m /\ Len(u) = l + 3 + m
    BY ONLY <1>1, Len(u) = l + 3 + m
  <2>2. ReadTo(u)[l + 3 + m] = Reads(ReadTo(u)[(l + 3 + m) - 1], u[l + 3 + m])
    BY <1>1, <2>1, ReadToRuns
  <2> QED
    BY <1>9, <1>12, <1>13, <2>1, <2>2 DEF Read
<1> DEFINE v == Reading("close", name, names)
<1>15. v \in ReadState /\ v.in = "close" /\ v.name = name /\ v.open = names
  BY <1>1, <1>3 DEF Reading, ReadState, Modes
<1> HIDE DEF v
<1>16. Reads(v, ">") = [v EXCEPT !.in = "text", !.open = Front(@)]
  BY <1>15, ReadsEndTag
<1>17. Front(names) \in Seq(Seq(Chars)) /\ "text" \in Modes
  BY <1>3, FrontFacts DEF Modes
<1>18. /\ Reads(v, ">") \in ReadState /\ Reads(v, ">").in = "text"
       /\ Reads(v, ">").open = Front(names)
  BY <1>15, <1>16, <1>17 DEF ReadState
<1>19. Read(u) = Reads(v, ">")
  BY <1>14 DEF v
<1> QED
  BY <1>18, <1>19 DEF Shows

\* The end tag is given the name of the start tag.
LEMMA NameIsThere ==
  ASSUME NEW t \in Seq(Chars), NEW name \in Name, NEW p, PlacedAt(t, name, p),
         NEW u, u.text = t, NEW k, u.stack[k] = p
  PROVE  NameAt(u, k) = name
<1> DEFINE Past(q) == /\ q \in p..(Len(t) + 1)
                      /\ q > Len(t) \/ t[q] \notin Letters
                      /\ \A r \in p..(q - 1) : t[r] \in Letters
           e == p + Len(name)
<1>1. name \in Seq(Chars) /\ Len(name) \in Nat /\ Len(t) \in Nat /\ p \in Nat /\ p # 0
  BY LenNat, NameIsText DEF PlacedAt
<1>2. e <= Len(t) + 1 /\ (e <= Len(t) => t[e] \notin Letters)
  BY DEF PlacedAt
<1>3. \A r \in p..(e - 1) : t[r] \in Letters
  <2> TAKE r \in p..(e - 1)
  <2>1. r - p + 1 \in 1..Len(name) /\ r = p + (r - p + 1) - 1
    BY ONLY <1>1, r \in p..(e - 1)
  <2>2. t[p + (r - p + 1) - 1] = name[r - p + 1]
    BY <2>1 DEF PlacedAt
  <2> QED
    BY <2>1, <2>2, NameIsText
<1>4. Past(e)
  <2>1. e \in p..(Len(t) + 1)
    BY ONLY <1>1, <1>2
  <2>2. e > Len(t) \/ e <= Len(t)
    BY ONLY <1>1
  <2> QED
    BY <1>2, <1>3, <2>1, <2>2
<1>5. ASSUME NEW q, Past(q)
      PROVE  q = e
  <2>1. q \in Int /\ p <= q /\ q <= Len(t) + 1 /\ e \in Int
    BY ONLY <1>1, Past(q)
  <2>2. CASE q < e
    <3>1. q \in p..(e - 1) /\ ~(q > Len(t))
      BY ONLY <1>1, <1>2, <2>1, <2>2
    <3> QED
      BY <1>3, <1>5, <3>1
  <2>3. CASE q > e
    <3>1. e \in p..(q - 1) /\ e <= Len(t)
      BY ONLY <1>1, <2>1, <2>3
    <3> QED
      BY <1>2, <1>5, <3>1
  <2> QED
    BY ONLY <2>1, <2>2, <2>3
<1> HIDE DEF e
<1>6. (CHOOSE q : Past(q)) = e
  BY <1>4, <1>5
<1>7. NameAt(u, k) = SubSeq(t, p, (CHOOSE q : Past(q)) - 1)
  BY DEF NameAt
<1>8. SubSeq(t, p, e - 1) = name
  <2>1. (p - 1) + 1 = p /\ (p - 1) + Len(name) = e - 1 /\ (p - 1) + Len(name) <= Len(t) /\ p - 1 \in Nat
    BY ONLY <1>1, <1>2 DEF e
  <2>2. \A j \in 1..Len(name) : t[(p - 1) + j] = name[j]
    <3> TAKE j \in 1..Len(name)
    <3>1. (p - 1) + j = p + j - 1
      BY ONLY <1>1, j \in 1..Len(name)
    <3> QED
      BY <3>1 DEF PlacedAt
  <2>3. SubSeq(t, (p - 1) + 1, (p - 1) + Len(name)) = name
    BY <1>1, <2>1, <2>2, SubSeqIs
  <2> QED
    BY <2>1, <2>3
<1> QED
  BY <1>6, <1>7, <1>8

EndTag(t, name) == t \o <<"<", "/">> \o name \o <<">">>

LEMMA EndTagFacts ==
  ASSUME NEW t \in Seq(Chars), NEW name \in Name
  PROVE  LET u == EndTag(t, name) l == Len(t) m == Len(name)
         IN /\ u \in Seq(Chars) /\ Len(u) = l + 3 + m /\ Extends(u, t)
            /\ u[l + 1] = "<" /\ u[l + 2] = "/" /\ u[l + 3 + m] = ">"
            /\ \A j \in 1..m : u[(l + 2) + j] = name[j]
<1> DEFINE l == Len(t)
           m == Len(name)
           s == <<"<", "/">>
           e == <<">">>
           a == t \o s
           b == a \o name
           u == b \o e
<1>1. name \in Seq(Chars) /\ l \in Nat /\ m \in Nat
  BY LenNat, NameIsText
<1>2. {"<", "/", ">"} \subseteq Chars
  BY LettersAssumption
<1>3. s \in Seq(Chars) /\ Len(s) = 2 /\ s[1] = "<" /\ s[2] = "/"
  BY <1>2
<1>4. e \in Seq(Chars) /\ Len(e) = 1 /\ e[1] = ">"
  BY <1>2
<1> HIDE DEF s, e
<1>5. /\ a \in Seq(Chars) /\ Len(a) = l + Len(s) /\ Extends(a, t)
      /\ \A k \in 1..Len(s) : a[l + k] = s[k]
  <2>1. s \in Seq(Chars)
    BY <1>3
  <2> QED
    BY ONLY <2>1, t \in Seq(Chars), ConcatFacts
<1> HIDE DEF a
<1>6. /\ b \in Seq(Chars) /\ Len(b) = Len(a) + m /\ Extends(b, a)
      /\ \A k \in 1..m : b[Len(a) + k] = name[k]
  <2>1. a \in Seq(Chars) /\ name \in Seq(Chars)
    BY <1>1, <1>5
  <2> QED
    BY ONLY <2>1, ConcatFacts
<1> HIDE DEF b
<1>7. /\ u \in Seq(Chars) /\ Len(u) = Len(b) + Len(e) /\ Extends(u, b)
      /\ \A k \in 1..Len(e) : u[Len(b) + k] = e[k]
  <2>1. b \in Seq(Chars) /\ e \in Seq(Chars)
    BY <1>4, <1>6
  <2> QED
    BY ONLY <2>1, ConcatFacts
<1> HIDE DEF u
<1>8. Len(a) = l + 2 /\ Len(b) = l + 2 + m /\ Len(u) = l + 3 + m
  <2>1. Len(a) = l + Len(s) /\ Len(b) = Len(a) + m /\ Len(u) = Len(b) + Len(e) /\ Len(s) = 2 /\ Len(e) = 1
    BY <1>3, <1>4, <1>5, <1>6, <1>7
  <2> QED
    BY ONLY <1>1, <2>1
<1>9. ASSUME NEW k \in 1..Len(a)
      PROVE  u[k] = a[k]
  <2>1. k \in 1..Len(b)
    BY ONLY <1>1, <1>8, <1>9
  <2> QED
    BY <1>6, <1>7, <2>1 DEF Extends
<1>10. Extends(u, t)
  <2>1. \A k \in 1..l : k \in 1..Len(a)
    BY ONLY <1>1, <1>8
  <2>2. \A k \in 1..l : u[k] = t[k]
    BY <1>5, <1>9, <2>1 DEF Extends
  <2>3. l <= Len(u)
    BY ONLY <1>1, <1>8
  <2> QED
    BY <2>2, <2>3 DEF Extends
<1>11. u[l + 1] = "<" /\ u[l + 2] = "/"
  <2>1. l + 1 \in 1..Len(a) /\ l + 2 \in 1..Len(a) /\ 1 \in 1..2 /\ 2 \in 1..2
    BY ONLY <1>1, <1>8
  <2> QED
    BY <1>3, <1>5, <1>9, <2>1
<1>12. u[l + 3 + m] = ">"
  <2>1. Len(b) + 1 = l + 3 + m /\ 1 \in 1..1
    BY ONLY <1>1, <1>8
  <2> QED
    BY <1>4, <1>7, <2>1
<1>13. \A j \in 1..m : u[(l + 2) + j] = name[j]
  <2> TAKE j \in 1..m
  <2>1. (l + 2) + j \in 1..Len(b)
    BY ONLY <1>1, <1>8, j \in 1..m
  <2>2. u[(l + 2) + j] = b[(l + 2) + j]
    BY <1>7, <2>1 DEF Extends
  <2> QED
    BY <1>6, <1>8, <2>2
<1>14. u = EndTag(t, name)
  BY DEF u, b, a, s, e, EndTag
<1> QED
  BY <1>7, <1>8, <1>10, <1>11, <1>12, <1>13, <1>14

LEMMA CloseLast ==
  ASSUME NEW n, NEW t, NEW space, NEW names, NEW stack,
         Good(n, t, FALSE, space, names, stack), names # <<>>
  PROVE  LET name == names[Len(names)]
         IN /\ name \in Name /\ Last(names) = name /\ PlacedAt(t, name, stack[Len(names)])
            /\ Len(t) + 3 + Len(name) <= n /\ space - 3 - Len(name) \in Nat
            /\ Good(n, EndTag(t, name), FALSE, space - 3 - Len(name), Front(names), stack)
<1> DEFINE name == names[Len(names)]
           u == EndTag(t, name)
           f == Front(names)
<1>1. /\ n \in Nat /\ t \in Seq(Chars) /\ names \in Seq(Name) /\ Len(names) <= StackSize
      /\ space = Reserve(names) + 0 /\ Len(t) + space <= n /\ Shows(t, names, FALSE)
      /\ \A k \in 1..Len(names) : PlacedAt(t, names[k], stack[k])
  BY DEF Good
<1>2. Len(names) \in Nat /\ 0 < Len(names) /\ Len(names) \in 1..Len(names)
  <2>1. Len(names) \in Nat /\ 0 < Len(names)
    BY <1>1, LenNat
  <2> QED
    BY ONLY <2>1
<1>3. name \in Name /\ PlacedAt(t, name, stack[Len(names)])
  BY <1>1, <1>2, LenNat
<1>4. /\ f \in Seq(Name) /\ Len(f) = Len(names) - 1 /\ Last(names) = name
      /\ \A k \in 1..(Len(names) - 1) : f[k] = names[k]
  BY <1>1, FrontFacts
<1>5. Reserve(names) = Reserve(f) + Len(name) + 3 /\ Reserve(f) \in Nat
  <2>1. Len(names) <= 4
    BY <1>1 DEF StackSize
  <2>2. Reserve(names) = Reserve(f) + Len(Last(names)) + 3
    BY <1>1, <2>1, ReserveFront
  <2> QED
    BY <1>4, <2>2, ReserveFacts
<1> HIDE DEF name, f
<1>6. Len(t) \in Nat /\ Len(name) \in Nat
  BY <1>1, <1>3, LenNat, NameIsText
<1>7. /\ u \in Seq(Chars) /\ Len(u) = Len(t) + 3 + Len(name) /\ Extends(u, t)
      /\ u[Len(t) + 1] = "<" /\ u[Len(t) + 2] = "/" /\ u[Len(t) + 3 + Len(name)] = ">"
      /\ \A j \in 1..Len(name) : u[(Len(t) + 2) + j] = name[j]
  BY <1>1, <1>3, EndTagFacts
<1> HIDE DEF u
<1>8. Shows(u, f, FALSE)
  <2>1. t \in Seq(Chars) /\ names \in Seq(Name) /\ Shows(t, names, FALSE) /\ Last(names) = name /\ name \in Name
    BY <1>1, <1>3, <1>4
  <2> QED
    BY ONLY <1>7, <2>1, names # <<>>, ReadEnds DEF f
<1>9. \A k \in 1..Len(f) : PlacedAt(u, f[k], stack[k])
  <2> TAKE k \in 1..Len(f)
  <2>1. k \in 1..Len(names) /\ k \in 1..(Len(names) - 1)
    BY <1>2, <1>4
  <2>2. names[k] \in Name /\ PlacedAt(t, names[k], stack[k])
    BY <1>1, <2>1, LenNat
  <2>3. Len(t) < Len(u)
    <3>1. Len(u) = Len(t) + 3 + Len(name)
      BY <1>7
    <3> QED
      BY ONLY <1>6, <3>1
  <2>4. Read(t).in # "open"
    BY <1>1 DEF Shows
  <2>5. PlacedAt(u, names[k], stack[k])
    BY <1>1, <1>7, <2>2, <2>3, <2>4, PlacedGrows
  <2> QED
    BY <1>4, <2>1, <2>5
<1>10. /\ Len(t) + 3 + Len(name) <= n /\ space - 3 - Len(name) = Reserve(f) + 0
       /\ space - 3 - Len(name) \in Nat /\ Len(u) + (space - 3 - Len(name)) <= n
  <2>1. n \in Nat /\ space = Reserve(names) + 0 /\ Len(t) + space <= n /\ Len(u) = Len(t) + 3 + Len(name)
    BY <1>1, <1>7
  <2> QED
    BY ONLY <1>5, <1>6, <2>1
<1>11. Len(f) <= StackSize
  <2>1. Len(names) <= StackSize
    BY <1>1
  <2> QED
    BY ONLY <1>2, <1>4, <2>1 DEF StackSize
<1>12. Good(n, u, FALSE, space - 3 - Len(name), f, stack)
  BY <1>1, <1>4, <1>7, <1>8, <1>9, <1>10, <1>11 DEF Good
<1> QED
  BY <1>3, <1>4, <1>10, <1>12 DEF u, f, name

(***************************************************************************)
(* The inductive invariant of a writer u on n characters.  A point, or the *)
(* writer itself, is sound when its fields are Good; the point to go back  *)
(* to always is, the writer unless its last call failed, and then what     *)
(* matters is that nothing was written past the end.                       *)
(***************************************************************************)
States == {"initial", "halfclosed", "opened"}
Points == [text : Seq(Chars), state : States, depth : 0..StackSize, space : Nat,
           names : Seq(Name)]
Stacks == [1..StackSize -> Nat]
Writers == [text : Seq(Chars), state : States, stack : Stacks, depth : 0..StackSize,
            space : Nat, rollback : Points, ok : BOOLEAN, names : Seq(Name)]

Counted(p) == p.depth = Len(p.names) /\ (p.state = "initial" => p.names = <<>>)

Sound(n, p, stack) ==
  Good(n, p.text, p.state = "opened", p.space, p.names, stack) /\ Counted(p)

Held(u) == \A k \in 1..u.depth : u.stack[k] \in 1..(Len(u.text) + 1)

Recoverable(n, u) ==
  u \in Writers /\ Len(u.text) <= n /\ Held(u) /\ Sound(n, u.rollback, u.stack)

Ready(n, u) ==
  u.ok /\ Sound(n, u, u.stack) /\ Len(u.rollback.names) <= Len(u.names)

Steady(n, u) == Recoverable(n, u) /\ (u.ok => Ready(n, u))

Bare(n, u) ==
  /\ u \in Writers /\ Len(u.text) <= n /\ u.depth = 0 /\ u.space = 0
  /\ u.state = "initial" /\ u.rollback = Empty

IInv ==
  /\ client \in {"tags", "raw"} /\ length \in Lengths[client] /\ length \in Nat
  /\ client = "tags" => \A u \in {w}, n \in {length} : Steady(n, u)
  /\ client = "raw" => \A u \in {w}, n \in {length} : Bare(n, u)

-----------------------------------------------------------------------------
LEMMA WriterFields ==
  ASSUME NEW u \in Writers
  PROVE  /\ u.text \in Seq(Chars) /\ u.state \in States /\ u.stack \in Stacks
         /\ u.depth \in 0..StackSize /\ u.space \in Nat /\ u.rollback \in Points
         /\ u.ok \in BOOLEAN /\ u.names \in Seq(Name) /\ Len(u.text) \in Nat
BY LenNat DEF Writers

LEMMA GoodFits ==
  ASSUME NEW n, NEW t, NEW opened, NEW space, NEW names, NEW stack,
         Good(n, t, opened, space, names, stack), opened \in BOOLEAN
  PROVE  /\ n \in Nat /\ t \in Seq(Chars) /\ names \in Seq(Name) /\ Len(names) \in 0..StackSize
         /\ space \in Nat /\ Len(t) + space <= n /\ Len(t) <= n /\ Len(t) \in Nat
         /\ \A k \in 1..Len(names) : stack[k] \in 1..(Len(t) + 1)
<1>1. /\ n \in Nat /\ t \in Seq(Chars) /\ names \in Seq(Name) /\ Len(names) <= StackSize
      /\ space = Reserve(names) + (IF opened THEN 1 ELSE 0) /\ Len(t) + space <= n
      /\ \A k \in 1..Len(names) : PlacedAt(t, names[k], stack[k])
  BY DEF Good
<1>2. Len(t) \in Nat /\ Len(names) \in Nat
  BY <1>1, LenNat
<1>3. space \in Nat
  <2>1. Reserve(names) \in Nat
    BY <1>1, ReserveFacts
  <2> QED
    BY <1>1, <2>1
<1>4. Len(t) <= n
  <2>1. n \in Nat /\ Len(t) + space <= n
    BY <1>1
  <2> QED
    BY ONLY <1>2, <1>3, <2>1
<1>5. Len(names) \in 0..StackSize
  <2>1. Len(names) <= StackSize
    BY <1>1
  <2>2. \A l \in Nat : l <= 4 => l \in 0..4
    OBVIOUS
  <2> QED
    BY ONLY <1>2, <2>1, <2>2 DEF StackSize
<1>6. \A k \in 1..Len(names) : stack[k] \in 1..(Len(t) + 1)
  <2> TAKE k \in 1..Len(names)
  <2>1. names[k] \in Name
    BY <1>1, LenNat
  <2>2. Len(names[k]) \in Nat
    BY <2>1, NameIsText
  <2>3. stack[k] \in Nat \ {0} /\ stack[k] + Len(names[k]) <= Len(t) + 1
    BY <1>1 DEF PlacedAt
  <2> QED
    BY ONLY <1>2, <2>2, <2>3
<1> QED
  BY <1>1, <1>2, <1>3, <1>4, <1>5, <1>6

LEMMA FailedSteady ==
  ASSUME NEW n, NEW u, Recoverable(n, u)
  PROVE  Steady(n, Failed(u)) /\ ~Failed(u).ok /\ Failed(u).state = u.state
<1> DEFINE v == Failed(u)
<1>1. u \in Writers
  BY DEF Recoverable
<1>2. /\ v \in Writers /\ v.text = u.text /\ v.stack = u.stack /\ v.depth = u.depth
      /\ v.rollback = u.rollback /\ v.ok = FALSE /\ v.state = u.state
  BY <1>1 DEF Failed, Writers
<1> HIDE DEF v
<1>3. Recoverable(n, v)
  BY <1>2 DEF Recoverable, Held
<1>4. Steady(n, v)
  BY <1>2, <1>3 DEF Steady
<1> QED
  BY <1>2, <1>4 DEF v

(***************************************************************************)
(* A writer that is not in a start tag, whatever its state says.           *)
(***************************************************************************)
Ended(n, u) ==
  /\ Recoverable(n, u) /\ u.ok /\ u.depth = Len(u.names) /\ Len(u.rollback.names) <= Len(u.names)
  /\ Good(n, u.text, FALSE, u.space, u.names, u.stack)

LEMMA ReadyEnded ==
  ASSUME NEW n, NEW u, Steady(n, u), u.ok, u.state # "opened"
  PROVE  Ended(n, u)
<1>1. Good(n, u.text, u.state = "opened", u.space, u.names, u.stack)
  BY DEF Steady, Ready, Sound
<1>2. (u.state = "opened") = FALSE
  OBVIOUS
<1>3. Good(n, u.text, FALSE, u.space, u.names, u.stack)
  BY <1>1, <1>2
<1> QED
  BY <1>3 DEF Steady, Ready, Ended, Sound, Counted

LEMMA EndStartEnded ==
  ASSUME NEW u, Steady(length, u), u.ok, u.state = "opened"
  PROVE  LET v == EndStartTag(u)
         IN /\ Ended(length, v) /\ v.ok /\ v.state = "opened" /\ v.names = u.names
            /\ v.depth = u.depth /\ v.depth > 0
<1> DEFINE p == Here(u)
           t == Append(u.text, ">")
           v == [u EXCEPT !.rollback = p, !.text = t, !.space = @ - 1]
<1>1. /\ u \in Writers /\ Counted(u)
      /\ Good(length, u.text, u.state = "opened", u.space, u.names, u.stack)
  BY DEF Steady, Recoverable, Ready, Sound
<1>2. Good(length, u.text, TRUE, u.space, u.names, u.stack)
  <2>1. (u.state = "opened") = TRUE
    OBVIOUS
  <2> QED
    BY <1>1, <2>1
<1>3. Good(length, t, FALSE, u.space - 1, u.names, u.stack) /\ Len(u.text) < length /\ u.space - 1 \in Nat
  BY <1>2, EndStart
<1>4. t \in Seq(Chars) /\ Len(t) <= length /\ \A k \in 1..Len(u.names) : u.stack[k] \in 1..(Len(t) + 1)
  BY <1>3, GoodFits
<1>5. /\ p \in Points /\ p.text = u.text /\ p.state = u.state /\ p.depth = u.depth
      /\ p.space = u.space /\ p.names = u.names
  BY <1>1 DEF Here, Point, Points, Writers
<1> HIDE DEF p, t
<1>6. /\ v \in Writers /\ v.text = t /\ v.state = u.state /\ v.stack = u.stack /\ v.depth = u.depth
      /\ v.space = u.space - 1 /\ v.rollback = p /\ v.ok = u.ok /\ v.names = u.names
  BY <1>1, <1>3, <1>4, <1>5 DEF Writers
<1>7. EndStartTag(u) = v
  BY <1>1, <1>3 DEF EndStartTag, xmlWriterMarkRollbackPoint, p, t, Writers
<1> HIDE DEF v
<1>8. Sound(length, v.rollback, v.stack)
  BY <1>1, <1>5, <1>6 DEF Sound, Counted
<1>9. Held(v)
  BY <1>1, <1>4, <1>6 DEF Held, Counted
<1>10. Recoverable(length, v)
  BY <1>4, <1>6, <1>8, <1>9 DEF Recoverable
<1>11. Len(v.names) \in Nat /\ Len(v.rollback.names) <= Len(v.names)
  BY <1>1, <1>5, <1>6, WriterFields, LenNat
<1>12. Ended(length, v)
  BY <1>1, <1>3, <1>6, <1>10, <1>11 DEF Ended, Counted
<1>13. v.depth > 0
  <2>1. u.names # <<>>
    BY <1>2 DEF Good, Shows
  <2> QED
    BY <1>1, <1>6, <2>1, WriterFields, LenNat DEF Counted
<1> QED
  BY <1>6, <1>7, <1>12, <1>13

LEMMA CloseNameSteady ==
  ASSUME NEW u, Ended(length, u), u.state = "halfclosed", u.depth > 0
  PROVE  LET v == CloseName(u)
         IN Steady(length, v) /\ v.ok /\ v.state = "halfclosed" /\ v.depth = u.depth - 1
<1> DEFINE name == u.names[Len(u.names)]
           t == EndTag(u.text, name)
           f == Front(u.names)
           a == [u EXCEPT !.depth = @ - 1]
           b == [a EXCEPT !.text = t, !.space = @ - 3 - Len(name), !.names = f]
           p == Here(b)
           v == [b EXCEPT !.rollback = p]
<1>1. /\ u \in Writers /\ u.ok /\ u.depth = Len(u.names)
      /\ Good(length, u.text, FALSE, u.space, u.names, u.stack)
  BY DEF Ended, Recoverable
<1>2. u.names \in Seq(Name) /\ Len(u.names) \in 1..4 /\ u.text \in Seq(Chars) /\ length \in Nat
  <2>1. u.names \in Seq(Name) /\ u.text \in Seq(Chars) /\ Len(u.names) \in 0..StackSize /\ length \in Nat
    BY <1>1, GoodFits
  <2>2. Len(u.names) > 0
    BY <1>1
  <2>3. \A l \in 0..4 : l > 0 => l \in 1..4
    OBVIOUS
  <2> QED
    BY <2>1, <2>2, <2>3 DEF StackSize
<1>3. u.names # <<>>
  <2>1. Len(<<>>) = 0
    OBVIOUS
  <2>2. 0 \notin 1..4
    OBVIOUS
  <2> QED
    BY ONLY <1>2, <2>1, <2>2
<1>4. /\ name \in Name /\ PlacedAt(u.text, name, u.stack[Len(u.names)])
      /\ Len(u.text) + 3 + Len(name) <= length /\ u.space - 3 - Len(name) \in Nat
      /\ Good(length, t, FALSE, u.space - 3 - Len(name), f, u.stack)
  BY <1>1, <1>3, CloseLast
<1>5. f \in Seq(Name) /\ Len(f) = Len(u.names) - 1
  BY <1>2, <1>3, FrontFacts
<1>6. t \in Seq(Chars) /\ Len(t) <= length /\ \A k \in 1..Len(f) : u.stack[k] \in 1..(Len(t) + 1)
  BY <1>4, GoodFits
<1>7. NameAt(u, u.depth) = name
  BY <1>1, <1>2, <1>4, NameIsThere
<1>8. Len(name) \in Nat /\ Len(u.text) \in Nat
  BY <1>2, <1>4, NameIsText, LenNat
<1>9. ~(Len(u.text) + 3 > length) /\ ~(Len(u.text) + 2 + Len(name) >= length)
  <2>1. Len(u.text) + 3 + Len(name) <= length
    BY <1>4
  <2>2. \A i, j, n \in Nat : i + 3 + j <= n => ~(i + 3 > n) /\ ~(i + 2 + j >= n)
    OBVIOUS
  <2>3. length \in Nat
    BY <1>2
  <2> QED
    BY ONLY <1>8, <2>1, <2>2, <2>3
<1>10. u.depth - 1 \in 0..StackSize
  <2>1. u.depth \in 1..4
    BY <1>1, <1>2
  <2> QED
    BY ONLY <2>1 DEF StackSize
<1> HIDE DEF name, f
<1>11. CloseName(u) = xmlWriterMarkRollbackPoint(
           [a EXCEPT !.text = @ \o <<"<", "/">> \o name \o <<">">>,
                     !.space = @ - 3 - Len(name), !.names = Front(@)])
  BY <1>7, <1>9 DEF CloseName
<1>12. a.text = u.text /\ a.names = u.names /\ a \in Writers
  BY <1>1, <1>10 DEF Writers
<1>13. CloseName(u) = v
  BY <1>11, <1>12 DEF xmlWriterMarkRollbackPoint, EndTag, f
<1> HIDE DEF t
<1>14. /\ b \in Writers /\ b.text = t /\ b.state = u.state /\ b.stack = u.stack
       /\ b.depth = u.depth - 1 /\ b.space = u.space - 3 - Len(name) /\ b.ok = u.ok /\ b.names = f
  BY <1>1, <1>4, <1>5, <1>6, <1>10 DEF Writers
<1> HIDE DEF b
<1>15. /\ p \in Points /\ p.text = t /\ p.state = u.state /\ p.depth = u.depth - 1
       /\ p.space = u.space - 3 - Len(name) /\ p.names = f
  BY <1>14 DEF Here, Point, Points, Writers
<1> HIDE DEF p
<1>16. /\ v \in Writers /\ v.text = t /\ v.state = u.state /\ v.stack = u.stack /\ v.rollback = p
       /\ v.depth = u.depth - 1 /\ v.space = u.space - 3 - Len(name) /\ v.ok = u.ok /\ v.names = f
  BY <1>14, <1>15 DEF Writers
<1> HIDE DEF v
<1>17. (u.state = "opened") = FALSE /\ u.state # "initial"
  OBVIOUS
<1>18. Sound(length, v, v.stack)
  <2>1. Good(length, v.text, v.state = "opened", v.space, v.names, v.stack)
    BY <1>4, <1>16, <1>17
  <2> QED
    BY <1>1, <1>5, <1>16, <1>17, <2>1 DEF Sound, Counted
<1>19. Sound(length, v.rollback, v.stack)
  <2>1. Good(length, p.text, p.state = "opened", p.space, p.names, u.stack)
    BY <1>4, <1>15, <1>17
  <2> QED
    BY <1>1, <1>5, <1>15, <1>16, <1>17, <2>1 DEF Sound, Counted
<1>20. Held(v)
  BY <1>1, <1>5, <1>6, <1>16 DEF Held
<1>21. Len(v.names) \in Nat /\ v.rollback.names = v.names
  BY <1>5, <1>15, <1>16, LenNat
<1>22. Steady(length, v)
  BY <1>1, <1>6, <1>16, <1>18, <1>19, <1>20, <1>21 DEF Steady, Recoverable, Ready
<1> QED
  BY <1>1, <1>13, <1>16, <1>22

LEMMA CloseTagSteady ==
  ASSUME NEW u, Steady(length, u), u.ok, u.depth > 0
  PROVE  LET v == xmlWriterCloseTag(u)
         IN Steady(length, v) /\ v.ok /\ v.depth = u.depth - 1
<1>1. u \in Writers /\ Counted(u) /\ u.state \in States /\ u.depth # 0
  BY DEF Steady, Ready, Recoverable, Sound, Writers
<1>2. u.state # "initial"
  BY <1>1 DEF Counted
<1>3. CASE u.state = "halfclosed"
  <2>1. Ended(length, u)
    BY <1>3, ReadyEnded
  <2>2. xmlWriterCloseTag(u) = CloseName(u)
    BY <1>1, <1>3 DEF xmlWriterCloseTag
  <2> QED
    BY <1>3, <2>1, <2>2, CloseNameSteady
<1>4. CASE u.state = "opened"
  <2> DEFINE v == EndStartTag(u)
             x == [v EXCEPT !.state = "halfclosed"]
  <2>1. Ended(length, v) /\ v.ok /\ v.names = u.names /\ v.depth = u.depth
    BY <1>4, EndStartEnded
  <2>2. xmlWriterCloseTag(u) = CloseName(x)
    BY <1>1, <1>4, <2>1 DEF xmlWriterCloseTag
  <2> HIDE DEF v
  <2>3. v \in Writers
    BY <2>1 DEF Ended, Recoverable
  <2>4. /\ x \in Writers /\ x.text = v.text /\ x.state = "halfclosed" /\ x.stack = v.stack
        /\ x.depth = v.depth /\ x.space = v.space /\ x.rollback = v.rollback /\ x.ok = v.ok
        /\ x.names = v.names
    BY <2>3 DEF Writers, States
  <2> HIDE DEF x
  <2>5. Ended(length, x)
    BY <2>1, <2>4 DEF Ended, Recoverable, Held
  <2>6. Steady(length, CloseName(x)) /\ CloseName(x).ok /\ CloseName(x).depth = x.depth - 1
    BY <2>1, <2>4, <2>5, CloseNameSteady
  <2> QED
    BY <2>1, <2>2, <2>4, <2>6
<1> QED
  BY <1>1, <1>2, <1>3, <1>4 DEF States

LEMMA CloseOneSteady ==
  ASSUME NEW u, Steady(length, u), u.ok, NEW d \in Nat
  PROVE  LET v == CloseOne(u, d)
         IN /\ Steady(length, v) /\ v.ok
            /\ v.depth = IF u.depth > d THEN u.depth - 1 ELSE u.depth
<1>1. u.depth \in 0..4
  BY DEF Steady, Recoverable, Writers, StackSize
<1>2. CASE u.depth > d
  BY <1>1, <1>2, CloseTagSteady DEF CloseOne
<1>3. CASE ~(u.depth > d)
  BY <1>3 DEF CloseOne
<1> QED
  BY <1>2, <1>3

LEMMA CloseDownSteady ==
  ASSUME NEW u, Steady(length, u), u.ok, NEW d \in Nat
  PROVE  LET v == CloseDownTo(u, d) IN Steady(length, v) /\ v.ok /\ v.depth \in 0..4 /\ v.depth <= d
<1> DEFINE a == CloseOne(u, d)
           b == CloseOne(a, d)
           c == CloseOne(b, d)
           v == CloseOne(c, d)
           Less(x) == IF x > d THEN x - 1 ELSE x
<1>1. u.depth \in 0..4
  BY DEF Steady, Recoverable, Writers, StackSize
<1>2. Steady(length, a) /\ a.ok /\ a.depth = Less(u.depth)
  BY CloseOneSteady
<1> HIDE DEF a
<1>3. Steady(length, b) /\ b.ok /\ b.depth = Less(a.depth)
  BY <1>2, CloseOneSteady
<1> HIDE DEF b
<1>4. Steady(length, c) /\ c.ok /\ c.depth = Less(b.depth)
  BY <1>3, CloseOneSteady
<1> HIDE DEF c
<1>5. Steady(length, v) /\ v.ok /\ v.depth = Less(c.depth)
  BY <1>4, CloseOneSteady
<1> HIDE DEF v
<1>6. v.depth \in 0..4
  BY <1>5 DEF Steady, Recoverable, Writers, StackSize
<1>7. v.depth <= d
  <2>1. \A x \in 0..4 : Less(Less(Less(Less(x)))) <= d
    OBVIOUS
  <2>2. v.depth = Less(Less(Less(Less(u.depth))))
    BY <1>2, <1>3, <1>4, <1>5
  <2> HIDE DEF Less
  <2> QED
    BY <1>1, <2>1, <2>2
<1>8. CloseDownTo(u, d) = v
  BY DEF CloseDownTo, a, b, c, v
<1> QED
  BY <1>5, <1>6, <1>7, <1>8

LEMMA FinalizeSteady ==
  ASSUME NEW u, Steady(length, u), u.ok
  PROVE  LET v == xmlWriterFinalize(u) IN Steady(length, v) /\ v.ok /\ v.depth = 0
<1> DEFINE x == CloseDownTo(u, 0)
<1>1. Steady(length, x) /\ x.ok /\ x.depth \in 0..4 /\ x.depth <= 0
  BY CloseDownSteady
<1>2. xmlWriterFinalize(u) = [x EXCEPT !.ok = (x.depth = 0)]
  BY DEF xmlWriterFinalize
<1> HIDE DEF x
<1>3. x.depth = 0
  BY <1>1
<1>4. x \in Writers /\ x.ok = TRUE /\ (x.depth = 0) = TRUE
  BY <1>1, <1>3 DEF Steady, Recoverable, Writers
<1>5. [x EXCEPT !.ok = (x.depth = 0)] = x
  BY <1>4 DEF Writers
<1> QED
  BY <1>1, <1>2, <1>3, <1>5

(***************************************************************************)
(* Attributes: pieces of text without ">".                                 *)
(***************************************************************************)
Clean == {s \in Seq(Chars) : \A k \in 1..Len(s) : s[k] # ">"}

LEMMA CleanConcat ==
  ASSUME NEW s \in Clean, NEW r \in Clean
  PROVE  /\ s \o r \in Clean
         /\ s # <<>> => s \o r # <<>> /\ (s \o r)[1] = s[1]
<1> DEFINE u == s \o r
<1>1. s \in Seq(Chars) /\ r \in Seq(Chars)
  BY DEF Clean
<1>2. /\ u \in Seq(Chars) /\ Len(u) = Len(s) + Len(r) /\ Extends(u, s)
      /\ \A k \in 1..Len(r) : u[Len(s) + k] = r[k]
  BY ONLY <1>1, ConcatFacts
<1>3. Len(s) \in Nat /\ Len(r) \in Nat /\ (s # <<>> => 0 < Len(s))
  BY <1>1, LenNat
<1> HIDE DEF u
<1>4. \A k \in 1..Len(u) : u[k] # ">"
  <2> TAKE k \in 1..Len(u)
  <2>1. CASE k \in 1..Len(s)
    BY <1>2, <2>1 DEF Extends, Clean
  <2>2. CASE k \in Len(s) + 1..Len(s) + Len(r)
    <3>1. k - Len(s) \in 1..Len(r) /\ k = Len(s) + (k - Len(s))
      BY ONLY <1>3, <2>2, Shifted
    <3>2. u[Len(s) + (k - Len(s))] = r[k - Len(s)]
      BY <1>2, <3>1
    <3> QED
      BY <3>1, <3>2 DEF Clean
  <2>3. k \in 1..Len(s) \/ k \in Len(s) + 1..Len(s) + Len(r)
    <3>1. Len(u) = Len(s) + Len(r)
      BY <1>2
    <3> QED
      BY ONLY <1>3, <3>1, k \in 1..Len(u)
  <2> QED
    BY <2>1, <2>2, <2>3
<1>5. ASSUME s # <<>>
      PROVE  u # <<>> /\ u[1] = s[1]
  <2>1. 1 \in 1..Len(s) /\ Len(u) # 0
    <3>1. Len(u) = Len(s) + Len(r) /\ 0 < Len(s)
      BY <1>2, <1>3, <1>5
    <3> QED
      BY ONLY <1>3, <3>1
  <2>2. Len(<<>>) = 0
    OBVIOUS
  <2> QED
    BY <1>2, <2>1, <2>2 DEF Extends
<1> QED
  BY <1>2, <1>4, <1>5 DEF Clean, u

LEMMA CleanPieces ==
  ASSUME NEW a \in Attributes
  PROVE  /\ a[1] \in Clean /\ a[2] \in Clean /\ Quoted(a[2]) \in Clean /\ <<"q">> \in Clean
         /\ \A s \in {<<" ">> \o a[1] \o <<"=">>, <<" ">> \o a[1] \o <<"=", "q">>,
                      <<" ">> \o a[1] \o <<"=">> \o Quoted(a[2])} :
              s \in Clean /\ s # <<>> /\ s[1] = " "
<1>1. a[1] \in Clean /\ a[2] \in Clean
  BY ContentAssumption DEF Clean
<1>2. <<" ">> \in Clean /\ <<"=">> \in Clean /\ <<"q">> \in Clean /\ <<"=", "q">> \in Clean
  <2>1. " " \in Chars /\ "=" \in Chars /\ "q" \in Chars
    BY LettersAssumption
  <2>2. ASSUME NEW c \in Chars, c # ">"
        PROVE  <<c>> \in Clean
    <3> DEFINE p == <<c>>
    <3>1. p \in Seq(Chars) /\ Len(p) = 1 /\ p[1] = c
      OBVIOUS
    <3> HIDE DEF p
    <3>2. \A k \in 1..1 : k = 1
      OBVIOUS
    <3>3. p \in Clean
      BY <2>2, <3>1, <3>2 DEF Clean
    <3> QED
      BY <3>3 DEF p
  <2>3. <<"=", "q">> \in Clean
    <3> DEFINE p == <<"=", "q">>
    <3>1. {"=", "q"} \subseteq Chars
      BY <2>1
    <3>2. p \in Seq(Chars) /\ Len(p) = 2 /\ p[1] = "=" /\ p[2] = "q"
      BY <3>1
    <3> HIDE DEF p
    <3>3. \A k \in 1..2 : k = 1 \/ k = 2
      OBVIOUS
    <3>4. p \in Clean
      BY <3>1, <3>2, <3>3 DEF Clean
    <3> QED
      BY <3>4 DEF p
  <2>4. <<" ">> \in Clean
    BY <2>1, <2>2
  <2>5. <<"=">> \in Clean
    BY <2>1, <2>2
  <2>6. <<"q">> \in Clean
    BY <2>1, <2>2
  <2> QED
    BY ONLY <2>3, <2>4, <2>5, <2>6
<1>3. Quoted(a[2]) \in Clean
  <2>1. <<"q">> \o a[2] \in Clean
    BY ONLY <1>1, <1>2, CleanConcat
  <2>2. <<"q">> \o a[2] \o <<"q">> \in Clean
    BY ONLY <1>2, <2>1, CleanConcat
  <2> QED
    BY <2>2 DEF Quoted
<1>4. <<" ">> # <<>> /\ <<" ">>[1] = " "
  OBVIOUS
<1> DEFINE b == <<" ">> \o a[1]
<1>5. b \in Clean /\ b # <<>> /\ b[1] = " "
  BY ONLY <1>1, <1>2, <1>4, CleanConcat
<1> HIDE DEF b
<1> DEFINE c == b \o <<"=">>
<1>6. c \in Clean /\ c # <<>> /\ c[1] = " "
  BY ONLY <1>2, <1>5, CleanConcat
<1>7. b \o <<"=", "q">> \in Clean /\ b \o <<"=", "q">> # <<>> /\ (b \o <<"=", "q">>)[1] = " "
  BY ONLY <1>2, <1>5, CleanConcat
<1> HIDE DEF c
<1>8. c \o Quoted(a[2]) \in Clean /\ c \o Quoted(a[2]) # <<>> /\ (c \o Quoted(a[2]))[1] = " "
  BY ONLY <1>3, <1>6, CleanConcat
<1> QED
  BY <1>1, <1>2, <1>3, <1>6, <1>7, <1>8 DEF c, b

\* The writer is in a start tag, after its name.
Within(n, u) ==
  Steady(n, u) /\ u.state = "opened" /\ (u.ok => Read(u.text).in = "attributes")

LEMMA AddSteady ==
  ASSUME NEW u, Steady(length, u), u.state = "opened", NEW s \in Clean, NEW nul \in {0, 1},
         u.ok => (s # <<>> /\ s[1] = " ") \/ Read(u.text).in = "attributes"
  PROVE  Within(length, Add(u, [text |-> s, nul |-> nul]))
<1> DEFINE t == u.text \o s
           v == [u EXCEPT !.text = t]
           piece == [text |-> s, nul |-> nul]
<1>1. u \in Writers /\ Recoverable(length, u) /\ s \in Seq(Chars) /\ \A k \in 1..Len(s) : s[k] # ">"
  BY DEF Steady, Recoverable, Clean
<1>2. CASE ~(u.ok /\ Len(u.text) + Len(s) + nul <= length - u.space)
  <2>1. Add(u, piece) = Failed(u)
    BY <1>2 DEF Add, Append1, Room
  <2> QED
    BY <1>1, <2>1, FailedSteady DEF Within
<1>3. CASE u.ok /\ Len(u.text) + Len(s) + nul <= length - u.space
  <2>1. Add(u, piece) = v
    BY <1>3 DEF Add, Append1, Room
  <2>2. Ready(length, u) /\ Counted(u) /\ Good(length, u.text, u.state = "opened", u.space, u.names, u.stack)
    BY <1>3 DEF Steady, Ready, Sound
  <2>3. Good(length, u.text, TRUE, u.space, u.names, u.stack)
    <3>1. (u.state = "opened") = TRUE
      OBVIOUS
    <3> QED
      BY <2>2, <3>1
  <2>4. Len(u.text) + Len(s) + u.space <= length
    <3>1. Len(u.text) \in Nat /\ u.space \in Nat /\ length \in Nat
      BY <2>3, GoodFits
    <3>2. Len(s) \in Nat /\ nul \in Nat
      <4>1. s \in Seq(Chars)
        BY <1>1
      <4> QED
        BY ONLY <4>1, nul \in {0, 1}, LenNat
    <3>3. Len(u.text) + Len(s) + nul <= length - u.space
      BY <1>3
    <3> QED
      BY ONLY <3>1, <3>2, <3>3
  <2>5. Good(length, t, TRUE, u.space, u.names, u.stack) /\ Read(t).in = "attributes"
    BY <1>1, <1>3, <2>3, <2>4, AddInTag
  <2>6. t \in Seq(Chars) /\ Len(t) <= length /\ \A k \in 1..Len(u.names) : u.stack[k] \in 1..(Len(t) + 1)
    BY <2>5, GoodFits
  <2> HIDE DEF t
  <2>7. /\ v \in Writers /\ v.text = t /\ v.state = "opened" /\ v.stack = u.stack /\ v.depth = u.depth
        /\ v.space = u.space /\ v.rollback = u.rollback /\ v.ok = TRUE /\ v.names = u.names
    BY <1>1, <1>3, <2>6 DEF Writers
  <2> HIDE DEF v
  <2>8. Sound(length, v, v.stack)
    <3>1. (v.state = "opened") = TRUE /\ v.state # "initial"
      BY <2>7
    <3>2. Good(length, v.text, v.state = "opened", v.space, v.names, v.stack)
      BY <2>5, <2>7, <3>1
    <3> QED
      BY <2>2, <2>7, <3>1, <3>2 DEF Sound, Counted
  <2>9. Held(v)
    BY <2>2, <2>6, <2>7 DEF Held, Counted
  <2>10. Recoverable(length, v)
    BY <1>1, <2>6, <2>7, <2>9 DEF Recoverable
  <2>11. Ready(length, v)
    BY <2>2, <2>7, <2>8 DEF Ready
  <2>12. Within(length, v)
    BY <2>5, <2>7, <2>10, <2>11 DEF Within, Steady
  <2> QED
    BY <2>1, <2>12
<1> QED
  BY <1>2, <1>3

LEMMA FirstAdd ==
  ASSUME NEW u, Steady(length, u), u.state = "opened", NEW s \in Clean, s # <<>>, s[1] = " "
  PROVE  Within(length, Add(u, Format(s)))
BY AddSteady DEF Format

LEMMA NextAdd ==
  ASSUME NEW u, Within(length, u), NEW s \in Clean
  PROVE  Within(length, Add(u, Format(s))) /\ Within(length, Add(u, Copy(s)))
BY AddSteady DEF Format, Copy, Within

LEMMA NameAdded ==
  ASSUME NEW u, Steady(length, u), u.state = "opened", NEW a \in Attributes
  PROVE  Within(length, AddName(u, a)) /\ Within(length, AddNameAndValue(u, a))
<1> DEFINE s == <<" ">> \o a[1] \o <<"=">>
           v == Add(u, Format(s))
<1>1. s \in Clean /\ s # <<>> /\ s[1] = " " /\ Quoted(a[2]) \in Clean
  BY CleanPieces
<1>2. AddName(u, a) = v /\ AddNameAndValue(u, a) = Add(v, Format(Quoted(a[2])))
  BY DEF AddName, AddNameAndValue
<1> HIDE DEF s
<1>3. Within(length, v)
  BY <1>1, FirstAdd
<1> HIDE DEF v
<1>4. Within(length, Add(v, Format(Quoted(a[2]))))
  BY <1>1, <1>3, NextAdd
<1> QED
  BY <1>2, <1>3, <1>4

LEMMA InStartTagSteady ==
  ASSUME NEW u, Steady(length, u), NEW v, u.state = "opened" => Steady(length, v)
  PROVE  Steady(length, InStartTag(u, v))
BY FailedSteady DEF InStartTag, Steady

LEMMA AttributeSteady ==
  ASSUME NEW u, Steady(length, u), NEW a \in Attributes, NEW b \in Attributes, NEW known \in BOOLEAN
  PROVE  /\ Steady(length, xmlWriterWriteAttribute(u, a))
         /\ Steady(length, xmlWriterWriteAttributeValueFromBuffer(u, a))
         /\ Steady(length, xmlWriterWriteMultipleAttributes(u, a, b, known))
<1>1. Steady(length, xmlWriterWriteAttribute(u, a))
  <2> DEFINE s == <<" ">> \o a[1] \o <<"=">> \o Quoted(a[2])
             v == Add(u, Format(s))
  <2>1. s \in Clean /\ s # <<>> /\ s[1] = " "
    BY CleanPieces
  <2>2. xmlWriterWriteAttribute(u, a) = InStartTag(u, v)
    BY DEF xmlWriterWriteAttribute
  <2> HIDE DEF s
  <2>3. u.state = "opened" => Steady(length, v)
    BY <2>1, FirstAdd DEF Within
  <2> HIDE DEF v
  <2> QED
    BY <2>2, <2>3, InStartTagSteady
<1>2. Steady(length, xmlWriterWriteAttributeValueFromBuffer(u, a))
  <2> DEFINE s == <<" ">> \o a[1] \o <<"=", "q">>
             x == Add(u, Format(s))
             y == Add(x, Copy(a[2]))
             v == Add(y, Copy(<<"q">>))
  <2>1. s \in Clean /\ s # <<>> /\ s[1] = " " /\ a[2] \in Clean /\ <<"q">> \in Clean
    BY CleanPieces
  <2>2. xmlWriterWriteAttributeValueFromBuffer(u, a) = InStartTag(u, v)
    BY DEF xmlWriterWriteAttributeValueFromBuffer
  <2> HIDE DEF s
  <2>3. u.state = "opened" => Within(length, x)
    BY <2>1, FirstAdd
  <2> HIDE DEF x
  <2>4. u.state = "opened" => Within(length, y)
    BY <2>1, <2>3, NextAdd
  <2> HIDE DEF y
  <2>5. u.state = "opened" => Steady(length, v)
    BY <2>1, <2>4, NextAdd DEF Within
  <2> HIDE DEF v
  <2> QED
    BY <2>2, <2>5, InStartTagSteady
<1>3. Steady(length, xmlWriterWriteMultipleAttributes(u, a, b, known))
  <2> DEFINE x == AddNameAndValue(u, a)
             v == IF known THEN AddNameAndValue(x, b) ELSE Failed(AddName(x, b))
  <2>1. xmlWriterWriteMultipleAttributes(u, a, b, known) = InStartTag(u, v)
    BY DEF xmlWriterWriteMultipleAttributes
  <2>2. u.state = "opened" => Steady(length, v)
    <3> SUFFICES ASSUME u.state = "opened" PROVE Steady(length, v)
      OBVIOUS
    <3>1. Within(length, x)
      BY NameAdded
    <3> HIDE DEF x
    <3>2. Within(length, AddNameAndValue(x, b)) /\ Within(length, AddName(x, b))
      BY <3>1, NameAdded DEF Within
    <3>3. Steady(length, Failed(AddName(x, b)))
      BY <3>2, FailedSteady DEF Within, Steady
    <3> QED
      BY <3>2, <3>3 DEF Within
  <2> HIDE DEF v
  <2> QED
    BY <2>1, <2>2, InStartTagSteady
<1> QED
  BY <1>1, <1>2, <1>3

LEMMA GoodOnStack ==
  ASSUME NEW n, NEW t, NEW opened, NEW space, NEW names, NEW stack, NEW other,
         Good(n, t, opened, space, names, stack), \A k \in 1..Len(names) : other[k] = stack[k]
  PROVE  Good(n, t, opened, space, names, other)
<1>1. \A k \in 1..Len(names) : PlacedAt(t, names[k], other[k])
  BY DEF Good
<1> QED
  BY <1>1 DEF Good

LEMMA ConsFacts ==
  ASSUME NEW name \in Name
  PROVE  <<"<">> \o name \in Seq(Chars) /\ Len(<<"<">> \o name) = Len(name) + 1 /\ Len(name) \in Nat
<1>1. name \in Seq(Chars) /\ Len(name) \in Nat
  BY NameIsText
<1> DEFINE p == <<"<">>
<1>2. p \in Seq(Chars) /\ Len(p) = 1
  <2>1. "<" \in Chars
    BY LettersAssumption
  <2> QED
    BY ONLY <2>1
<1> HIDE DEF p
<1>3. p \o name \in Seq(Chars) /\ Len(p \o name) = Len(p) + Len(name)
  BY ONLY <1>1, <1>2, ConcatFacts
<1>4. Len(p \o name) = Len(name) + 1
  BY ONLY <1>1, <1>2, <1>3
<1> QED
  BY <1>1, <1>3, <1>4 DEF p

LEMMA StartTagSteady ==
  ASSUME NEW u, Steady(length, u), u.ok, u.depth < StackSize, NEW name \in Name
  PROVE  Steady(length, xmlWriterStartTag(u, name))
<1> DEFINE s == <<"<">> \o name
           v == IF u.state = "opened" THEN EndStartTag(u) ELSE u
           r == [v EXCEPT !.space = @ + Closing(name)]
           x == Append1(r, Format(s), Room(r))
           t == v.text \o s
           st == [v.stack EXCEPT ![Len(v.names) + 1] = Len(v.text) + 2]
           y == [x EXCEPT !.depth = @ + 1, !.stack[x.depth + 1] = Len(r.text) + 2,
                          !.state = "opened", !.names = Append(@, name)]
<1>1. xmlWriterStartTag(u, name) = IF ~v.ok THEN v ELSE IF ~x.ok THEN x ELSE y
  BY DEF xmlWriterStartTag
<1>2. Ended(length, v) /\ v.ok /\ v.depth = u.depth
  <2>1. CASE u.state = "opened"
    BY <2>1, EndStartEnded
  <2>2. CASE u.state # "opened"
    BY <2>2, ReadyEnded
  <2> QED
    BY <2>1, <2>2
<1>3. s \in Seq(Chars) /\ Len(s) = Len(name) + 1 /\ Len(name) \in Nat
  BY ConsFacts
<1> HIDE DEF v
<1>4. /\ v \in Writers /\ Recoverable(length, v) /\ v.ok = TRUE /\ v.depth = Len(v.names)
      /\ Len(v.names) < StackSize /\ Len(v.rollback.names) <= Len(v.names)
      /\ Good(length, v.text, FALSE, v.space, v.names, v.stack)
  BY <1>2 DEF Ended, Recoverable, Writers
<1>5. /\ length \in Nat /\ v.text \in Seq(Chars) /\ Len(v.text) \in Nat /\ v.names \in Seq(Name)
      /\ v.space \in Nat
  BY <1>4, GoodFits
<1>6. Len(v.names) \in 0..3 /\ v.depth + 1 \in 0..StackSize /\ Len(v.names) + 1 \in 1..StackSize
  <2>1. Len(v.names) \in Nat /\ Len(v.names) < 4
    BY <1>4, <1>5, LenNat DEF StackSize
  <2>2. \A l \in Nat : l < 4 => l \in 0..3 /\ l + 1 \in 0..4 /\ l + 1 \in 1..4
    OBVIOUS
  <2> QED
    BY <1>4, <2>1, <2>2 DEF StackSize
<1>7. v.space + Len(name) + 4 \in Nat /\ v.space + Closing(name) = v.space + Len(name) + 4
  BY <1>3, <1>5 DEF Closing
<1> HIDE DEF s
<1>8. /\ r \in Writers /\ r.text = v.text /\ r.state = v.state /\ r.stack = v.stack
      /\ r.depth = v.depth /\ r.space = v.space + Len(name) + 4 /\ r.rollback = v.rollback
      /\ r.ok = TRUE /\ r.names = v.names
  BY <1>4, <1>7 DEF Writers
<1> HIDE DEF r
<1>9. Recoverable(length, r)
  BY <1>4, <1>8 DEF Recoverable, Held
<1>10. CASE ~(Len(v.text) + Len(s) + 1 <= length - r.space)
  <2>1. x = Failed(r)
    BY <1>8, <1>10 DEF Append1, Format, Room
  <2> HIDE DEF x
  <2> QED
    BY <1>1, <1>4, <1>9, <2>1, FailedSteady
<1>11. CASE Len(v.text) + Len(s) + 1 <= length - r.space
  <2>1. x = [r EXCEPT !.text = t]
    BY <1>8, <1>11 DEF Append1, Format, Room
  <2>2. Len(v.text) + 1 + Len(name) + (v.space + Len(name) + 4) <= length
    <3>1. /\ Len(v.text) + Len(s) + 1 <= length - r.space
          /\ r.space = v.space + Len(name) + 4 /\ Len(s) = Len(name) + 1
      BY <1>3, <1>8, <1>11
    <3>2. \A a, b, c, n \in Nat :
            a + (b + 1) + 1 <= n - (c + b + 4) => a + 1 + b + (c + b + 4) <= n
      OBVIOUS
    <3>3. Len(v.text) + (Len(name) + 1) + 1 <= length - (v.space + Len(name) + 4)
      BY ONLY <3>1
    <3> QED
      BY ONLY <1>3, <1>5, <3>2, <3>3
  <2>3. v.stack \in [1..StackSize -> Nat]
    BY <1>4 DEF Writers, Stacks
  <2>4. Good(length, t, TRUE, v.space + Len(name) + 4, Append(v.names, name), st)
    BY <1>4, <2>2, <2>3, OpenTag DEF s
  <2> DEFINE m == Append(v.names, name)
  <2>5. m \in Seq(Name) /\ Len(m) = Len(v.names) + 1 /\ m # <<>>
    BY <1>5, AppendFacts
  <2>6. /\ t \in Seq(Chars) /\ Len(t) <= length
        /\ \A k \in 1..Len(m) : st[k] \in 1..(Len(t) + 1)
    BY <2>4, GoodFits
  <2> HIDE DEF t, m
  <2>7. /\ x \in Writers /\ x.text = t /\ x.state = v.state /\ x.stack = v.stack /\ x.depth = v.depth
        /\ x.space = v.space + Len(name) + 4 /\ x.rollback = v.rollback /\ x.ok = TRUE
        /\ x.names = v.names
    BY <1>8, <2>1, <2>6 DEF Writers
  <2> HIDE DEF x
  <2>8. st \in Stacks /\ \A k \in 1..Len(v.names) : st[k] = v.stack[k]
    <3>1. \A k \in 1..Len(v.names) : k \in 1..StackSize /\ k # Len(v.names) + 1
      BY <1>6 DEF StackSize
    <3>2. Len(v.text) + 2 \in Nat
      BY ONLY <1>5
    <3>3. st \in Stacks
      BY ONLY <2>3, <3>2 DEF Stacks, st
    <3>4. \A k \in 1..Len(v.names) : st[k] = v.stack[k]
      BY <2>3, <3>1
    <3> QED
      BY <3>3, <3>4
  <2>9. y = [x EXCEPT !.depth = v.depth + 1, !.stack = st, !.state = "opened", !.names = m]
    BY <1>4, <1>8, <2>7 DEF Writers, m
  <2> HIDE DEF st, y
  <2>10. /\ y \in Writers /\ y.text = t /\ y.state = "opened" /\ y.stack = st
         /\ y.depth = v.depth + 1 /\ y.space = v.space + Len(name) + 4
         /\ y.rollback = v.rollback /\ y.ok = TRUE /\ y.names = m
    BY <1>6, <2>5, <2>7, <2>8, <2>9 DEF Writers, States
  <2>11. Sound(length, y, y.stack)
    <3>1. (y.state = "opened") = TRUE /\ y.state # "initial"
      BY <2>10
    <3>2. Good(length, y.text, y.state = "opened", y.space, y.names, y.stack)
      BY <2>4, <2>10, <3>1 DEF m
    <3> QED
      BY <1>4, <2>5, <2>10, <3>1, <3>2 DEF Sound, Counted
  <2>12. Sound(length, y.rollback, y.stack)
    <3>1. Sound(length, v.rollback, v.stack) /\ v.rollback.names \in Seq(Name)
      BY <1>4 DEF Recoverable, Writers, Points
    <3>2. \A k \in 1..Len(v.rollback.names) : st[k] = v.stack[k]
      <4>1. Len(v.rollback.names) \in Nat /\ Len(v.names) \in Nat /\ Len(v.rollback.names) <= Len(v.names)
        BY <1>4, <1>5, <3>1, LenNat
      <4>2. \A k \in 1..Len(v.rollback.names) : k \in 1..Len(v.names)
        BY ONLY <4>1
      <4> QED
        BY <2>8, <4>2
    <3> QED
      BY <2>10, <3>1, <3>2, GoodOnStack DEF Sound
  <2>13. Held(y)
    BY <1>4, <2>5, <2>6, <2>10 DEF Held
  <2>14. Recoverable(length, y)
    BY <2>6, <2>10, <2>12, <2>13 DEF Recoverable
  <2>15. Len(y.rollback.names) <= Len(y.names)
    <3>1. Len(v.rollback.names) \in Nat /\ Len(v.names) \in Nat
      BY <1>4, <1>5, LenNat DEF Writers, Points
    <3>2. Len(v.rollback.names) <= Len(v.names) /\ Len(m) = Len(v.names) + 1
      BY <1>4, <2>5
    <3>3. Len(v.rollback.names) <= Len(m)
      BY ONLY <3>1, <3>2
    <3> QED
      BY <2>10, <3>3
  <2>16. Steady(length, y)
    BY <2>10, <2>11, <2>14, <2>15 DEF Steady, Ready
  <2> QED
    BY <1>1, <1>4, <2>7, <2>16
<1> QED
  BY <1>10, <1>11

LEMMA StartChildTagSteady ==
  ASSUME NEW u, Steady(length, u), u.ok, NEW name \in Name
  PROVE  Steady(length, xmlWriterStartChildTag(u, name))
<1> DEFINE v == CloseDownTo(u, 1)
<1>1. Steady(length, v) /\ v.ok /\ v.depth \in 0..4 /\ v.depth <= 1
  BY CloseDownSteady
<1>2. xmlWriterStartChildTag(u, name) = IF v.ok THEN xmlWriterStartTag(v, name) ELSE v
  BY DEF xmlWriterStartChildTag
<1> HIDE DEF v
<1>3. v.depth < StackSize
  BY <1>1 DEF StackSize
<1> QED
  BY <1>1, <1>2, <1>3, StartTagSteady

LEMMA TextSteady ==
  ASSUME NEW u, Steady(length, u), u.ok, NEW s \in Texts, NEW nul \in {0, 1}
  PROVE  Steady(length, TextAfterStartTag(u, [text |-> s, nul |-> nul]))
<1> DEFINE piece == [text |-> s, nul |-> nul]
           v == EndStartTag(u)
           x == Append1(v, piece, Room(v))
           t == v.text \o s
           h == [x EXCEPT !.state = "halfclosed"]
           p == Here(h)
           y == [h EXCEPT !.rollback = p]
<1>1. CASE u.state # "opened"
  <2>1. TextAfterStartTag(u, piece) = Failed(u)
    BY <1>1 DEF TextAfterStartTag
  <2> QED
    BY <2>1, FailedSteady DEF Steady
<1>2. CASE u.state = "opened"
  <2>1. TextAfterStartTag(u, piece) = IF x.ok THEN y ELSE x
    BY <1>2 DEF TextAfterStartTag, xmlWriterMarkRollbackPoint
  <2>2. Ended(length, v) /\ v.ok /\ v.depth > 0
    BY <1>2, EndStartEnded
  <2> HIDE DEF v
  <2>3. /\ v \in Writers /\ Recoverable(length, v) /\ v.ok = TRUE /\ v.depth = Len(v.names)
        /\ Good(length, v.text, FALSE, v.space, v.names, v.stack)
    BY <2>2 DEF Ended, Recoverable, Writers
  <2>4. CASE ~(Len(v.text) + Len(s) + nul <= length - v.space)
    <3>1. x = Failed(v)
      BY <2>3, <2>4 DEF Append1, Room
    <3> HIDE DEF x
    <3> QED
      BY <2>1, <2>3, <3>1, FailedSteady
  <2>5. CASE Len(v.text) + Len(s) + nul <= length - v.space
    <3>1. x = [v EXCEPT !.text = t]
      BY <2>3, <2>5 DEF Append1, Room
    <3>2. s \in Seq(Chars) /\ (\A k \in 1..Len(s) : s[k] # "<") /\ Len(s) \in Nat
      BY ContentAssumption, LenNat
    <3>3. Len(v.text) + Len(s) + v.space <= length
      <4>1. Len(v.text) \in Nat /\ v.space \in Nat /\ length \in Nat
        BY <2>3, GoodFits
      <4>2. Len(v.text) + Len(s) + nul <= length - v.space /\ nul \in {0, 1}
        BY <2>5
      <4>3. \A a, b, c, n \in Nat : \A d \in {0, 1} : a + b + d <= n - c => a + b + c <= n
        OBVIOUS
      <4> QED
        BY ONLY <3>2, <4>1, <4>2, <4>3
    <3>4. Good(length, t, FALSE, v.space, v.names, v.stack)
      BY <2>3, <3>2, <3>3, AddText
    <3>5. t \in Seq(Chars) /\ Len(t) <= length /\ \A k \in 1..Len(v.names) : v.stack[k] \in 1..(Len(t) + 1)
      BY <3>4, GoodFits
    <3> HIDE DEF t, x
    <3>6. /\ x \in Writers /\ x.text = t /\ x.stack = v.stack /\ x.depth = v.depth
          /\ x.space = v.space /\ x.rollback = v.rollback /\ x.ok = TRUE /\ x.names = v.names
      BY <2>3, <3>1, <3>5 DEF Writers
    <3>7. /\ h \in Writers /\ h.text = t /\ h.state = "halfclosed" /\ h.stack = v.stack
          /\ h.depth = v.depth /\ h.space = v.space /\ h.ok = TRUE /\ h.names = v.names
      BY <3>6 DEF Writers, States
    <3> HIDE DEF h
    <3>8. /\ p \in Points /\ p.text = t /\ p.state = "halfclosed" /\ p.depth = v.depth
          /\ p.space = v.space /\ p.names = v.names
      BY <3>7 DEF Here, Point, Points, Writers
    <3> HIDE DEF p
    <3>9. /\ y \in Writers /\ y.text = t /\ y.state = "halfclosed" /\ y.stack = v.stack
          /\ y.depth = v.depth /\ y.space = v.space /\ y.rollback = p /\ y.ok = TRUE /\ y.names = v.names
      BY <3>7, <3>8 DEF Writers
    <3> HIDE DEF y
    <3>10. (y.state = "opened") = FALSE /\ (p.state = "opened") = FALSE
      BY <3>8, <3>9
    <3>11. Good(length, y.text, y.state = "opened", y.space, y.names, y.stack)
      BY <3>4, <3>9, <3>10
    <3>12. Good(length, p.text, p.state = "opened", p.space, p.names, y.stack)
      BY <3>4, <3>8, <3>9, <3>10
    <3>13. Sound(length, y, y.stack) /\ Sound(length, y.rollback, y.stack)
      BY <2>3, <3>8, <3>9, <3>11, <3>12 DEF Sound, Counted
    <3>14. Held(y)
      BY <2>3, <3>5, <3>9 DEF Held
    <3>15. Len(y.names) \in Nat /\ y.rollback.names = y.names
      BY <2>3, <3>8, <3>9, LenNat DEF Writers
    <3>16. Steady(length, y)
      BY <3>5, <3>9, <3>13, <3>14, <3>15 DEF Steady, Recoverable, Ready
    <3> QED
      BY <2>1, <3>6, <3>16
  <2> QED
    BY <2>4, <2>5
<1> QED
  BY <1>1, <1>2

LEMMA RollbackSteady ==
  ASSUME NEW u, Steady(length, u)
  PROVE  Steady(length, xmlWriterRollback(u)) /\ xmlWriterRollback(u).ok
<1> DEFINE p == u.rollback
           v == xmlWriterRollback(u)
<1>1. u \in Writers /\ Sound(length, p, u.stack)
  BY DEF Steady, Recoverable
<1>2. p \in Points
  BY <1>1 DEF Writers
<1>3. /\ v \in Writers /\ v.text = p.text /\ v.state = p.state /\ v.stack = u.stack
      /\ v.depth = p.depth /\ v.space = p.space /\ v.rollback = p /\ v.ok = TRUE /\ v.names = p.names
  BY <1>1, <1>2 DEF xmlWriterRollback, Writers, Points
<1> HIDE DEF v
<1>4. Sound(length, v, v.stack) /\ Sound(length, v.rollback, v.stack)
  BY <1>1, <1>3 DEF Sound, Counted
<1>5. /\ Len(p.text) <= length /\ Counted(p) /\ p.names \in Seq(Name)
      /\ \A k \in 1..Len(p.names) : u.stack[k] \in 1..(Len(p.text) + 1)
  BY <1>1, GoodFits DEF Sound
<1>6. Held(v) /\ Len(v.text) <= length
  BY <1>3, <1>5 DEF Held, Counted
<1>7. Len(v.rollback.names) <= Len(v.names)
  BY <1>3, <1>5, LenNat
<1>8. Steady(length, v)
  BY <1>3, <1>4, <1>6, <1>7 DEF Steady, Recoverable, Ready
<1> QED
  BY <1>3, <1>8 DEF v

LEMMA EmptyGood ==
  ASSUME NEW n \in Nat, NEW stack
  PROVE  Good(n, <<>>, FALSE, 0, <<>>, stack)
<1>1. Len(<<>>) = 0 /\ <<>> \in Seq(Chars) /\ <<>> \in Seq(Name)
  OBVIOUS
<1>2. Read(<<>>) = Start
  <2>1. Len(<<>>) \in Nat
    BY <1>1
  <2>2. ReadTo(<<>>)[0] = Start
    BY ONLY <2>1, ReadToRuns
  <2> QED
    BY <1>1, <2>2 DEF Read
<1>3. Start \in ReadState /\ Start.in = "text" /\ Start.open = <<>>
  BY DEF Start, ReadState, Modes
<1>4. Shows(<<>>, <<>>, FALSE)
  BY <1>2, <1>3 DEF Shows
<1>5. Reserve(<<>>) = 0
  BY <1>1 DEF Reserve, Cost
<1>6. \A k \in 1..Len(<<>>) : PlacedAt(<<>>, <<>>[k], stack[k])
  <2>1. 1..0 = {}
    OBVIOUS
  <2> QED
    BY <1>1, <2>1
<1>7. 0 = 0 + (IF FALSE THEN 1 ELSE 0) /\ 0 <= 4 /\ 0 + 0 <= n
  OBVIOUS
<1> DEFINE e == <<>>
<1>8. /\ e \in Seq(Chars) /\ e \in Seq(Name) /\ Len(e) = 0 /\ Shows(e, e, FALSE) /\ Reserve(e) = 0
      /\ \A k \in 1..Len(e) : PlacedAt(e, e[k], stack[k])
  BY <1>1, <1>4, <1>5, <1>6
<1> HIDE DEF e
<1>9. Good(n, e, FALSE, 0, e, stack)
  BY <1>7, <1>8 DEF Good, StackSize
<1> QED
  BY <1>9 DEF e

LEMMA ResetSteady ==
  ASSUME NEW u, length \in Nat, NEW stack \in Stacks, u = [xmlInitWriter EXCEPT !.stack = stack]
  PROVE  Steady(length, u) /\ Bare(length, u)
<1>1. <<>> \in Seq(Chars) /\ <<>> \in Seq(Name) /\ Len(<<>>) = 0 /\ 0 \in 0..StackSize
  BY DEF StackSize
<1>2. Empty \in Points
  BY <1>1 DEF Empty, Point, Points, States
<1>3. /\ u \in Writers /\ u.text = <<>> /\ u.state = "initial" /\ u.stack = stack /\ u.depth = 0
      /\ u.space = 0 /\ u.rollback = Empty /\ u.ok = TRUE /\ u.names = <<>>
  BY <1>1, <1>2 DEF xmlInitWriter, Writers, States
<1>4. Good(length, <<>>, FALSE, 0, <<>>, stack)
  BY EmptyGood
<1>5. ("initial" = "opened") = FALSE
  OBVIOUS
<1>6. Good(length, u.text, u.state = "opened", u.space, u.names, u.stack)
  BY <1>3, <1>4, <1>5
<1>7. /\ Empty.text = <<>> /\ Empty.state = "initial" /\ Empty.depth = 0 /\ Empty.space = 0
      /\ Empty.names = <<>>
  BY DEF Empty, Point
<1>8. Good(length, Empty.text, Empty.state = "opened", Empty.space, Empty.names, u.stack)
  BY <1>3, <1>4, <1>5, <1>7
<1>9. Sound(length, u, u.stack) /\ Sound(length, u.rollback, u.stack)
  BY <1>1, <1>3, <1>6, <1>7, <1>8 DEF Sound, Counted
<1>10. Held(u) /\ Len(u.text) <= length /\ Len(u.rollback.names) <= Len(u.names)
  BY <1>1, <1>3, <1>7 DEF Held
<1> QED
  BY <1>3, <1>9, <1>10 DEF Steady, Recoverable, Ready, Bare

(***************************************************************************)
(* The Raw functions.                                                      *)
(***************************************************************************)
LEMMA OneChar ==
  ASSUME NEW c \in Chars
  PROVE  <<c>> \in Seq(Chars) /\ Len(<<c>>) = 1
OBVIOUS

LEMMA TwoChars ==
  ASSUME NEW c \in Chars, NEW d \in Chars
  PROVE  <<c, d>> \in Seq(Chars) /\ Len(<<c, d>>) = 2
OBVIOUS

LEMMA FixedChars ==
  " " \in Chars /\ "<" \in Chars /\ ">" \in Chars /\ "/" \in Chars /\ "=" \in Chars /\ "q" \in Chars
BY LettersAssumption

LEMMA RawTextsAreTexts ==
  RawTexts \cup Texts \subseteq Seq(Chars)
<1>1. \A s, r \in Seq(Chars) : s \o r \in Seq(Chars)
  OBVIOUS
<1>2. /\ <<"<">> \in Seq(Chars) /\ <<"<", "/">> \in Seq(Chars) /\ <<">">> \in Seq(Chars)
      /\ <<" ">> \in Seq(Chars) /\ <<"=">> \in Seq(Chars) /\ <<"q">> \in Seq(Chars)
      /\ xmlWriterRawCloseTag \in Seq(Chars)
  <2>1. \A c \in Chars : <<c>> \in Seq(Chars)
    OBVIOUS
  <2>2. <<"<", "/">> \in Seq(Chars)
    BY ONLY FixedChars, TwoChars
  <2>3. <<" ", "/", ">">> \in Seq(Chars)
    <3>1. \A c, d, e \in Chars : <<c, d, e>> \in Seq(Chars)
      OBVIOUS
    <3> QED
      BY ONLY <3>1, FixedChars
  <2>4. /\ <<"<">> \in Seq(Chars) /\ <<">">> \in Seq(Chars)
        /\ <<" ">> \in Seq(Chars) /\ <<"=">> \in Seq(Chars) /\ <<"q">> \in Seq(Chars)
    BY ONLY <2>1, FixedChars
  <2> QED
    BY <2>2, <2>3, <2>4 DEF xmlWriterRawCloseTag
<1>3. TagNames \subseteq Seq(Chars) /\ Texts \subseteq Seq(Chars)
      /\ \A a \in Attributes : a[1] \in Seq(Chars) /\ a[2] \in Seq(Chars)
  BY NamesAreLetters, NameIsText, ContentAssumption DEF Name
<1>4. ASSUME NEW n \in TagNames
      PROVE  /\ xmlWriterRawStartTag(n) \in Seq(Chars) /\ xmlWriterRawStartTagNoAttributes(n) \in Seq(Chars)
             /\ xmlWriterRawCloseTagName(n) \in Seq(Chars)
  BY <1>1, <1>2, <1>3 DEF xmlWriterRawStartTag, xmlWriterRawStartTagNoAttributes, xmlWriterRawCloseTagName
<1>5. ASSUME NEW a \in Attributes
      PROVE  xmlWriterRawWriteAttribute(a) \in Seq(Chars)
  BY <1>1, <1>2, <1>3 DEF xmlWriterRawWriteAttribute, Quoted
<1> QED
  BY <1>2, <1>3, <1>4, <1>5 DEF RawTexts

LEMMA AppendBare ==
  ASSUME NEW u, Bare(length, u), NEW s \in Seq(Chars), NEW nul \in Nat, length \in Nat
  PROVE  LET v == Append1(u, [text |-> s, nul |-> nul], length)
         IN /\ Bare(length, v)
            /\ u.ok /\ Len(u.text) + Len(s) + nul <= length =>
                 v.ok /\ v.text = u.text \o s /\ Len(v.text) = Len(u.text) + Len(s)
            /\ ~(u.ok /\ Len(u.text) + Len(s) + nul <= length) => ~v.ok /\ v.text = u.text
<1> DEFINE v == Append1(u, [text |-> s, nul |-> nul], length)
           t == u.text \o s
<1>1. u \in Writers /\ u.text \in Seq(Chars) /\ Len(u.text) \in Nat /\ Len(s) \in Nat
  BY WriterFields, LenNat DEF Bare
<1>2. t \in Seq(Chars) /\ Len(t) = Len(u.text) + Len(s)
  BY ONLY <1>1, s \in Seq(Chars), ConcatFacts
<1>3. CASE u.ok /\ Len(u.text) + Len(s) + nul <= length
  <2>1. v = [u EXCEPT !.text = t]
    BY <1>3 DEF Append1
  <2>2. Len(t) <= length
    <3>1. Len(u.text) + Len(s) + nul <= length
      BY <1>3
    <3> QED
      BY ONLY <1>1, <1>2, <3>1, nul \in Nat, length \in Nat
  <2> HIDE DEF t, v
  <2>3. /\ v \in Writers /\ v.text = t /\ v.state = u.state /\ v.depth = u.depth
        /\ v.space = u.space /\ v.rollback = u.rollback /\ v.ok = u.ok
    BY <1>1, <1>2, <2>1 DEF Writers
  <2>4. Bare(length, v)
    BY <2>2, <2>3 DEF Bare
  <2> QED
    BY <1>2, <1>3, <2>3, <2>4 DEF t, v
<1>4. CASE ~(u.ok /\ Len(u.text) + Len(s) + nul <= length)
  <2>1. v = [u EXCEPT !.ok = FALSE]
    BY <1>4 DEF Append1, Failed
  <2> HIDE DEF v
  <2>2. /\ v \in Writers /\ v.text = u.text /\ v.state = u.state /\ v.depth = u.depth
        /\ v.space = u.space /\ v.rollback = u.rollback /\ v.ok = FALSE
    BY <1>1, <2>1 DEF Writers
  <2>3. Bare(length, v)
    BY <2>2 DEF Bare
  <2> QED
    BY <1>4, <2>2, <2>3 DEF v
<1> QED
  BY <1>3, <1>4

LEMMA AppendFits ==
  ASSUME NEW u, Bare(length, u), u.ok, NEW s \in Seq(Chars), NEW nul \in Nat, length \in Nat,
         Len(u.text) + Len(s) + nul <= length
  PROVE  /\ Bare(length, Append1(u, [text |-> s, nul |-> nul], length))
         /\ Append1(u, [text |-> s, nul |-> nul], length).text = u.text \o s
         /\ Len(Append1(u, [text |-> s, nul |-> nul], length).text) = Len(u.text) + Len(s)
BY AppendBare

LEMMA AppendFails ==
  ASSUME NEW u, Bare(length, u), NEW s \in Seq(Chars), NEW nul \in Nat, length \in Nat,
         ~(Len(u.text) + Len(s) + nul <= length)
  PROVE  /\ Bare(length, Append1(u, [text |-> s, nul |-> nul], length))
         /\ Append1(u, [text |-> s, nul |-> nul], length).text = u.text
BY AppendBare

LEMMA FreshBare ==
  ASSUME NEW u, Bare(length, u)
  PROVE  LET v == [u EXCEPT !.ok = TRUE] IN Bare(length, v) /\ v.ok /\ v.text = u.text
BY DEF Bare, Writers

\* The quote at the end of the value.
Quotes(n, u) == u.ok /\ Len(u.text) # n - 1 => u.text # <<>> /\ Last(u.text) = "q"

LEMMA RawValueBare ==
  ASSUME NEW u, Bare(length, u), u.ok, NEW a \in Attributes, length \in Nat
  PROVE  LET v == xmlWriterRawWriteAttributeValueFromBuffer(u, a)
         IN Bare(length, v) /\ Quotes(length, v)
<1> DEFINE s == <<" ">> \o a[1] \o <<"=", "q">>
           x == Append1(u, [text |-> s, nul |-> 1], length)
           x1 == [x EXCEPT !.ok = TRUE]
           y == Append1(x1, [text |-> a[2], nul |-> 0], length)
           y1 == [y EXCEPT !.ok = TRUE]
           z == Append1(y1, [text |-> <<"q">>, nul |-> 1], length)
           v == [z EXCEPT !.ok = TRUE]
<1>1. xmlWriterRawWriteAttributeValueFromBuffer(u, a) = IF RawValueFits(u, a) THEN v ELSE Failed(u)
  BY DEF xmlWriterRawWriteAttributeValueFromBuffer, xmlWriterRawWrite,
         xmlWriterRawWriteFromBuffer, Format, Copy
<1>2. /\ s \in Seq(Chars) /\ Len(s) = Len(a[1]) + 3 /\ a[2] \in Seq(Chars) /\ <<"q">> \in Seq(Chars)
      /\ Len(<<"q">>) = 1 /\ Len(a[1]) \in Nat /\ Len(a[2]) \in Nat
  <2>1. a[1] \in Seq(Chars) /\ a[2] \in Seq(Chars)
    BY CleanPieces DEF Clean
  <2>2. Len(a[1]) \in Nat /\ Len(a[2]) \in Nat
    BY <2>1, LenNat
  <2> DEFINE p == <<" ">>
             q == <<"=", "q">>
             r == p \o a[1]
  <2>3. p \in Seq(Chars) /\ Len(p) = 1
    BY ONLY FixedChars, OneChar
  <2>4. q \in Seq(Chars) /\ Len(q) = 2
    BY ONLY FixedChars, TwoChars
  <2> HIDE DEF p, q
  <2>5. r \in Seq(Chars) /\ Len(r) = 1 + Len(a[1])
    <3>1. r \in Seq(Chars) /\ Len(r) = Len(p) + Len(a[1])
      BY ONLY <2>1, <2>3, ConcatFacts
    <3> QED
      BY <2>3, <3>1
  <2> HIDE DEF r
  <2>6. r \o q \in Seq(Chars) /\ Len(r \o q) = Len(r) + Len(q)
    BY ONLY <2>4, <2>5, ConcatFacts
  <2>7. Len(r \o q) = Len(a[1]) + 3
    BY ONLY <2>2, <2>4, <2>5, <2>6
  <2>8. <<"q">> \in Seq(Chars) /\ Len(<<"q">>) = 1
    BY ONLY FixedChars, OneChar
  <2> QED
    BY <2>1, <2>2, <2>6, <2>7, <2>8 DEF r, p, q
<1>3. Len(u.text) \in Nat
  BY WriterFields DEF Bare
<1> HIDE DEF s
<1>4. CASE ~RawValueFits(u, a)
  <2> DEFINE g == Failed(u)
  <2>1. g \in Writers /\ g.ok = FALSE /\ Bare(length, g)
    BY DEF Bare, Failed, Writers
  <2> QED
    BY <1>1, <1>4, <2>1 DEF Quotes
<1>5. CASE RawValueFits(u, a)
  <2> DEFINE l == Len(u.text)
             m == Len(a[1])
             k == Len(a[2])
  <2>1. l + m + k + 4 <= length /\ l \in Nat /\ m \in Nat /\ k \in Nat
    BY <1>2, <1>3, <1>5 DEF RawValueFits
  <2>2. l + (m + 3) + 1 <= length /\ l + (m + 3) + k + 0 <= length
    <3>1. \A i, j, h, n \in Nat :
            i + j + h + 4 <= n => i + (j + 3) + 1 <= n /\ i + (j + 3) + h + 0 <= n
      OBVIOUS
    <3> QED
      BY ONLY <2>1, <3>1, length \in Nat
  <2> HIDE DEF l, m, k
  <2>3. Bare(length, x) /\ Len(x.text) = l + (m + 3)
    <3>1. l = Len(u.text) /\ m = Len(a[1]) /\ Len(s) = m + 3
      BY <1>2 DEF l, m
    <3>2. Len(u.text) + Len(s) + 1 <= length /\ s \in Seq(Chars) /\ 1 \in Nat
      BY <1>2, <2>2, <3>1
    <3> QED
      BY <3>1, <3>2, AppendFits
  <2> HIDE DEF x
  <2>4. Bare(length, x1) /\ x1.ok /\ x1.text = x.text
    BY <2>3, FreshBare
  <2> HIDE DEF x1
  <2>5. Bare(length, y) /\ Len(y.text) = l + (m + 3) + k
    <3>1. Len(x1.text) = l + (m + 3) /\ Len(a[2]) = k /\ a[2] \in Seq(Chars) /\ 0 \in Nat
      BY <1>2, <2>3, <2>4 DEF k
    <3>2. Len(x1.text) + Len(a[2]) + 0 <= length
      BY <2>2, <3>1
    <3>3. /\ Bare(length, Append1(x1, [text |-> a[2], nul |-> 0], length))
          /\ Len(Append1(x1, [text |-> a[2], nul |-> 0], length).text) = Len(x1.text) + Len(a[2])
      BY ONLY <2>4, <3>1, <3>2, length \in Nat, AppendFits
    <3> QED
      BY <3>1, <3>3
  <2> HIDE DEF y
  <2>6. Bare(length, y1) /\ y1.ok /\ y1.text = y.text
    BY <2>5, FreshBare
  <2> HIDE DEF y1
  <2>7. /\ Bare(length, z)
        /\ Len(y.text) + 1 + 1 <= length => z.text = y.text \o <<"q">>
        /\ ~(Len(y.text) + 1 + 1 <= length) => z.text = y.text
    <3>1. <<"q">> \in Seq(Chars) /\ Len(<<"q">>) = 1 /\ 1 \in Nat
      BY <1>2
    <3> DEFINE e == <<"q">>
    <3>2. e \in Seq(Chars) /\ Len(e) = 1
      BY <3>1
    <3> HIDE DEF e
    <3>3. CASE Len(y.text) + 1 + 1 <= length
      <4>1. Len(y1.text) + Len(e) + 1 <= length
        BY <2>6, <3>2, <3>3
      <4>2. Bare(length, Append1(y1, [text |-> e, nul |-> 1], length))
            /\ Append1(y1, [text |-> e, nul |-> 1], length).text = y1.text \o e
        BY <2>6, <3>1, <3>2, <4>1, AppendFits
      <4> QED
        BY <2>6, <3>3, <4>2 DEF e
    <3>4. CASE ~(Len(y.text) + 1 + 1 <= length)
      <4>1. ~(Len(y1.text) + Len(e) + 1 <= length)
        BY <2>6, <3>2, <3>4
      <4>2. Bare(length, Append1(y1, [text |-> e, nul |-> 1], length))
            /\ Append1(y1, [text |-> e, nul |-> 1], length).text = y1.text
        BY <2>6, <3>1, <3>2, <4>1, AppendFails
      <4> QED
        BY <2>6, <3>4, <4>2 DEF e
    <3> QED
      BY <3>3, <3>4
  <2> HIDE DEF z
  <2>8. Bare(length, v) /\ v.ok /\ v.text = z.text
    BY <2>7, FreshBare
  <2> HIDE DEF v
  <2>9. CASE Len(y.text) + 1 + 1 <= length
    <3>1. y.text \in Seq(Chars) /\ "q" \in Chars /\ Len(y.text) \in Nat
      BY <2>5, WriterFields, LettersAssumption DEF Bare
    <3>2. y.text \o <<"q">> = Append(y.text, "q")
      BY ONLY <3>1
    <3> DEFINE e == Append(y.text, "q")
    <3>3. e \in Seq(Chars) /\ Len(e) = Len(y.text) + 1 /\ e[Len(y.text) + 1] = "q"
      BY ONLY <3>1, AppendFacts
    <3> HIDE DEF e
    <3>4. Last(e) = "q"
      BY <3>3 DEF Last
    <3>5. e # <<>>
      <4>1. Len(e) # 0 /\ Len(<<>>) = 0
        BY <3>1, <3>3
      <4> QED
        BY ONLY <4>1
    <3>6. v.text = e
      BY <2>7, <2>8, <2>9, <3>2 DEF e
    <3> QED
      BY <1>1, <1>5, <2>8, <3>4, <3>5, <3>6 DEF Quotes
  <2>10. CASE ~(Len(y.text) + 1 + 1 <= length)
    <3>1. Len(y.text) = length - 1
      <4>1. Len(y.text) = l + (m + 3) + k
        BY <2>5
      <4>2. \A i, j, h, n \in Nat :
              i + j + h + 4 <= n /\ ~(i + (j + 3) + h + 1 + 1 <= n) => i + (j + 3) + h = n - 1
        OBVIOUS
      <4>3. ~(l + (m + 3) + k + 1 + 1 <= length)
        BY <2>10, <4>1
      <4> QED
        BY ONLY <2>1, <4>1, <4>2, <4>3, length \in Nat
    <3>2. Len(v.text) = length - 1
      BY <2>7, <2>8, <2>10, <3>1
    <3> QED
      BY <1>1, <1>5, <2>8, <3>2 DEF Quotes
  <2> QED
    BY <2>9, <2>10
<1> QED
  BY <1>4, <1>5

-----------------------------------------------------------------------------
(***************************************************************************)
(* The steps.                                                              *)
(***************************************************************************)
LEMMA InitInvariant ==
  Init => IInv
<1> SUFFICES ASSUME Init PROVE IInv
  OBVIOUS
<1>1. client \in {"tags", "raw"} /\ length \in Lengths[client] /\ length \in Nat
  BY LengthsAssumption DEF Init
<1>2. xmlInitWriter.stack \in Stacks /\ xmlInitWriter = [xmlInitWriter EXCEPT !.stack = xmlInitWriter.stack]
  BY DEF xmlInitWriter, Stacks
<1>3. Steady(length, xmlInitWriter) /\ Bare(length, xmlInitWriter)
  BY <1>1, <1>2, ResetSteady
<1> QED
  BY <1>1, <1>3 DEF Init, IInv

LEMMA CalledInvariant ==
  ASSUME IInv, NEW c, NEW u, Called(c, u),
         client = "tags" => Steady(length, u), client = "raw" => Bare(length, u)
  PROVE  IInv'
<1>1. w' = u /\ client' = client /\ length' = length
  BY DEF Called
<1> QED
  BY <1>1 DEF IInv

LEMMA TagsSteady ==
  ASSUME IInv, Tags
  PROVE  Steady(length, w) /\ w.ok /\ client = "tags" /\ client # "raw"
BY DEF IInv, Tags

LEMMA TagNamesAreNames ==
  TagNames \subseteq Name
BY NamesAreLetters DEF Name

LEMMA StepInvariant ==
  IInv /\ [Next]_vars => IInv'
<1> SUFFICES ASSUME IInv, [Next]_vars PROVE IInv'
  OBVIOUS
<1>1. CASE StartTag
  <2>1. PICK n \in TagNames : Called("start", xmlWriterStartTag(w, n))
    BY <1>1 DEF StartTag
  <2>2. Tags /\ w.depth < StackSize /\ n \in Name
    BY <1>1, TagNamesAreNames DEF StartTag
  <2>3. Steady(length, xmlWriterStartTag(w, n))
    BY <2>2, TagsSteady, StartTagSteady
  <2> QED
    BY <2>1, <2>2, <2>3, TagsSteady, CalledInvariant
<1>2. CASE StartChildTag
  <2>1. PICK n \in TagNames : Called("child", xmlWriterStartChildTag(w, n))
    BY <1>2 DEF StartChildTag
  <2>2. Tags /\ n \in Name
    BY <1>2, TagNamesAreNames DEF StartChildTag
  <2>3. Steady(length, xmlWriterStartChildTag(w, n))
    BY <2>2, TagsSteady, StartChildTagSteady
  <2> QED
    BY <2>1, <2>2, <2>3, TagsSteady, CalledInvariant
<1>3. CASE CloseTag
  <2>1. Tags /\ Called("close", xmlWriterCloseTag(w))
    BY <1>3 DEF CloseTag
  <2>2. Steady(length, xmlWriterCloseTag(w))
    <3>1. CASE w.depth = 0
      BY <2>1, <3>1, TagsSteady, FailedSteady DEF xmlWriterCloseTag, Steady
    <3>2. CASE w.depth # 0
      <4>1. w.depth > 0
        BY <2>1, <3>2, TagsSteady DEF Steady, Recoverable, Writers, StackSize
      <4> QED
        BY <2>1, <4>1, TagsSteady, CloseTagSteady
    <3> QED
      BY <3>1, <3>2
  <2> QED
    BY <2>1, <2>2, TagsSteady, CalledInvariant
<1>4. CASE Finalize
  <2>1. Tags /\ Called("finalize", xmlWriterFinalize(w))
    BY <1>4 DEF Finalize
  <2>2. Steady(length, xmlWriterFinalize(w))
    BY <2>1, TagsSteady, FinalizeSteady
  <2> QED
    BY <2>1, <2>2, TagsSteady, CalledInvariant
<1>5. CASE WriteAttribute
  <2>1. PICK a \in Attributes :
          \/ Called("attribute", xmlWriterWriteAttribute(w, a))
          \/ Called("attribute", xmlWriterWriteAttributeValueFromBuffer(w, a))
          \/ \E b \in Attributes, known \in BOOLEAN :
               Called("attribute", xmlWriterWriteMultipleAttributes(w, a, b, known))
    BY <1>5 DEF WriteAttribute
  <2>2. Tags
    BY <1>5 DEF WriteAttribute
  <2>3. ASSUME NEW b \in Attributes, NEW known \in BOOLEAN
        PROVE  /\ Steady(length, xmlWriterWriteAttribute(w, a))
               /\ Steady(length, xmlWriterWriteAttributeValueFromBuffer(w, a))
               /\ Steady(length, xmlWriterWriteMultipleAttributes(w, a, b, known))
    BY <2>2, TagsSteady, AttributeSteady
  <2>4. CASE Called("attribute", xmlWriterWriteAttribute(w, a))
    BY <2>2, <2>3, <2>4, TagsSteady, CalledInvariant
  <2>5. CASE Called("attribute", xmlWriterWriteAttributeValueFromBuffer(w, a))
    BY <2>2, <2>3, <2>5, TagsSteady, CalledInvariant
  <2>6. CASE \E b \in Attributes, known \in BOOLEAN :
               Called("attribute", xmlWriterWriteMultipleAttributes(w, a, b, known))
    BY <2>2, <2>3, <2>6, TagsSteady, CalledInvariant
  <2> QED
    BY <2>1, <2>4, <2>5, <2>6
<1>6. CASE WriteText
  <2>1. PICK t \in Texts : \/ Called("text", xmlWriterWriteText(w, t))
                           \/ Called("text", xmlWriterWriteTextFromBuffer(w, t))
    BY <1>6 DEF WriteText
  <2>2. Tags
    BY <1>6 DEF WriteText
  <2>3. Steady(length, xmlWriterWriteText(w, t))
    BY <2>2, TagsSteady, TextSteady DEF xmlWriterWriteText, Format
  <2>4. Steady(length, xmlWriterWriteTextFromBuffer(w, t))
    BY <2>2, TagsSteady, TextSteady DEF xmlWriterWriteTextFromBuffer, Copy
  <2> QED
    BY <2>1, <2>2, <2>3, <2>4, TagsSteady, CalledInvariant
<1>7. CASE Rollback
  <2>1. client = "tags" /\ Called("rollback", xmlWriterRollback(w))
    BY <1>7 DEF Rollback
  <2>2. Steady(length, w) /\ client # "raw"
    BY <2>1 DEF IInv
  <2>3. Steady(length, xmlWriterRollback(w))
    BY <2>2, RollbackSteady
  <2> QED
    BY <2>1, <2>2, <2>3, CalledInvariant
<1>8. CASE Reset
  <2>1. Called("reset", xmlWriterReset(w))
    BY <1>8 DEF Reset
  <2>2. w.stack \in Stacks /\ length \in Nat
    BY DEF IInv, Steady, Recoverable, Bare, Writers
  <2>3. Steady(length, xmlWriterReset(w)) /\ Bare(length, xmlWriterReset(w))
    BY <2>2, ResetSteady DEF xmlWriterReset
  <2> QED
    BY <2>1, <2>3, CalledInvariant
<1>9. CASE RawWrite
  <2>1. client = "raw" /\ client # "tags" /\ Bare(length, w) /\ length \in Nat
    BY <1>9 DEF RawWrite, IInv
  <2>2. Bare(length, Fresh)
    BY <2>1, FreshBare DEF Fresh
  <2>3. ASSUME NEW t \in RawTexts
        PROVE  Bare(length, xmlWriterRawWrite(Fresh, t))
    <3>1. t \in Seq(Chars) /\ 1 \in Nat
      BY RawTextsAreTexts
    <3> QED
      BY <2>1, <2>2, <3>1, AppendBare DEF xmlWriterRawWrite, Format
  <2>4. ASSUME NEW t \in Texts
        PROVE  Bare(length, xmlWriterRawWriteFromBuffer(Fresh, t))
    <3>1. t \in Seq(Chars) /\ 0 \in Nat
      BY RawTextsAreTexts
    <3> QED
      BY <2>1, <2>2, <3>1, AppendBare DEF xmlWriterRawWriteFromBuffer, Copy
  <2>5. \/ \E t \in RawTexts : Called("raw", xmlWriterRawWrite(Fresh, t))
        \/ \E t \in Texts : Called("raw", xmlWriterRawWriteFromBuffer(Fresh, t))
    BY <1>9 DEF RawWrite
  <2> QED
    BY <2>1, <2>3, <2>4, <2>5, CalledInvariant
<1>10. CASE RawWriteAttributeValueFromBuffer
  <2>1. client = "raw" /\ client # "tags" /\ Bare(length, w) /\ length \in Nat
    BY <1>10 DEF RawWriteAttributeValueFromBuffer, IInv
  <2>2. PICK a \in Attributes :
          Called("rawvalue", xmlWriterRawWriteAttributeValueFromBuffer(Fresh, a))
    BY <1>10 DEF RawWriteAttributeValueFromBuffer
  <2>3. Bare(length, Fresh) /\ Fresh.ok
    BY <2>1, FreshBare DEF Fresh
  <2>4. Bare(length, xmlWriterRawWriteAttributeValueFromBuffer(Fresh, a))
    BY <2>1, <2>3, RawValueBare
  <2> QED
    BY <2>1, <2>2, <2>4, CalledInvariant
<1>11. CASE UNCHANGED vars
  BY <1>11 DEF IInv, vars
<1> QED
  BY <1>1, <1>2, <1>3, <1>4, <1>5, <1>6, <1>7, <1>8, <1>9, <1>10, <1>11 DEF Next

LEMMA Invariant ==
  Spec => []IInv
BY InitInvariant, StepInvariant, PTL DEF Spec

(***************************************************************************)
(* What the invariant says of a state.                                     *)
(***************************************************************************)
LEMMA InvariantType ==
  IInv => TypeOK
<1> SUFFICES ASSUME IInv PROVE TypeOK
  OBVIOUS
<1>1. client \in {"tags", "raw"} /\ length \in Lengths[client] /\ length \in Nat
  BY DEF IInv
<1>2. CASE client = "tags"
  <2>1. Steady(length, w)
    BY <1>2 DEF IInv
  <2>2. w \in Writers /\ Len(w.text) <= length /\ Held(w) /\ Sound(length, w.rollback, w.stack)
    BY <2>1 DEF Steady, Recoverable
  <2>3. Len(w.rollback.text) <= length
    BY <2>2, GoodFits DEF Sound
  <2>4. w.ok => Len(w.text) + w.space <= length
    BY <2>1, GoodFits DEF Steady, Ready, Sound
  <2> QED
    BY <1>1, <2>2, <2>3, <2>4, WriterFields DEF TypeOK, Held, States
<1>3. CASE client = "raw"
  <2>1. /\ w \in Writers /\ Len(w.text) <= length /\ w.depth = 0 /\ w.space = 0
        /\ w.rollback = Empty
    BY <1>3 DEF IInv, Bare
  <2>2. Len(w.text) \in Nat /\ w.state \in States /\ w.ok \in BOOLEAN
    BY <2>1, WriterFields
  <2>3. Len(w.rollback.text) <= length
    BY <1>1, <2>1 DEF Empty, Point
  <2>4. Len(w.text) + w.space <= length
    BY <2>1, <2>2
  <2>5. \A k \in 1..w.depth : FALSE
    BY <2>1
  <2> QED
    BY <1>1, <2>1, <2>2, <2>3, <2>4, <2>5 DEF TypeOK, States, StackSize
<1> QED
  BY <1>1, <1>2, <1>3

LEMMA SteadyReads ==
  ASSUME NEW n, NEW u, Steady(n, u), u.ok
  PROVE  /\ Read(u.text).in # "wrong" /\ OpenIn(u.text) = u.names /\ Len(u.names) = u.depth
         /\ u.depth = 0 => Whole(u.text)
<1>1. Good(n, u.text, u.state = "opened", u.space, u.names, u.stack) /\ Counted(u)
  BY DEF Steady, Ready, Sound
<1>2. Shows(u.text, u.names, u.state = "opened") /\ u.names \in Seq(Name)
  BY <1>1 DEF Good
<1>3. CASE u.state = "opened"
  <2>1. Shows(u.text, u.names, TRUE)
    <3>1. (u.state = "opened") = TRUE
      BY <1>3
    <3> QED
      BY <1>2, <3>1
  <2>2. Read(u.text).in # "wrong" /\ OpenIn(u.text) = u.names /\ u.names # <<>>
    BY <2>1 DEF Shows, OpenIn
  <2>3. u.depth # 0
    BY <1>1, <1>2, <2>2, LenNat DEF Counted
  <2> QED
    BY <1>1, <2>2, <2>3 DEF Counted
<1>4. CASE u.state # "opened"
  <2>1. Shows(u.text, u.names, FALSE)
    <3>1. (u.state = "opened") = FALSE
      BY <1>4
    <3> QED
      BY <1>2, <3>1
  <2>2. Read(u.text).in = "text" /\ Read(u.text).open = u.names
    BY <2>1 DEF Shows
  <2>3. OpenIn(u.text) = u.names
    BY <2>2 DEF OpenIn
  <2>4. u.depth = 0 => u.names = <<>>
    <3>1. u.depth = Len(u.names)
      BY <1>1 DEF Counted
    <3>2. u.names \in Seq(Name)
      BY <1>2
    <3>3. u.names # <<>> => 0 < Len(u.names)
      BY ONLY <3>2, LenNat
    <3>4. ASSUME u.depth = 0, u.names # <<>>
          PROVE  FALSE
      BY ONLY <3>1, <3>3, <3>4
    <3> QED
      BY <3>4
  <2> QED
    BY <1>1, <2>2, <2>3, <2>4 DEF Counted, Whole
<1> QED
  BY <1>3, <1>4

LEMMA InvariantReads ==
  IInv => TextMatches
<1> SUFFICES ASSUME IInv, client = "tags", w.ok
    PROVE  /\ Read(w.text).in # "wrong" /\ OpenIn(w.text) = w.names /\ Len(w.names) = w.depth
  BY DEF TextMatches
<1>1. Steady(length, w)
  BY DEF IInv
<1> QED
  BY <1>1, SteadyReads

LEMMA InvariantCloses ==
  IInv => Closable
<1> DEFINE x == IF w.ok THEN w ELSE xmlWriterRollback(w)
           u == xmlWriterFinalize(x)
<1> SUFFICES ASSUME IInv, client = "tags"
    PROVE  u.ok /\ Whole(u.text) /\ Len(u.text) <= length
  BY DEF Closable
<1>1. Steady(length, w)
  BY DEF IInv
<1>2. Steady(length, x) /\ x.ok
  BY <1>1, RollbackSteady
<1> HIDE DEF x
<1>3. Steady(length, u) /\ u.ok /\ u.depth = 0
  BY <1>2, FinalizeSteady
<1> HIDE DEF u
<1>4. Whole(u.text) /\ Len(u.text) <= length
  BY <1>3, SteadyReads DEF Steady, Recoverable
<1> QED
  BY <1>3, <1>4

(***************************************************************************)
(* Nothing is written past the end of the buffer and, unless the last call *)
(* failed, the room kept for the closing tags is there (xml_parser.c       *)
(* compares what it adds with length - space).                             *)
(***************************************************************************)
THEOREM TypeCorrect ==
  Spec => []TypeOK
BY Invariant, InvariantType, PTL

(***************************************************************************)
(* The text always reads as the tags that were opened and not closed, and  *)
(* each end tag has the name of its start tag: what xmlWriterCloseTag      *)
(* copies out of the text at the place on the stack is that name.          *)
(***************************************************************************)
THEOREM TextReads ==
  Spec => []TextMatches
BY Invariant, InvariantReads, PTL

(***************************************************************************)
(* xmlWriterFinalize always finds the room to close all that is open,      *)
(* after a rollback too, and what it leaves is a whole document.           *)
(***************************************************************************)
THEOREM AlwaysClosable ==
  Spec => []Closable
BY Invariant, InvariantCloses, PTL

(***************************************************************************)
(* The value that xmlWriterRawWriteAttributeValueFromBuffer has written    *)
(* ends in its quote, but for the one case that RawValueEnds leaves out.   *)
(***************************************************************************)
THEOREM RawValuesEnd ==
  Spec => []RawValueEnds
<1>1. Init => RawValueEnds
  BY DEF Init, RawValueEnds
<1>2. IInv /\ RawValueEnds /\ [Next]_vars => RawValueEnds'
  <2> SUFFICES ASSUME IInv, RawValueEnds, [Next]_vars PROVE RawValueEnds'
    OBVIOUS
  <2>1. CASE RawWriteAttributeValueFromBuffer
    <3>1. client = "raw" /\ Bare(length, w) /\ length \in Nat
      BY <2>1 DEF RawWriteAttributeValueFromBuffer, IInv
    <3>2. PICK a \in Attributes :
            Called("rawvalue", xmlWriterRawWriteAttributeValueFromBuffer(Fresh, a))
      BY <2>1 DEF RawWriteAttributeValueFromBuffer
    <3>3. Bare(length, Fresh) /\ Fresh.ok
      BY <3>1, FreshBare DEF Fresh
    <3>4. Quotes(length, xmlWriterRawWriteAttributeValueFromBuffer(Fresh, a))
      BY <3>1, <3>3, RawValueBare
    <3>5. w' = xmlWriterRawWriteAttributeValueFromBuffer(Fresh, a) /\ length' = length
      BY <3>2 DEF Called
    <3> QED
      BY <3>4, <3>5 DEF Quotes, RawValueEnds
  <2>2. CASE UNCHANGED vars
    BY <2>2 DEF vars, RawValueEnds
  <2>3. CASE Next /\ ~RawWriteAttributeValueFromBuffer
    <3>1. call' # "rawvalue"
      BY <2>3 DEF Next, StartTag, StartChildTag, CloseTag, Finalize, WriteAttribute, WriteText,
                  Rollback, Reset, RawWrite, Called
    <3> QED
      BY <3>1 DEF RawValueEnds
  <2> QED
    BY <2>1, <2>2, <2>3
<1> QED
  BY <1>1, <1>2, Invariant, PTL DEF Spec
================================================================================
