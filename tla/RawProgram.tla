------------------------------ MODULE RawProgram ------------------------------
(***************************************************************************)
(* The <program> loop of main (flash.c) and the two functions of           *)
(* firehose.c that read the attributes of a line of rawprogram0.xml, with  *)
(* the evaluator for the numbers among them.                               *)
(*                                                                         *)
(* The loop takes lines, not elements.  program is declared in the loop    *)
(* and never initialized, and so is slk: a field that the line does not    *)
(* give is what the line before left there, or anything.                   *)
(***************************************************************************)
EXTENDS Evaluator

CONSTANTS Files,       \* contents of rawprogram0.xml: sequences of lines
          Present,     \* names of files that can be opened
          TooLong,     \* values of 256 characters and more
          SimlockOptions,
          Garbage      \* what an uninitialized field holds

ASSUME GarbageIsNoValue == Garbage \notin Int \union BOOLEAN

\* A line is whether "<program" is in it and its attributes; the value of an
\* attribute is a sequence of characters, or of words.
Line == [isProgram : BOOLEAN, attributes : Seq([name : STRING, value : Seq(STRING)])]

ASSUME FilesAreText == Files \subseteq Seq(Line)

NumberFields == {"SECTOR_SIZE_IN_BYTES", "file_sector_offset", "num_partition_sectors",
                 "physical_partition_number", "start_sector"}
NameFields == {"filename", "label"}
Fields == NumberFields \union NameFields \union {"sparse"}

VARIABLES lines,    \* the file
          option,   \* simlock of the command line
          l, a,     \* current line and attribute
          at,       \* "line", "attribute", "number", "end" or "exit"
          pass,     \* whether program or slk is being filled
          program, slk,
          writes    \* history: the calls of the three process_..._file

loopVars == <<lines, option, l, a, at, pass, program, slk, writes>>
vars == <<evaluatorVars, lines, option, l, a, at, pass, program, slk, writes>>

Unset == [f \in Fields |-> Garbage]

Init ==
    /\ EvaluatorInit
    /\ lines \in Files /\ option \in SimlockOptions
    /\ l = 1 /\ a = 1 /\ at = "line" /\ pass = "program"
    /\ program = Unset /\ slk = Unset
    /\ writes = <<>>

Attribute == lines[l].attributes[a]
MoreAttributes == at = "attribute" /\ a <= Len(lines[l].attributes)

\* The stack below a line's variables is not used by others, or it is.
StartLine ==
    /\ at = "line" /\ l <= Len(lines)
    /\ IF lines[l].isProgram
       THEN /\ at' = "attribute" /\ a' = 1 /\ pass' = "program"
            /\ program' \in {program, Unset}
            /\ UNCHANGED l
       ELSE l' = l + 1 /\ UNCHANGED <<a, at, pass, program>>
    /\ UNCHANGED <<lines, option, slk, writes, evaluatorVars>>

EndOfFile ==
    /\ at = "line" /\ l > Len(lines)
    /\ at' = "end"
    /\ UNCHANGED <<lines, option, l, a, pass, program, slk, writes, evaluatorVars>>

\* The field of program or of slk, whichever is being filled.
Store(field, value) ==
    IF pass = "program"
    THEN program' = [program EXCEPT ![field] = value] /\ UNCHANGED slk
    ELSE slk' = [slk EXCEPT ![field] = value] /\ UNCHANGED program

\* A value that does not fit is not copied; tempbuf is then empty.
ReadNumber ==
    /\ MoreAttributes /\ Attribute.name \in NumberFields
    /\ at' = "number"
    /\ Call(IF Attribute.value \in TooLong THEN <<>> ELSE Attribute.value)
    /\ UNCHANGED <<lines, option, l, a, pass, program, slk, writes>>

Evaluate == at = "number" /\ EvaluatorStep /\ UNCHANGED loopVars

\* Mutant of StoreNumber: the same attribute comes again.
StoreNumberAgain ==
    /\ at = "number" /\ pc = "done"
    /\ Store(Attribute.name, result)
    /\ at' = "attribute"
    /\ UNCHANGED <<lines, option, l, a, pass, writes, evaluatorVars>>

StoreNumber ==
    /\ at = "number" /\ pc = "done"
    /\ Store(Attribute.name, result)
    /\ at' = "attribute" /\ a' = a + 1
    /\ UNCHANGED <<lines, option, l, pass, writes, evaluatorVars>>

\* xerror, or undefined behaviour or a signal.
EvaluatorFails ==
    /\ at = "number" /\ pc \in Ended \ {"idle", "done"}
    /\ at' = "exit"
    /\ UNCHANGED <<lines, option, l, a, pass, program, slk, writes, evaluatorVars>>

ReadName ==
    /\ MoreAttributes /\ Attribute.name \in NameFields
    /\ IF Attribute.value \in TooLong
       THEN UNCHANGED <<program, slk>>
       ELSE Store(Attribute.name, Attribute.value)
    /\ a' = a + 1
    /\ UNCHANGED <<lines, option, l, at, pass, writes, evaluatorVars>>

\* Mutant of ReadSparse: only "true" is looked at.
ReadSparseTrueOnly ==
    /\ MoreAttributes /\ Attribute.name = "sparse"
    /\ IF Attribute.value = <<"true">>
       THEN Store("sparse", TRUE)
       ELSE UNCHANGED <<program, slk>>
    /\ a' = a + 1
    /\ UNCHANGED <<lines, option, l, at, pass, writes, evaluatorVars>>

ReadSparse ==
    /\ MoreAttributes /\ Attribute.name = "sparse"
    /\ IF Attribute.value \in {<<"true">>, <<"false">>}
       THEN Store("sparse", Attribute.value = <<"true">>)
       ELSE UNCHANGED <<program, slk>>
    /\ a' = a + 1
    /\ UNCHANGED <<lines, option, l, at, pass, writes, evaluatorVars>>

IgnoreAttribute ==
    /\ MoreAttributes /\ Attribute.name \notin Fields
    /\ a' = a + 1
    /\ UNCHANGED <<lines, option, l, at, pass, program, slk, writes, evaluatorVars>>

AttributesRead == at = "attribute" /\ a > Len(lines[l].attributes)

ByteOffset(p) ==
    IF Garbage \in {p["file_sector_offset"], p["SECTOR_SIZE_IN_BYTES"]}
    THEN Garbage
    ELSE (p["file_sector_offset"] * p["SECTOR_SIZE_IN_BYTES"]) % WordSize

\* No file name, or no such file: nothing to program.
SkipLine ==
    /\ AttributesRead /\ pass = "program"
    /\ program["filename"] \notin Present
    /\ l' = l + 1 /\ at' = "line"
    /\ UNCHANGED <<lines, option, a, pass, program, slk, writes, evaluatorVars>>

ViaSimlock ==
    program["label"] = <<"simlock">> /\ option \in {"simlock", ""}

\* The same line is read again, into slk.
OpenSimlock ==
    /\ AttributesRead /\ pass = "program"
    /\ program["filename"] \in Present /\ ViaSimlock
    /\ pass' = "simlock" /\ a' = 1 /\ slk' = Unset
    /\ UNCHANGED <<lines, option, l, at, program, writes, evaluatorVars>>

\* What is written, from where in the file and to where.
Order(via, p) ==
    [via |-> via, line |-> l, file |-> program["filename"], offset |-> ByteOffset(program),
     start |-> p["start_sector"], sectors |-> p["num_partition_sectors"],
     size |-> p["SECTOR_SIZE_IN_BYTES"], lun |-> p["physical_partition_number"]]

\* The answer is not looked at: the next line follows in any case.
WriteImage ==
    /\ AttributesRead /\ pass = "program"
    /\ program["filename"] \in Present /\ ~ViaSimlock
    /\ \E via \in {"sparse", "general"} :
         /\ program["sparse"] # Garbage => (via = "sparse") = program["sparse"]
         /\ writes' = Append(writes, Order(via, program))
    /\ l' = l + 1 /\ at' = "line"
    /\ UNCHANGED <<lines, option, a, pass, program, slk, evaluatorVars>>

WriteSimlock ==
    /\ AttributesRead /\ pass = "simlock"
    /\ writes' = Append(writes, Order("simlock", slk))
    /\ l' = l + 1 /\ at' = "line"
    /\ UNCHANGED <<lines, option, a, pass, program, slk, evaluatorVars>>

Next ==
    \/ StartLine \/ EndOfFile
    \/ ReadNumber \/ Evaluate \/ StoreNumber \/ EvaluatorFails
    \/ ReadName \/ ReadSparse \/ IgnoreAttribute
    \/ SkipLine \/ OpenSimlock \/ WriteImage \/ WriteSimlock

Spec == Init /\ [][Next]_vars /\ WF_vars(Next)
-----------------------------------------------------------------------------
(* Properties. *)

\* No text of an attribute keeps the tool in a loop: neither strrep, which looks
\* from the start again after every replacement, nor the scan, which takes the
\* character after a number twice.
FileEnds == <>(at \in {"end", "exit"})

\* Where the evaluator is in its buffer and its stacks.
TypeOK ==
    /\ l \in 1..(Len(lines) + 1) /\ a \in Nat /\ pass \in {"program", "simlock"}
    /\ at \in {"line", "attribute", "number", "end", "exit"}
    /\ text \in Seq(STRING) /\ from \in 0..i
    /\ pc = "scan" => i \in 1..(Len(text) + 1)
    /\ pc = "calc" => i \in 1..(Len(postfix) + 1)
    /\ ops \in Seq(Operators \union {"("})
    /\ \A n \in DOMAIN postfix :
         IF postfix[n].op = "n" THEN postfix[n].k \in DOMAIN numbers
                                ELSE postfix[n].op \in Operators \union {"("}
    /\ \A n \in DOMAIN numbers : numbers[n] \in 0..(WordSize - 1)
    /\ \A n \in DOMAIN calc : calc[n] \in 0..(WordSize - 1)

\* A line that gives every field, each once and with a value that fits.
Given(line, field) == {n \in DOMAIN line.attributes : line.attributes[n].name = field}
ValueOf(line, field) == line.attributes[CHOOSE n \in Given(line, field) : TRUE].value
Complete(line) ==
    /\ line.isProgram
    /\ \A f \in Fields : Cardinality(Given(line, f)) = 1 /\ ValueOf(line, f) \notin TooLong
    /\ ValueOf(line, "sparse") \in {<<"true">>, <<"false">>}

Number(line, field) ==
    LET value == ValueOf(line, field) IN Worth(CHOOSE d \in Documents : d.source = value)

\* What the complete line of number j asks for, from its text alone.
Asked(line, j) ==
    [via |-> IF ValueOf(line, "label") = <<"simlock">> /\ option \in {"simlock", ""} THEN "simlock"
             ELSE IF ValueOf(line, "sparse") = <<"true">> THEN "sparse" ELSE "general",
     line |-> j, file |-> ValueOf(line, "filename"),
     offset |-> (Number(line, "file_sector_offset") * Number(line, "SECTOR_SIZE_IN_BYTES")) % WordSize,
     start |-> Number(line, "start_sector"), sectors |-> Number(line, "num_partition_sectors"),
     size |-> Number(line, "SECTOR_SIZE_IN_BYTES"), lun |-> Number(line, "physical_partition_number")]

\* There is something to program.
Due(line) == Complete(line) /\ ValueOf(line, "filename") \in Present

\* A complete line is programmed as it says, whatever the lines before it have
\* left in program, once and in its turn, and no line is lost on the way to the
\* end of the file.
LineDecides ==
    at = "line" \/ at = "end" =>
        /\ \A m, n \in DOMAIN writes : m < n => writes[m].line < writes[n].line
        /\ \A n \in DOMAIN writes :
             Complete(lines[writes[n].line]) =>
                 /\ Due(lines[writes[n].line])
                 /\ writes[n] = Asked(lines[writes[n].line], writes[n].line)
        /\ \A j \in 1..(l - 1) : Due(lines[j]) => \E n \in DOMAIN writes : writes[n].line = j

\* What LineDecides takes from the expressions: those of complete lines are
\* among the well formed ones.
NumbersAreDocuments ==
    \A file \in Files : \A j \in DOMAIN file :
        Complete(file[j]) => \A f \in NumberFields : ValueOf(file[j], f) \in Sources
=============================================================================
