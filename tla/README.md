# Verification of the QDL flash tool

This directory holds TLA+ models of the Linux flash tool (`flash.c` and the
files it uses), the TLC runs that check them and TLAPS proofs about them. All
paths below are relative to the repository. The two PDF protocol descriptions
in `docs/` are encrypted; nothing here is taken from them. Where a protocol
partner (boot loader, Firehose programmer, libusb) is not in the repository it is
modelled from how the code uses it, and marked external in `PROJECT.json`.

## Inventory

The tool runs once, in one thread, in three stages: it gives the phone's boot
loader a *programmer* (Sahara protocol), the phone starts that program and
enumerates again on USB, and the tool sends it commands in XML (Firehose
protocol): sizes, erase, program with payload, patch, power.

| component | files | state | operations |
|---|---|---|---|
| Sahara transfer | `sahara.c/h` | packet buffer, `packet_read_data`, `status`, `end_image_tx_bool` | hello, hello response, request loop, done, done response |
| Firehose session | `firehose.c/h`, `flash.c` | `respbuf`, retry counters, position in the scripts of `main` | `send_command`, `clear_rubbish`, `_response` and five readers, `transmit_chunk`, power loop |
| Image writing | `firehose_flash_image.c`, `sparse_format.h` | `bigchunk` and its cursors, `out_offset`, file offset, `program` | sparse header, RAW / FILL / CRC32 / DONT_CARE chunks, general file, simlock file |
| XML reader | `xml_parser.c` | position, `parser_state`, `depth`, token fields | `xmlGetToken`, tests and getters |
| XML writer | `xml_parser.c` | buffer, tag stack, room for closing tags, rollback point | start, child and close tag, attributes, text, finalize, rollback, Raw writes; never called |
| Evaluator | `utils.c` | operator, postfix and value stacks | `evaluator`, `firehose_strtoint`, `strrep` |
| USB connection | `qdl_usb.c`, `device.c` | `handle`, libusb context, device references | `qdl_usb_init`, `write_tx`, `read_rx`, `qdl_usb_close`, device lookup |
| QDL switch | `to_qdl_mode.c` | retry counter | write the magic to every OUT endpoint, wait for the device to vanish |
| command line | `flash.c`, `to_qdl_mode.c` | options | parsing, texts |

How they interact: `main` calls everything; Sahara and Firehose share
`write_tx`/`read_rx` and the global `handle`; the image routines share the global
`bigchunk` with each other over all files of a run and reach the device only by
`transmit_chunk`; every answer goes through `respbuf` and the XML reader;
numbers in `rawprogram0.xml` go through the evaluator.

What is hard to get right, and hard to test on a desk:

* the device is a second process: answers come late, are preceded by log
  messages, and do not say what they answer;
* reads and writes time out, their results are mostly ignored, and the loops
  around them retry or fall through;
* `bigchunk` outlives the file it was filled from;
* the sector of a flush is computed backwards from what was consumed;
* sizes come from headers in the file, in 32 bits.

Nothing is persisted by the tool, so there is no recovery to model: a run that
dies is started again from the beginning.

What makes the components correct: the storage receives only what the file
says, at the place it says, and all of it when "succeed" is printed; payload is
only sent to a device that waits for it; no answer is taken for another's; "all
done:)" means that it is; every run ends; Sahara sends what was asked for.

## Modules

| module | role |
|---|---|
| `ImageWrite` | abstract: what writing one file promises |
| `FlashImage` | the image routines in detail; refines `ImageWrite` |
| `FlashImageProofs` | theorems about `FlashImage`: types and every `transmit_chunk` call in range; with well-formed files, what the storage gets and the refinement of `ImageWrite` |
| `FlashSession` | `main` after Sahara, the response loops, and the device at the other end of two pipes |
| `FlashSessionProofs` | invariant and theorems about `FlashSession` |
| `Sahara` | `dowload_firehose_image` against the boot loader |
| `SaharaProofs` | invariant and theorems about `Sahara` |
| `XmlReader` | `xmlGetToken` as an automaton over characters, and the loop of its callers |
| `XmlReaderProofs` | invariants and theorems about `XmlReader` |
| `ResponseReader` | the functions that read answers, on top of `XmlReader` |
| `ResponseReaderProofs` | invariants and theorems about `ResponseReader` |
| `XmlWriter` | the XML writer, and clients of it |
| `XmlWriterProofs` | invariant and theorems about `XmlWriter` |
| `Evaluator` | `firehose_strtoint`: replacement, scan to postfix, calculation |
| `RawProgram` | the loop over the lines of `rawprogram0.xml`, with `Evaluator` for the numbers |
| `EvaluatorProofs` | invariants and theorems about `RawProgram` and `Evaluator` |
| `Libusb` | phones on the bus, references and handles of a process, and `device.c` |
| `QdlSwitch` | `main` of `to_qdl_mode.c` |
| `QdlUsb` | the handle of `flash` over its two `qdl_usb_init` calls |
| `UsbTools` | composition: `QdlSwitch`, then `QdlUsb`, on one bus whose phones come and go |
| `UsbToolsProofs` | invariant and theorems about `UsbTools` and the three modules under it |
| `MCFlashImage`, `MCFlashSession`, `MCSahara`, `MCXmlReader`, `MCResponseReader`, `MCXmlWriter`, `MCRawProgram`, `MCUsbTools` | the small instances for TLC |
| `XmlPieces` | how the instances write documents and their tokens |

Operators whose comment starts with *Mutant of* are not part of the models. Each
is a plausible mistake in the operator it precedes, and `PROJECT.json` lists which
property notices it.

### FlashImage

A file is a function from offsets to *cells*. Data cells have distinct values, so
a cell at the wrong address is noticed; headers are one cell with the fields the
code reads. The unit is chosen so that the sector, the buffer and both headers
are a few cells long. `chunks` of a file is the layout that `sparse_format.h`
defines, independent of how the code walks it: `NoStray`, `SuccessComplete` and
`ChunkCursor` compare the walk with the layout.

| state | code |
|---|---|
| `pos` | offset of `fd` |
| `hdr`, `chunk`, `i`, `rawLeft` | `sparse_header`, `chunk_header`, `i`, `raw_chunk_data_size` |
| `left`, `ptr`, `out` | `bigchunk_left`, `bigchunk_ptr - bigchunk`, `out_offset` |
| `start`, `sectors` | `program.start_sector`, `program.sector_numbers` |
| `bigchunk` | the global of that name |
| `disk` | what the device stored for the current file |
| `stale` | history: how far `bigchunk` may hold data that sparse images left unsent |

The actions follow the routines: `OpenFile` is a turn of the `<program>` loop of
`main`; `NotSparse` and `SparseHeader` are `process_sprase_header`; `ReadChunkHeader`,
`RawPiece`, `RawDone`, `TransmitFull`, `FlushStaged`, `SkipChunk` and `ChunksDone` are
`process_sparse_chunks`; `GeneralRead`, `GeneralSend` and `GeneralDone` are
`process_general_file`. The three identical flushes of FILL, CRC32 and DONT_CARE
are one action. `TransmitFails` stores any prefix of what was being sent. A read at
the end of the file leaves `chunk_header` as it was, and at the first chunk that
is what the stack holds. A file offset beyond the end of a sparse file is
excluded (`FileShape`): its whole header would be such leftovers.

A `read()` that fails ends the sparse routines (`ReadFails`). The other two keep its
-1 in a `size_t`, which is greater than zero (`ReadTakenForLength`): the sectors
computed from it wrap to 0. `process_general_file` then sends a program command for
no sectors (`SendNone`; that a device stores nothing for it is assumed), and
`process_simlock_file`, whose transfer does not count in sectors, sends as much of
`bigchunk` as the file is long, although nothing was read into it (`SendUnread`).
Then the `memset` of SIZE_MAX bytes, or `xerror`, ends the process. What `SendUnread`
stored is not the file's; `pc` is "lost" after it, and `NoStray` and `ImageWrite` hold it to
the addresses of the file, `Exposed`.

`SimlockRead`, `SimlockSend` and `SimlockDone` are `process_simlock_file` with
`transmit_chunk_simlock`. It differs from the general file in that the command is
put together once, before the loop, and that it sends as many bytes as the whole
file has. For a file longer than `bigchunk` that is past the buffer, and for one
that is not read from offset 0 it is leftovers; `FileShape` excludes both.

Two things are lost with success reported, and `SuccessComplete` leaves them out
by `Vouched`: the data of RAW chunks that no other chunk follows
(`FlashImageTailLost` shows it), and a plain file that is marked `sparse="true"` and
shorter than the sparse header, for which the seek back is refused. Such RAW data
stays at the start of `bigchunk` until a transfer clears it. A shorter file that is
read over it is sent with the leftovers behind its end. `NoStray` demands that
the rest of the last sector of a plain file is zero from cell `stale` on, where no
leftovers can be.

`transmit_chunk` is one step here, with its outcome: how it talks to the device
is `FlashSession`'s subject.

### FlashSession

`script` is the sequence of commands that the options and XML files ask for, and a
`program` in it is one `transmit_chunk`. Host and device are joined by two FIFO
pipes of whole messages. The host's control is `pc` and `todo`, the calls of
`clear_rubbish` and `write_tx` before the next response loop; `process_power_action`
has four of them, because `init_firehose_power` already sends. The response loop
reads until a turn times out and only then runs its reader over all of `respbuf`;
a turn can bring a message, a timeout, or both. The readers differ in which
attributes they wait for, and that is all that tells answers apart. `by` and `done`
are history: whose answer decided a command, and what the device did.

The device takes packets in order and answers each command, with a log message
before it or not, at any later time. It may refuse. Command writes may be lost.

### Sahara

Each call of `dowload_firehose_image` is an action. A packet the switch has no case
for leaves `status` at 0 and goes on to the write, as the code does, because the
default label is spelt `defaut:`. `SegmentOf` says what the bytes in `buf` mean as a
READ_DATA packet: the request, nothing after a timeout (`buf` was cleared), or
something unrelated. Before the first READ_DATA the pointer is uninitialized: a
crash or a write of anything. The boot loader compares what it gets with what it
asked for and ends the transfer with an error if they differ; that assumption is
external.

### XmlReader and ResponseReader

`XmlReader` has one action per state of `xmlGetToken`, `EndOfText` for the end of
its loop, and the loop of every caller. `span` holds the `token_..._start` and
`..._end` fields that callers fetch, `Unset` until they are assigned, since
`xmlInitReader` leaves them alone. A letter of the model stands for a word.
`meaning` is history: the tokens a well formed text consists of.

The reader accepts less than XML. A start tag with attributes has to end in
`/>` or `?>`; after a child element there may be no text; a comment needs a
character between its dashes. At any of the first two it stops with no token,
which its callers take for the end of the text. The documents leave these forms out;
the device and the XML files the tool is used with do not have them.

`Written` says what a document is without the automaton: where each of its tokens is
in the text (`places`: its first letter, the `=` of an attribute, the character that
ends it, and how many elements are open behind it), and what may be between it and
the token before (`Comes`): blanks, a `<`, or text without a letter. It is a grammar in which a
token only depends on the number of open elements and on the character that ended
the last one. As in XML no dash follows another one inside a comment; the reader
would take them in pairs, so that its end depended on their number. `XmlPieces`
builds the documents of the instances with their places, and TLC checks that they
are `Written`.

`ResponseReader` adds the variables of the five reader functions. Its reference,
`Expected`, is about elements and their attributes and is what `FlashSession`
says of messages (`CommonAt`, `MaxPayloadAt`, `RawModeAt`, `EmmcAt`): the run shows that
the token loops compute it, so `FlashSession` may treat `respbuf` as a sequence of
messages. It also shows why it may ignore a message of which only a part has
arrived: the readers then say NIL, or what they will say anyway. `TokensAgree`, that
a reader is given the tokens of the messages, and before a cut the first of them,
is what ties the two modules together. `Plain` is what is assumed of the device: an
element has no attribute twice, as in XML, and no outcome is the empty text. The
reader of the eMMC info would take the empty value of a second `<response>` for none.

### Evaluator and RawProgram

`Evaluator` follows `firehose_strtoint` character by character, since precedence,
stacks and the character after a number are what can go wrong in it. Text after
replacement is `text`, the three stacks are `ops`, `postfix` and `calc`, and an entry of
`postfix` is an operator or the index of a number. A push past an array ends the
run as "overrun", a pop from an empty stack as "wild", a division by zero as
"sigfpe". The meaning of an expression is stated apart from the stacks, by its syntax
tree in the order the code has, in which `-`, `+`, `*` and `/` are four levels and group
to the right. `Parsed` says what such a tree is, condition by condition and without
recursion: what the replacements make of the text (`Substituted`), where its tokens are
(`Spelled`), and for each number, operator and `(` the tokens that belong to it, the
nodes to its left and right and its value (`Single`, `Divided`, `Enclosing`). `Worth` is
the value at the root, `Undefined` if any of the divisions is by zero. `MCRawProgram`
reads its expressions into trees; TLC evaluates that they are `Parsed`
(`DocumentsAreParsed`) and that their values are what a recursive definition gives, which
divides a text at the operator that binds least (`TreesAgree`). The same
definition, `Value`, with `LastOfLowest` is the usual order. `OrderFree` is where the two
orders agree, and the expressions of real files, `NUM_DISK_SECTORS-33.`, are there.

`RawProgram` is the loop of `main`. `program` is a variable of the loop body that is
never initialized; what it holds at the start of a line is what the line before
left, or anything: `StartLine` takes either; `Garbage` stands for the latter and is the
value of no attribute. The same reader fills `slk` when the line
is for the simlock partition, from the same text. `writes` is history: the call
of each image routine with its arguments. `LineDecides` compares it with the text
of the lines that give all attributes: the calls are in the order of the lines and
no line has two, a call for a complete line has that line's arguments, and every
complete line that names a file there is has its call.

### Libusb, QdlSwitch, QdlUsb and UsbTools

A `libusb_device` is an enumeration: a phone that leaves and comes back has another
address and is another object. `refs` and `opened` count what the process holds of
each. Phones come and go at any time, in between any two calls. `faulty` is whether
USB calls on a device that is there may fail, chosen once per behaviour, so that
properties can be stated for runs without failures.

`get_device_from_serial` and `get_device_serial` are not one step, since a phone may
leave inside them. `look` is where they stand: "open" before `libusb_open`, "string"
with the handle, before the transfers for the serial, "returned" when the caller has
not gone on. `NextDevice` is the head of the loop over the list `own`, of which `rest`
is still to come; libusb's order is not known, so any device may be next. `OpenAsked`
is a successful `libusb_open`. `Answers` are the returns of `get_device_serial` from where it
stands, with what it has put into `serial`; `TakeDevice` and `PassDevice` are what the loop
makes of one. `CloseAsked` closes the handle only on the return at the end: a device
that leaves between the open and the transfer for its languages is returned from
at `device.c:80`, and stays open. The two transfers are one step: a phone that leaves
between them gives the serial made from its address, which `Answers` also has for
one that left before both.

`QdlSwitch` is `to_qdl_mode`: choose, open, write the magic bytes, free the list, look up
to ten times. `there` is history: whether the chosen device was on the bus at the
last look. `QdlUsb` is the handle of `flash`: `qdl_usb_init`, download, `qdl_usb_close`,
`qdl_usb_init` again with its result ignored, commands. What goes over the handle is
the subject of `Sahara` and `FlashSession`; here a transfer works, fails, or, on a
handle that was closed, does anything. The Sahara transfer is `Hello`, any number of
`DownloadTurn` and `Download`, its end: the loop of `dowload_firehose_image` (`sahara.c:164`) has
no limit, and with a phone that is silent or gone it may go on for ever. `CloseUsb` is
`qdl_usb_close` and the pause. `UsbTools` runs one tool after the other on
the same bus.

Known and in the model: with several phones in QDL mode and no `-s`,
`qdl_usb_init` drops a reference it never took (`RefsCover` names the case); a device
that `to_qdl_mode` chose and could not open, or that was found by `-s` and is no
phone, stays referenced until the process ends (`AllReturned` leaves these out); and
one that leaves while it is asked for its serial stays open: `AllReturned` allows one
handle of each device that is no longer on the bus, and none of one that is.

### XmlWriter

`w` is an `xml_writer_t`: the text up to `write_position`, the stack of places of tag
names, `closing_tags_space` (`space`) and the rollback point. Each function is an
operator on it, `ok` is what it returns. A function that fails half way leaves what
it did, as the code does. Nothing in the repository calls the writer, so the
clients are assumptions: one that builds tags and, after a FALSE, rolls back or
resets, and one that only uses the Raw functions. A client that goes on after a
FALSE can write past the buffer, since the copy of a tag name in
`xmlWriterCloseTag` is not bounded; the stack has room for four tags, but
`xmlWriterStartTag` compares their number with the size of the stack in bytes, so
the client has to count. Neither is among the clients. The names of tags are
letters, because `xmlWriterCloseTag` copies letters only. The writer escapes
nothing, so a client has no `<` in a text and no `>` in an attribute
(`ContentAssumption`). `Chars` are the characters there are, `Letters` the ones
`isalpha` takes.

`TypeOK` has the room for closing tags in the buffer only while the last call
returned TRUE: `xmlWriterStartTag` counts the room for a tag before it finds that the
tag does not fit, and a rollback takes it back.

## Runs

| run | expectation | what it shows |
|---|---|---|
| `FlashImage` | pass | all properties of the image routines, refinement and termination, for sparse images, damaged images, plain and simlock files in any order, with reads and transfers that fail |
| `FlashImageTailLost` | violation | the staged data of a last RAW chunk is never sent, and success is reported |
| `FlashImageLongHeader` | violation | with `chunk_hdr_sz` > 12 the walk leaves the layout |
| `FlashImageHugeHole` | violation | the 32-bit product of a hole's length wraps, later data goes to lower sectors |
| `FlashSession` | pass | no mix-up of payload and commands, no mix-up of answers after the first program command, "all done" means done, termination, and success with a good device |
| `Sahara` | pass | success is never reported for an incomplete image; with a good boot loader every request gets its segment and the image arrives |
| `SaharaSlow` | violation | after a timeout or an unknown packet the loop writes what nobody asked for |
| `XmlReader` | pass | for any text: depth does not wrap, names and values are in the text; for documents: exactly their tokens; for answers: the readers decide by the right one, whatever is before it in the buffer and wherever the buffer ends |
| `RawProgram` | pass | complete lines are programmed as they say, numbers have their value, the arrays hold for texts of 16 characters, the file is read to its end |
| `UsbTools` | pass | references, handles and their release, the same phone before and after the download, what "success" of the switch means, both tools end unless the Sahara loop does not; phones leave also while they are asked for their serial |
| `QdlSwitchGone` | violation | a device list that cannot be had counts as the device being gone |
| `XmlWriter` | pass | the text has the tags that were opened, can always be closed inside the buffer, and raw values end with their quote |

Bounds. `FlashImage`: a sector of 2 cells, a buffer of 2 sectors, headers of 2
cells and 1. A RAW chunk of 3 blocks then fills the buffer once and leaves a rest,
and one of 1 block leaves half of it, so a buffer is filled by one chunk, by two,
and at a chunk's end. Lists of up to three chunks over RAW 1, RAW 3,
DONT_CARE 1 and CRC32 are taken, and longer ones with FILL and with a sparse
header longer than the structure. Files follow each other without limit.
`WordSize` is 1024, out of reach, except in `FlashImageHugeHole`, where it is 16.
`FlashSession`: two payload writes, since only first, last and between differ;
`MaxRetry` 2, enough to read one message or two before giving up, and small enough
that giving up is common; two turns of the power loop; five scripts that between
them have every command, two late erases in a row, two program commands, and
patches with and without a program before. The runs against a healthy device have
`MaxRetry` 4: one more than the messages of any answer need. `Sahara`: three segments, plans of
up to three requests with repetitions, two writes in the pipe.

`XmlReader`: twelve starts of a text, which lead to every state of the automaton,
each followed by up to three arbitrary characters of every kind the code tells
apart; documents of up to two elements deep with up to two attributes, empty
values and values that look like markup, comments with single dashes in them, and
several documents in one text; all answers with each second
attribute, in both orders, in sequences of two, with log messages around them, cut
off everywhere in a single message and in three places of the last of two.

`RawProgram`: the arrays have their real sizes, only `buffer`, the digits of a number
and the machine word are smaller, so that an overrun of the buffer, a number that
is too long and a wrap-around are reached by short texts. Expressions have up to
four operands in all orders of operators, with parentheses; texts that are no
expressions fill each stack exactly and by one too many. Two lines are enough for
one to leave something to the next; a few files have three. `UsbTools`: two phones,
one without a serial in one mode and with serials of which one is a prefix of the
other, three enumerations, two looks. Two phones are what makes "which device"
a question; the third enumeration lets a phone leave and come back in the other
mode. The tools are started without `-s`, or with a text that the serials of both
phones start with. `XmlWriter`: buffers of 7, 12, 17 and 22 characters for tags, 11 for raw
writes: the first holds one empty tag and nothing else, the last three nested ones.
A fourth tag does not fit any of them, so that depth is bounded by the buffer.

Fairness. The host is a single thread whose every USB call has a timeout (10 ms,
100 ms, 1 s, 20 s), and reading a local file ends: weak fairness of the host's
steps. The same holds of `to_qdl_mode`,
whose loop sleeps a second per turn, and of the connection (`ToolEnds`), except in
the Sahara loop. There the next step may always be another `DownloadTurn`, so the
fairness of `UsbTools` says nothing about steps at "download", and `ToolEnds` has the
loop that goes on for ever as its one exception. Nothing is assumed of the device
for `Termination`, nor of the phones for `ToolEnds`. `HealthyRunSucceeds` and
`Delivered` are about a device that works, so they assume weak fairness of it too,
and that it answers before the host's timeouts.

## Proofs

The theorems are about all values of the constants, within the assumptions that
the modules name. Each invariant below was first checked by TLC on the instance of
its module. In every proof the invariant is a conjunction of named parts, and
there is a lemma per action, or group of actions that do the same, with a step per
part that it can disturb.

### Image writing

`FlashImageProofs`, for all files, buffer and sector sizes that satisfy the
assumptions of `FlashImage` (sizes are positive, the buffer is a whole number of
sectors, header fields are naturals):

* `TypeCorrect`: `Spec => []TypeOK`;
* `TransmitsInRange`: `Spec => []TransmitInRange`, no `transmit_chunk` call of the image
  routines reaches past `bigchunk` or before the partition's first sector,
  whatever the headers of the image claim.

Neither is inductive by itself. `IInv` adds that `ptr + left` is the size of the
buffer and `ptr <= out` (what is staged was counted in `out_offset`, which is why
the unsigned subtraction of a flush does not wrap), that the headers in use are
headers, and that `process_general_file` only moves the start sector up.

The comparison with the layout is under the hypothesis `AllWellFormed`: every file is one that `WellFormed` of `FlashImage` describes. It is a
hypothesis and not an assumption of the module, since the two theorems above, and
three of the runs, are about other files too; `FilesAreWellFormed` of `MCFlashImage`
has TLC check that the files of the main run satisfy it, the cut and damaged ones
included.

* `NothingStray`: `[]NoStray`; `PrefixFlushed`: `[]FlushedPrefix`; `SuccessIsComplete`:
  `[]SuccessComplete`; `CursorAtChunk`: `[]ChunkCursor`;
* `Refinement`: `Spec => ImplementsImageWrite`. `ImageWrite` has no liveness: that every
  file comes to an end is `FileCompletes`.

`WInv` says where the walk is. `AtChunk`, `InSkip` and `InRaw` tie the file offset and
`out_offset` to the layout at each place of the loop, as long as there are chunks;
`AtEnd` is the time after them, when a header that claims more chunks makes the loop
go on reading at the end of the file, and says that nothing is sent any more.
`Staged` says that what is in `bigchunk` is the data that belongs just before `out_offset`,
from a sector border on: that is the fact a flush needs, which computes its sector
backwards. `Behind` and `DiskBefore` order what is on the device, in the buffer and
still to come, and give `FlushedPrefix` and `SuccessComplete`. `PlainFile` and
`SimlockFile` are the same for the other two routines, and `Clean` that the buffer is
zero behind what it holds and behind `stale`. `SimlockFile` also has what a failed
read of a simlock file comes upon: all that is stored is in the place of the file.

The refinement takes the steps one by one: `OpenFile` is `Begin`; a step that stores
cells, or one that ends in "fatal" after storing some, is `Store`, by `NoStray'` and the
fact that the disk only grows; a step to "ok" is `Succeed`, by `SuccessComplete`;
`SendUnread` is `Spoil`, the one step of `ImageWrite` that may store something else, in
the file's place and as the last; every other step changes nothing that
`ImageWrite` sees.

### Firehose session

`FlashSessionProofs`, for scripts of any length, any retry limits and number of
payload writes, and a device that answers as late as it likes:

* `TypeCorrect`: `[]TypeOK`;
* `NeverMisread`: `[]NoMisread`, payload and commands are never mixed up;
* `AnswersAreMatched`: `[]AnswersMatch`, no late answer decides a command once a program
  command has been sent;
* `DoneIsDone`: `[]DoneMeansDone`.

One assumption on the scripts, `ScriptOrder`: the power command comes last, and no
erase comes after a program command. `main` (`flash.c`, lines 180 to 320) has its stages
in this order. `IInv` describes, for each place of the host, what may be in the two
pipes, in `respbuf` and in what the device has yet to send: `Sending`, `ProgramWaits`,
`DataWaits` and `OtherWaits`. The reason why late answers are harmless is in `Ahead`: a
program command is only accepted by an answer with `rawmode`, which no other command
has, and the device answers in order, so that everything owed for earlier commands
has arrived by then. Before the first program command nothing of this kind holds,
and `AnswersMatch` does not claim it.

### Sahara

`SaharaProofs`, for a plan of requests of any length over any segments, and pipes of
any depth:

* `TypeCorrect`: `[]TypeOK`;
* `ImageArrivesIntact`: `[]ImageIntact`, for a boot loader that is late or sends unknown
  packets, and writes that are lost;
* `InTimeAnswersRequest`: `[]AnswersInTime`.

`EndIsTrue` and `InPlan` carry the first argument: a good END_IMAGE_TX, wherever it is on
its way, was sent by a target that has all of its plan. `LockStep` carries the second:
with a target that is never late, at most one packet is under way, and it is the one
the other side waits for; `Turns` lists the possible positions.

### XML reader and readers of answers

`XmlReaderProofs`, for texts of any length over any characters:

* `DepthSafe`: `Spec => []DepthNeverWraps`;
* `SpansSafe`: `Spec => []SpansInText`;
* `TokensRight`: with `DocumentsWritten`, `Spec => []TokensMatch`.

For the first two `IInv` adds `Marked`: what has been marked, and in which order, when the
automaton is inside a name or a value, and that a value has had no quote so far.
There is a lemma for a character that marks nothing, one for an error, one for a
token without a span, and one for each start and end of a name or value.

For `TokensRight` the reader `Follows` a document d, of which its text is the start. It is
`Standing` at a `Spot` before the end of the next token: for each state of the automaton,
between which of the token's offsets it is, and which spans it has marked there. A
step moves it to the next `Spot` (`GoOnSpot`), or ends the token (`TokenSpot`); the place at which the
next token `Comes` is then the first `Spot` of that one (`FirstSpot`). No induction over the document
is needed, since `Written` says of each token only what is between it and the one
before. A text that is cut off in a comment needs one more case (`PastCut`): the
two states that take two dashes at once may step past the end of the text, after
which there is no token. `Told` is what the caller gets, and that after the last
token of a text that is not cut off it gets none.

`ResponseReaderProofs` uses these lemmas again, with the reader functions as callers,
for any buffers, cut off anywhere:

* `ReaderTypes`, `ReaderDepthSafe`, `ReaderSpansSafe`: `ReaderSpec` implies `[]ReaderTypeOK`,
  `[]DepthNeverWraps`, `[]SpansInText`; among the types is that a copied value fits its
  array;
* `TokensAreRight`: with `DocumentsWritten` and `BuffersWritten`, `ReaderSpec => []TokensAgree`;
* `RightDecision`: with `PlainMessages` as well, `ReaderSpec => []DecisionMatches`.

`TokensAreRight` is `Follows` under the callers (`Hears`), with the length of the text in place of
`whole`. `RightDecision` takes the tokens from there: whatever the messages are, how many
there are and where the buffer ends, a reader decides as `Expected` says, which is
stated over elements and attributes without any loop. The three hypotheses are
evaluated by TLC for the instance (`BuffersArePlain`, `BuffersAreWritten`,
`DocumentsAreWritten`). `Decided` relates the variables of each reader to the
tokens it has taken: for the readers of two attributes, that the buffers hold what
the current `<response>` has given and no earlier one had both (`PairKept`); for the
eMMC info, that `ack` is from the last `<response>` that had a value and that the size
has only been seen while there was none (`EmmcKept`).

### rawprogram0.xml and the evaluator

`EvaluatorProofs`, for all files and for arrays of any sizes that are related as those
of `evaluator` are (`SizesFit`):

* `StacksSuffice`: `Spec => []ShortTextsFit`, a text that is not longer than
  `postfix_string` never writes outside of the five arrays, be it well formed or not;
* `TypeCorrect`: `Spec => []TypeOK`, which includes that every number and every
  intermediate value is one of `size_t`.

The argument of `IInv` is one of cost. While scanning, every entry of `postfix` and
`ops` has been paid for by a character of its own, and every number by two, the last
one excepted (`Between`, `Inside`). While calculating, numbers come in the order of
their indices (`Ordered`), so fewer values are on `calc` than the index of the next
one (`Held`). `Ranged` adds the values and that a number being scanned has only
digits. Its start is `NumbersFitWord`: `number_buffer` holds 15 digits, and 15 digits are
below 2^64; TLC evaluates it for all texts of digits of the instance.

* `ValuesMatch`: with `DocumentsParsed`, `Spec => []ValueMatches`, expressions of any
  length and depth get the value of their syntax tree or overrun an array (which
  `StacksSuffice` excludes for short ones), none is refused, and SIGFPE comes only of a
  division by zero in the tree;
* `LinesDecide`: with `NumbersAreDocuments` and `DocumentsParsed`, `Spec => []LineDecides`.

Both hypotheses are about `Documents` and the file, not about the code, and TLC
evaluates them for the instance. `DocumentsParsed` says of each document that it is a syntax
tree; `NumbersAreDocuments`, that the numbers of complete lines are well formed.

`ValueInv` is the invariant of `ValuesMatch`. The replacements keep `source` or `text`
part of the way to the text of the tree (`Partway`: a part that is done, then what the
original has), and `OneReplaced` says that a turn of `strrep` stays on the way.
While scanning, `operator_stack` is a chain of nodes (`Stacked`): the tokens of each
begin right behind the one under it, so each is in the right side of the one below.
`postfix_string` is the code of everything that is not on the stack (`Run`): there is a
sequence of stacks of values, one after each entry, that a calculation would go
through, and its last one has a value for the left side of every operator on the stack
(`Lefts`) and, after an operand, one for that operand (`Awaits`). The key step is
an operator, a `)` or the end of the text: `Emitting` says that moving the entries above a
place on `operator_stack` to `postfix_string` leaves the value of the node they amount
to, and `Operated`, `Closed` and `Emptied` that the place where the code stops is the one
where the tree goes on: the precedence comparison stops where the new operator has its
left side, a `)` at the `(` that the tree closes with it. At the end of the scan the root's
value is left alone (`Finished`). `Calculating` then follows `Run` entry by
entry: `calc` is its stack of values. SIGFPE comes at a division of the tree whose
right side is zero, so the value is `Undefined`; and since `Covered` has every operator
of the tree among the entries, a calculation that gets through has met none.

The theorem about lines covers files of any length and lines with attributes in any
order, unknown and repeated ones among them. `LoopInv` is its invariant: `Filled` says that
a record holds, for every attribute of the line that has been passed, what the line
says (`Means`), and nothing is claimed of a field not yet read, which may hold the
value of an earlier line or anything else; `Reading` and `Filling` say which record
is being filled at which attribute, and `Written` is `LineDecides` for the
lines before the current one.

### USB connection and switch

`UsbToolsProofs`, for any phones, serials and modes, any number of enumerations that
gives each phone one (`PhonesFit`, a bound of the model), and any limit of looks
(`MaxRetryAssumption`):

* `TypeCorrect`: `[]TypeOK`; `ReferencesCover`: `[]RefsCover`; `EverythingReturned`:
  `[]AllReturned`; `ResultTells`: `[]HandleTells`; `CommandsToSamePhone`: `[]SamePhone`;
  `SuccessIsGone`: `[]SuccessMeansGone`.

`SwitchControl`, `FlashControl` and `ReadControl` say what holds at each place of the tools
and of `device.c`. `Held` and `Open1` count what the process must have of each device by
where it is. `Covered` says that libusb's counts are at least that, whatever fails;
`Short` is the one reference that `qdl_usb_init` drops too many. `Exact` says that the
counts are no more in runs without failures, at the places `Accounted` names (the
known leaks of references are what `Accounted` leaves out), but for one handle of a
device that has left (`OpenedRight`): an object that left does not come back, and is
not opened again. `DeviceMeant` and `SerialKnown` say that the device at hand is
one that the command line means, and so is the one before the switch; with one such
phone both are the same. `NotPassed` is why a look that found nothing means no device:
while the chosen one is on the bus, the loop has it before it or in hand.

### XML writer

`XmlWriterProofs`, for buffers of any length, any names of letters, attributes and
texts without markup in them, and calls in any order:

* `TypeCorrect`: `[]TypeOK`; `TextReads`: `[]TextMatches`; `AlwaysClosable`: `[]Closable`;
  `RawValuesEnd`: `[]RawValueEnds`.

`IInv` says of the writer of a tag client `Steady`: the rollback point is always
`Sound`, and so is the writer unless its last call failed. A point is sound
if it is `Good`. That ties the three things the code keeps apart: the text reads as
the names of the open tags, as text or in a start tag after the state of the writer
(`Shows`); each place on the stack is where such a name stands in the text, with
no letter after it (`PlacedAt`), which is why the letters copied from there
are the name; and `space` is the sum of what closing these names will take
(`Reserve`), with one more for the `>` of an open start tag, and fits behind the text. `Closable` follows by
closing one tag after the other: each step leaves a good point with one name less.
The rollback point shares the stack with the writer. It is never above it
(`Ready`), and a tag is pushed at a place the rollback point does not use, or uses
no more; that is why no rollback needs the stack restored.

`Read` is a function over the prefixes of a text. What the proofs need about it
(`ReadAgrees`, `ReadStays`, `ReadName`) is about the least prefix at which
something goes wrong, so that no induction scheme is needed. A raw client's writer is `Bare`: it
has no tag and no room kept.

### Only model-checked

* Liveness: `FileCompletes`, `Termination`, `HealthyRunSucceeds`, `Delivered`, `FileEnds`,
  `ToolEnds`. The provers have no rules for fairness and ENABLED.
* What is induction over data. `UsualOrder`: that the tree in the code's order and the
  usual one have the same value is a statement about a recursive function over
  intervals of a text. That the trees agree with `Value` (`TreesAgree`) is one too.
* That the documents of `XmlPieces` are `Written` and the expressions of `MCRawProgram` are
  `Parsed`: TLC evaluates it, for those of the instances.

Where a proof here needs the least or the last index with some property, it takes
the least element of a set of naturals, which needs no induction scheme.

## Plan

1. `FlashImage`, `FlashSession`, `Sahara`, `XmlReader`, `ResponseReader`: done.
2. `Evaluator`, `RawProgram`, `Libusb`, `QdlSwitch`, `QdlUsb`, `UsbTools`, `XmlWriter`, simlock
   in `FlashImage`: done.
3. Theorems about every component, and the refinement of `ImageWrite`: done.
4. The tokens of any document, and with them the decisions of the readers without a
   condition on the tokens: done.
5. The values of expressions of any length, stated over their syntax trees, and with
   them the decisions about lines without a condition on the evaluator: done.
6. Left: that every text of the grammar of expressions has a tree that is `Parsed`, and
   every text of the tokens of XML one that is `Written`; both are inductions over the text.

## Not modelled, and why

* Option parsing, `-l`, usage, texts and progress output: I/O without state of interest.
* The contents of commands other than `<program>`: templates that are filled in
  and sent; what readers and sector arithmetic look at is modelled.
* USB packets below whole transfers, the walk over endpoints in
  `switch_to_qdl_mode`, kernel drivers.
* File names: the path of 256 bytes that `main` puts together, and directories.
* Sparse images whose block is no multiple of the sector, and simlock files longer
  than 200 MB: the code is known not to handle them, and no text of the repository
  says that it does.
* Lines of `rawprogram0.xml` with two elements, or elements over several lines.
* Clients of the XML writer that ignore a FALSE, open a fifth tag, or mix tag and
  Raw functions: there are none.
* A composition of Sahara, the connection and the session in one state space: they
  share only the handle, whose life is `UsbTools`, and the two transfers, whose
  results each of them takes as any.
