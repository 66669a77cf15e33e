----------------------------- MODULE FlashSession -----------------------------
(***************************************************************************)
(* One run of the flash tool from the start of the Firehose programmer on: *)
(* main of flash.c sends a script of commands, every one through           *)
(* send_command and the response loop of firehose.c, while the device      *)
(* works at its own pace at the other end of two USB pipes.                *)
(*                                                                         *)
(* An answer carries no name of the command it answers.  The host tells    *)
(* answers apart by their order, by throwing pending input away before it  *)
(* sends (clear_rubbish), and by the attributes a reader insists on.       *)
(***************************************************************************)
EXTENDS Naturals, Sequences

CONSTANTS
  Runs,       \* what main can be asked to run, and the device it meets
  Pieces,     \* payload writes of one transmit_chunk
  PowerTries  \* turns of the power loop of main

Ops == {"emmc", "configure", "reconfigure", "erase", "program", "patch", "power"}

\* healthy: no write fails, the device accepts all and answers in time.
\* limit is MAX_RETRY, the turns of the response loop.
ASSUME SessionAssumption ==
  /\ Runs \subseteq [script : Seq(Ops) \ {<<>>}, healthy : BOOLEAN, limit : Nat \ {0}]
  /\ Pieces \in Nat \ {0}
  /\ PowerTries \in Nat \ {0}

\* The order of main: it erases before it programs, and power is its last stage.
ASSUME ScriptOrder ==
  \A r \in Runs : \A i, j \in 1..Len(r.script) :
    i < j => /\ r.script[i] # "power"
             /\ r.script[i] = "program" => r.script[j] # "erase"

VARIABLES
  run,      \* the commands of this run and its device
  k,        \* the command the host is at
  pc,       \* "send", "read", "stream", "done" or "fatal"
  todo,     \* "clear" and "write" steps left before the host reads or streams
  phase,    \* of a program command: "command" or "data"
  retry,    \* turns left of the response loop
  respbuf,  \* the messages read since the response loop began
  tries,    \* turns left of the power loop
  piece,    \* payload pieces written
  outp,     \* the OUT pipe, host to device
  inp,      \* the IN pipe, device to host
  mode,     \* of the device: "cmd", "raw" or "off"
  need,     \* payload pieces the device still expects
  cur,      \* the command the device took last
  emit,     \* messages the device has yet to send
  done,     \* history: the commands the device has carried out
  by        \* history: by[j] is the command whose answer decided command j

host == <<k, pc, todo, phase, retry, respbuf, tries, piece, by>>
device == <<mode, need, cur, emit, done>>
vars == <<run, host, device, outp, inp>>

script == run.script
Healthy == run.healthy
MaxRetry == run.limit
-------------------------------------------------------------------------------
(***************************************************************************)
(* Messages of the device, with the attributes the readers look at.        *)
(***************************************************************************)
Log == [kind |-> "log", value |-> "none", rawmode |-> "none", maxp |-> FALSE, for |-> 0]
SizeLog == [Log EXCEPT !.kind = "size"]     \* <log value="eMMC size=...">
Response(v, raw, m, c) ==
  [kind |-> "response", value |-> v, rawmode |-> raw, maxp |-> m, for |-> c]

CommandPkt(c) == [kind |-> "command", for |-> c]
DataPkt == [kind |-> "data", for |-> 0]

Responses(b) == {j \in 1..Len(b) : b[j].kind = "response"}

First(S) == CHOOSE j \in S : \A h \in S : j <= h
Last(S) == CHOOSE j \in S : \A h \in S : j >= h

(***************************************************************************)
(* The four readers.  Each scans the whole buffer from its start and       *)
(* stops at the first <response> that has the attributes it wants: the     *)
(* index of that message, or 0 when there is none (NIL).                   *)
(***************************************************************************)
Decisive(b, S) == IF S = {} THEN 0 ELSE First(S)

\* common_response_xml_reader
CommonAt(b) == Decisive(b, Responses(b))

\* get_maxpayload_support_from_xreader
MaxPayloadAt(b) == Decisive(b, {j \in Responses(b) : b[j].maxp})

\* Mutant of RawModeAt: the answer need not say rawmode.
RawModeAtAny(b) == CommonAt(b)

\* program_response_xml_reader and transmit_chunk_response_xml_reader
RawModeAt(b) == Decisive(b, {j \in Responses(b) : b[j].rawmode # "none"})

\* firehose_emmc_info_response_xml_reader: NAK at once, ACK when both a
\* response and the size have been seen; a later response overrides.
EmmcAt(b) ==
  LET seen(j) == \E h \in 1..j : b[h].kind = "size"
      S == {j \in 1..Len(b) : \E r \in Responses(b) :
              r <= j /\ (b[r].value # "ACK" \/ seen(j))}
  IN IF S = {} THEN 0
     ELSE Last({r \in Responses(b) : r <= First(S)})

AnswerAt(b) ==
  CASE script[k] = "emmc" -> EmmcAt(b)
    [] script[k] = "configure" -> MaxPayloadAt(b)
    [] script[k] = "program" -> RawModeAt(b)
    [] OTHER -> CommonAt(b)

\* The rawmode that a program command waits for, before and after its data.
RawMode == IF phase = "command" THEN "true" ELSE "false"

\* Mutant of Verdict: a program is judged by rawmode alone.
VerdictByRawMode(m) ==
  IF script[k] = "program"
  THEN IF m.rawmode = RawMode THEN "ACK" ELSE "NAK"
  ELSE m.value

\* What the reader returns for message m.
Verdict(m) ==
  IF script[k] = "program"
  THEN IF m.value = "ACK" /\ m.rawmode = RawMode THEN "ACK" ELSE "NAK"
  ELSE m.value
-------------------------------------------------------------------------------
\* Mutant of Sends: the pending input is cleared after the command is written.
SendsClearLast(op) ==
  IF op = "power" THEN <<"write", "clear", "write", "clear">> ELSE <<"write", "clear">>

(***************************************************************************)
(* The sends before the host reads.  send_command clears and writes;       *)
(* send_program clears once more; process_power_action sends the command   *)
(* twice, in init_firehose_power and in send_firehose_power.               *)
(***************************************************************************)
Sends(op) ==
  CASE op = "program" -> <<"clear", "clear", "write">>
    [] op = "power" -> <<"clear", "write", "clear", "write">>
    [] OTHER -> <<"clear", "write">>

Init ==
  /\ run \in Runs
  /\ k = 1 /\ pc = "send" /\ todo = Sends(script[1]) /\ phase = "command"
  /\ retry = MaxRetry /\ respbuf = <<>> /\ tries = PowerTries /\ piece = 0
  /\ outp = <<>> /\ inp = <<>>
  /\ mode = "cmd" /\ need = 0 /\ cur = 0 /\ emit = <<>> /\ done = {}
  /\ by = [j \in 1..Len(script) |-> 0]

\* The start of a response loop: respbuf_ref clears the buffer.
FreshLoop == retry' = MaxRetry /\ respbuf' = <<>>

\* What follows the last step of todo.
AfterSends(t) ==
  IF t # <<>> THEN "send" ELSE IF phase = "data" THEN "stream" ELSE "read"

\* clear_rubbish: one read with a timeout of 10 ms, one message at most.
ClearRubbish ==
  /\ pc = "send" /\ Head(todo) = "clear"
  /\ inp' = IF inp = <<>> THEN inp ELSE Tail(inp)
  /\ todo' = Tail(todo)
  /\ pc' = AfterSends(todo')
  /\ FreshLoop
  /\ UNCHANGED <<run, k, phase, tries, piece, by, device, outp>>

\* write_tx of a command; nobody looks at its result.
WriteCommand ==
  /\ pc = "send" /\ Head(todo) = "write"
  /\ \/ outp' = Append(outp, CommandPkt(k))
     \/ ~Healthy /\ UNCHANGED outp
  /\ todo' = Tail(todo)
  /\ pc' = AfterSends(todo')
  /\ FreshLoop
  /\ UNCHANGED <<run, k, phase, tries, piece, by, device, inp>>

\* The payload loop of transmit_chunk.
StreamPiece ==
  /\ pc = "stream"
  /\ outp' = Append(outp, DataPkt)
  /\ piece' = piece + 1
  /\ pc' = IF piece + 1 = Pieces THEN "read" ELSE "stream"
  /\ FreshLoop
  /\ UNCHANGED <<run, k, todo, phase, tries, by, device, inp>>

StreamFails ==
  /\ pc = "stream" /\ ~Healthy
  /\ pc' = "fatal"
  /\ UNCHANGED <<run, k, todo, phase, retry, respbuf, tries, piece, by,
                 device, outp, inp>>
-------------------------------------------------------------------------------
\* Mutant of Start: the count of payload writes goes on.
StartKeepsPiece(j) ==
  /\ k' = j /\ pc' = "send" /\ todo' = Sends(script[j]) /\ phase' = "command"
  /\ UNCHANGED piece

Start(j) ==
  /\ k' = j /\ pc' = "send" /\ todo' = Sends(script[j]) /\ phase' = "command"
  /\ piece' = 0

Exit(p) == pc' = p /\ UNCHANGED <<k, todo, phase, piece>>

\* Mutant of MayStream: no answer is no objection.
MayStreamUnlessNAK(r) == r # "NAK"

\* transmit_chunk sends its payload after this answer, and exits otherwise.
MayStream(r) == r = "ACK"

\* The reaction to what the response loop returned for command k: that of
\* transmit_chunk, of the power loop, and of main for the other commands.
React(r) ==
  LET op == script[k] IN
  \/ /\ op = "program" /\ phase = "command"
     /\ IF MayStream(r)
        THEN /\ phase' = "data" /\ todo' = <<"clear">> /\ pc' = "send"
             /\ UNCHANGED <<k, piece>>
        ELSE Exit("fatal")
     /\ UNCHANGED tries
  \/ /\ op = "power"
     /\ IF r = "NIL" /\ tries > 1
        THEN Start(k) /\ tries' = tries - 1
        ELSE Exit(IF r = "NAK" THEN "fatal" ELSE "done") /\ UNCHANGED tries
  \/ /\ op # "power" /\ ~(op = "program" /\ phase = "command")
     /\ IF r = "ACK" \/ op = "erase"
        THEN IF k < Len(script) THEN Start(k + 1) ELSE Exit("done")
        ELSE Exit("fatal")
     /\ UNCHANGED tries

(***************************************************************************)
(* One turn of the response loop.  A turn brings a message, or a timeout,  *)
(* or both; the buffer is parsed only at a timeout.                        *)
(***************************************************************************)
DeviceQuiet == emit = <<>> /\ outp = <<>>

\* Mutant of SpendRetry: a turn that decided nothing is free.
SpendNothing == UNCHANGED retry

SpendRetry == retry' = retry - 1

ReadTurn ==
  /\ pc = "read" /\ retry > 0
  /\ \E got, timeout \in BOOLEAN :
       /\ got \/ timeout
       /\ got <=> inp # <<>>
       /\ Healthy /\ timeout => DeviceQuiet
       /\ inp' = IF got THEN Tail(inp) ELSE inp
       /\ respbuf' = IF got THEN Append(respbuf, Head(inp)) ELSE respbuf
       /\ LET at == IF timeout THEN AnswerAt(respbuf') ELSE 0 IN
          IF at # 0
          THEN /\ React(Verdict(respbuf'[at]))
               /\ by' = [by EXCEPT ![k] = respbuf'[at].for]
               /\ UNCHANGED retry
          ELSE /\ SpendRetry
               /\ UNCHANGED <<k, pc, todo, phase, tries, piece, by>>
  /\ UNCHANGED <<run, device, outp>>

RetriesSpent ==
  /\ pc = "read" /\ retry = 0
  /\ React("NIL")
  /\ by' = [by EXCEPT ![k] = 0]
  /\ UNCHANGED <<run, retry, respbuf, device, outp, inp>>
-------------------------------------------------------------------------------
(***************************************************************************)
(* The device: it takes packets in order, and sends messages one by one.   *)
(***************************************************************************)
Answer(c, ack) ==
  LET v == IF ack THEN "ACK" ELSE "NAK" IN
  CASE script[c] = "emmc" ->
         IF ack THEN {<<SizeLog, Response(v, "none", FALSE, c)>>,
                      <<Response(v, "none", FALSE, c), SizeLog>>}
                ELSE {<<Response(v, "none", FALSE, c)>>}
    [] script[c] \in {"configure", "reconfigure"} -> {<<Response(v, "none", TRUE, c)>>}
    [] script[c] = "program" ->
         IF ack THEN {<<Response(v, "true", FALSE, c)>>}
                ELSE {<<Response(v, m, FALSE, c)>> : m \in {"none", "false"}}
    [] OTHER -> {<<Response(v, "none", FALSE, c)>>, <<Log, Response(v, "none", FALSE, c)>>}

DeviceCommand ==
  /\ mode = "cmd" /\ emit = <<>>
  /\ outp # <<>> /\ Head(outp).kind = "command"
  /\ LET c == Head(outp).for IN
     \E ack \in BOOLEAN :
       /\ Healthy => ack
       /\ emit' \in Answer(c, ack)
       /\ cur' = c
       /\ mode' = IF ack /\ script[c] = "program" THEN "raw" ELSE "cmd"
       /\ need' = IF ack /\ script[c] = "program" THEN Pieces ELSE 0
       /\ done' = IF ack /\ script[c] # "program" THEN done \cup {c} ELSE done
  /\ outp' = Tail(outp)
  /\ UNCHANGED <<run, host, inp>>

DeviceData ==
  /\ mode = "raw" /\ emit = <<>>
  /\ outp # <<>> /\ Head(outp).kind = "data"
  /\ need' = need - 1
  /\ \E ack \in BOOLEAN :
       /\ Healthy => ack
       /\ IF need > 1 THEN UNCHANGED <<mode, emit, done>>
          ELSE /\ mode' = "cmd"
               /\ emit' = <<Response(IF ack THEN "ACK" ELSE "NAK", "false", FALSE, cur)>>
               /\ done' = IF ack THEN done \cup {cur} ELSE done
  /\ outp' = Tail(outp)
  /\ UNCHANGED <<run, host, cur, inp>>

\* The power goes off some time after the power command was accepted.
DevicePowersOff ==
  /\ mode = "cmd" /\ emit = <<>>
  /\ \E c \in done : script[c] = "power"
  /\ mode' = "off"
  /\ UNCHANGED <<run, host, need, cur, emit, done, inp, outp>>

\* Nobody is there to take what is sent.
DeviceGone ==
  /\ mode = "off" /\ outp # <<>>
  /\ outp' = Tail(outp)
  /\ UNCHANGED <<run, host, device, inp>>

DeviceEmit ==
  /\ emit # <<>>
  /\ inp' = Append(inp, Head(emit))
  /\ emit' = Tail(emit)
  /\ UNCHANGED <<run, host, mode, need, cur, done, outp>>

Exited == pc \in {"done", "fatal"} /\ UNCHANGED vars

HostStep ==
  \/ ClearRubbish \/ WriteCommand \/ StreamPiece \/ StreamFails
  \/ ReadTurn \/ RetriesSpent

DeviceStep ==
  DeviceCommand \/ DeviceData \/ DevicePowersOff \/ DeviceGone \/ DeviceEmit

Next == HostStep \/ DeviceStep \/ Exited

Spec == Init /\ [][Next]_vars

\* The host never waits without a timeout; of the device it is only assumed
\* that a healthy one goes on working.
FairSpec == Spec /\ WF_vars(HostStep) /\ WF_vars(Healthy /\ DeviceStep)
-------------------------------------------------------------------------------
Kinds == {"log", "size", "response"}

Messages ==
  [kind : Kinds, value : {"none", "ACK", "NAK"}, rawmode : {"none", "true", "false"},
   maxp : BOOLEAN, for : Nat]

(***************************************************************************)
(* Every variable has its type, and no more payload is written than the    *)
(* length announced by the program command.                                *)
(***************************************************************************)
TypeOK ==
  /\ run \in Runs /\ k \in 1..Len(script)
  /\ pc \in {"send", "read", "stream", "done", "fatal"}
  /\ todo \in Seq({"clear", "write"})
  /\ phase \in {"command", "data"}
  /\ retry \in 0..MaxRetry /\ tries \in 1..PowerTries
  /\ piece \in 0..Pieces /\ need \in 0..Pieces
  /\ respbuf \in Seq(Messages) /\ inp \in Seq(Messages) /\ emit \in Seq(Messages)
  /\ outp \in Seq([kind : {"command", "data"}, for : Nat])
  /\ mode \in {"cmd", "raw", "off"}
  /\ cur \in 0..Len(script) /\ done \subseteq 1..Len(script)
  /\ by \in [1..Len(script) -> 0..Len(script)]

(***************************************************************************)
(* The device never takes payload for a command nor a command for payload, *)
(* although each side learns of the other's mode only from the answers in  *)
(* the pipes, and transmit_chunk may be reading late answers to an erase.  *)
(***************************************************************************)
NoMisread ==
  outp # <<>> =>
    /\ mode = "cmd" => Head(outp).kind = "command"
    /\ mode = "raw" => Head(outp).kind = "data"

(***************************************************************************)
(* From the first program command on, what decides a command is the        *)
(* device's answer to that command: answers that come after the response   *)
(* loop of an erase has given up are not taken for later ones.             *)
(***************************************************************************)
ProgramBefore(j) == \E p \in 1..j : script[p] = "program"

AnswersMatch ==
  \A j \in 1..Len(script) : ProgramBefore(j) => by[j] \in {0, j}

(***************************************************************************)
(* "all done:)" is printed only when the device has carried out every      *)
(* program command and every patch after one.                              *)
(***************************************************************************)
DoneMeansDone ==
  pc = "done" =>
    \A j \in 1..Len(script) :
       script[j] \in {"program", "patch"} /\ ProgramBefore(j) => j \in done

(***************************************************************************)
(* Whatever the device does or fails to do, the tool comes to an end.      *)
(***************************************************************************)
Termination == <>(pc \in {"done", "fatal"})

(***************************************************************************)
(* With a device that accepts every command and answers in time the run    *)
(* ends well with every command carried out: no answer is lost to          *)
(* clear_rubbish, and log messages do not use up MAX_RETRY.                *)
(***************************************************************************)
HealthyRunSucceeds == Healthy => <>(pc = "done" /\ done = 1..Len(script))
===============================================================================
