-------------------------------- MODULE Sahara --------------------------------
(***************************************************************************)
(* dowload_firehose_image of sahara.c: the host gives the Firehose         *)
(* programmer to the boot loader of the phone.  The boot loader leads: it  *)
(* says HELLO, asks for one segment of the image after the other with      *)
(* READ_DATA and ends the transfer with END_IMAGE_TX.                      *)
(*                                                                         *)
(* The boot loader itself is external.  It is assumed to compare what it   *)
(* receives with what it asked for, which is what the status codes of      *)
(* sahara.h are about.                                                     *)
(***************************************************************************)
EXTENDS Naturals, Sequences

CONSTANTS
  Segments,   \* the (data_offset, data_length) pairs a target can ask for
  Plans,      \* the sequences of segments a target may want
  PipeDepth,  \* writes the target's OUT endpoint holds before write_tx blocks
  Faults      \* whether the target may be slow, send other packets or lose
              \* a write: TRUE, FALSE or both

ASSUME SaharaAssumption ==
  /\ \A p \in Plans : p \in Seq(Segments)
  /\ PipeDepth \in Nat \ {0}
  /\ Faults \subseteq BOOLEAN
  /\ Segments \cap {"empty", "stray"} = {}

VARIABLES
  pc,        \* of the host: the call it is about to make, "ok" or "fatal"
  buf,       \* buf, the packet read last; NoPacket when it was only cleared
  assigned,  \* packet_read_data was assigned
  t,         \* of the target: what it does next
  plan,      \* the segments it wants
  got,       \* the segments it has received
  faulty,    \* the target is one with faults
  outp,      \* host to target
  inp        \* target to host

host == <<pc, buf, assigned>>
target == <<t, plan, got, faulty>>
vars == <<host, target, outp, inp>>
-------------------------------------------------------------------------------
NoPacket == [kind |-> "NO_CMD"]
Hello(m) == [kind |-> "HELLO", mode |-> m]
HelloResp == [kind |-> "HELLO_RESP"]
ReadData(s, w) == [kind |-> "READ_DATA", seg |-> s, whole |-> w]
EndImageTx(s) == [kind |-> "END_IMAGE_TX", status |-> s]
Done == [kind |-> "DONE"]
DoneResp == [kind |-> "DONE_RESP"]
Other == [kind |-> "OTHER"]
Data(s) == [kind |-> "DATA", seg |-> s]

\* What the bytes of packet p, taken for a READ_DATA packet, ask for.
SegmentOf(p) ==
  CASE p.kind = "READ_DATA" -> p.seg
    [] p.kind = "NO_CMD" -> "empty"      \* a cleared buffer: length 0
    [] OTHER -> "stray"

\* read_rx, one second: p is the packet that came, or NoPacket at a timeout.
Read(p) ==
  \/ /\ inp # <<>>
     /\ p = Head(inp)
     /\ inp' = Tail(inp)
  \/ /\ inp = <<>>
     /\ faulty
     /\ p = NoPacket
     /\ UNCHANGED inp

\* write_tx, twenty seconds: all of it goes out, or nothing.
Written(p) == Len(outp) < PipeDepth /\ outp' = Append(outp, p)
NotWritten == faulty /\ UNCHANGED outp

Init ==
  /\ pc = "hello" /\ buf = NoPacket /\ assigned = FALSE
  /\ t = "hello" /\ plan \in Plans /\ got = <<>> /\ faulty \in Faults
  /\ outp = <<>> /\ inp = <<>>
-------------------------------------------------------------------------------
\* sahara_handle_packet_hello; any status below zero is fatal.
HandleHello ==
  /\ pc = "hello"
  /\ \E p \in {NoPacket, Other} \cup {Hello(m) : m \in {"TX_PENDING", "DEBUG"}} :
       /\ Read(p)
       /\ pc' = IF p = Hello("TX_PENDING") THEN "hello_resp" ELSE "fatal"
  /\ UNCHANGED <<buf, assigned, target, outp>>

SendHelloResp ==
  /\ pc = "hello_resp"
  /\ \/ Written(HelloResp) /\ pc' = "read"
     \/ NotWritten /\ pc' = "fatal"
  /\ UNCHANGED <<buf, assigned, target, inp>>

\* Mutant of EndsWell: the status of the packet is not looked at.
EndsWellAnyway(p) == p.kind = "END_IMAGE_TX"

\* sahara_handle_packet_end_image_tx returns 0.
EndsWell(p) == p = EndImageTx("SUCCESS")

\* Mutant of AfterPacket: what is not READ_DATA ends the loop.
AfterPacketEnds(p) ==
  CASE p.kind = "READ_DATA" -> IF p.whole THEN "write" ELSE "fatal"
    [] p.kind = "END_IMAGE_TX" -> IF EndsWell(p) THEN "done" ELSE "fatal"
    [] OTHER -> "done"

(***************************************************************************)
(* The switch.  A packet that is neither READ_DATA nor END_IMAGE_TX, and   *)
(* no packet at all, leave the status as it was, 0, and the turn goes on   *)
(* to write: the default label is misspelt and labels nothing.             *)
(***************************************************************************)
AfterPacket(p) ==
  CASE p.kind = "READ_DATA" -> IF p.whole THEN "write" ELSE "fatal"
    [] p.kind = "END_IMAGE_TX" -> IF EndsWell(p) THEN "done" ELSE "fatal"
    [] OTHER -> "write"

\* One turn of the while loop up to its write.
ReadRequest ==
  /\ pc = "read"
  /\ \E p \in {NoPacket, Other} \cup {EndImageTx(s) : s \in {"SUCCESS", "ERROR"}}
                 \cup {ReadData(s, w) : s \in Segments, w \in BOOLEAN} :
       /\ Read(p)
       /\ buf' = p
       /\ assigned' = (assigned \/ p.kind = "READ_DATA")
       /\ pc' = AfterPacket(p)
  /\ UNCHANGED <<target, outp>>

\* Mutant of AnswerFor: the length of the request is overwritten.
AnswerForEmpty(p) == "empty"

\* image_data + offset, length
AnswerFor(p) == SegmentOf(p)

(***************************************************************************)
(* The write of the loop; nobody looks at its result.  Before the first    *)
(* READ_DATA packet_read_data points anywhere: a crash, or some bytes.     *)
(***************************************************************************)
WriteSegment ==
  /\ pc = "write"
  /\ \/ /\ Written(Data(IF assigned THEN AnswerFor(buf) ELSE "stray"))
        /\ pc' = "read"
     \/ NotWritten /\ pc' = "read"
     \/ ~assigned /\ pc' = "fatal" /\ UNCHANGED outp
  /\ UNCHANGED <<buf, assigned, target, inp>>

SendDone ==
  /\ pc = "done"
  /\ \/ Written(Done) /\ pc' = "done_resp"
     \/ NotWritten /\ pc' = "fatal"
  /\ UNCHANGED <<buf, assigned, target, inp>>

\* IMAGE_TX_PENDING and IMAGE_TX_COMPLETE are the same to the caller.
HandleDoneResp ==
  /\ pc = "done_resp"
  /\ \E p \in {NoPacket, Other, DoneResp} :
       /\ Read(p)
       /\ pc' = IF p = DoneResp THEN "ok" ELSE "fatal"
  /\ UNCHANGED <<buf, assigned, target, outp>>
-------------------------------------------------------------------------------
(***************************************************************************)
(* The boot loader.                                                        *)
(***************************************************************************)
Send(p) == inp' = Append(inp, p)

AskOrEnd(g) == IF g = plan THEN "end" ELSE "ask"

SayHello ==
  /\ t = "hello"
  /\ \/ Send(Hello("TX_PENDING"))
     \/ faulty /\ Send(Hello("DEBUG"))
  /\ t' = "get_resp"
  /\ UNCHANGED <<host, plan, got, faulty, outp>>

TakeHelloResp ==
  /\ t = "get_resp" /\ outp # <<>>
  /\ t' = IF Head(outp) = HelloResp THEN AskOrEnd(got) ELSE "fail"
  /\ outp' = Tail(outp)
  /\ UNCHANGED <<host, plan, got, faulty, inp>>

Ask ==
  /\ t = "ask"
  /\ \E w \in BOOLEAN : (w \/ faulty) /\ Send(ReadData(plan[Len(got) + 1], w))
  /\ t' = "get_data"
  /\ UNCHANGED <<host, plan, got, faulty, outp>>

TakeData ==
  /\ t = "get_data" /\ outp # <<>>
  /\ IF Head(outp) = Data(plan[Len(got) + 1])
     THEN got' = Append(got, plan[Len(got) + 1]) /\ t' = AskOrEnd(got')
     ELSE t' = "fail" /\ UNCHANGED got
  /\ outp' = Tail(outp)
  /\ UNCHANGED <<host, plan, faulty, inp>>

End ==
  /\ t \in {"end", "fail"}
  /\ Send(EndImageTx(IF t = "end" THEN "SUCCESS" ELSE "ERROR"))
  /\ t' = IF t = "end" THEN "get_done" ELSE "over"
  /\ UNCHANGED <<host, plan, got, faulty, outp>>

TakeDone ==
  /\ t = "get_done" /\ outp # <<>>
  /\ IF Head(outp) = Done THEN Send(DoneResp) /\ t' = "over"
                          ELSE UNCHANGED <<inp, t>>
  /\ outp' = Tail(outp)
  /\ UNCHANGED <<host, plan, got, faulty>>

\* A packet the host has no case for, at any time of the transfer.
SendOther ==
  /\ faulty /\ inp = <<>> /\ t # "over"
  /\ Send(Other)
  /\ UNCHANGED <<host, target, outp>>

Exited == pc \in {"ok", "fatal"} /\ UNCHANGED vars

HostStep ==
  \/ HandleHello \/ SendHelloResp \/ ReadRequest \/ WriteSegment
  \/ SendDone \/ HandleDoneResp

TargetStep ==
  SayHello \/ TakeHelloResp \/ Ask \/ TakeData \/ End \/ TakeDone

Next == HostStep \/ TargetStep \/ SendOther \/ Exited

Spec == Init /\ [][Next]_vars

\* The host's calls have timeouts; the target goes on as long as it has power.
FairSpec == Spec /\ WF_vars(HostStep) /\ WF_vars(TargetStep)
-------------------------------------------------------------------------------
Packets ==
  {NoPacket, Other, DoneResp}
    \cup {Hello(m) : m \in {"TX_PENDING", "DEBUG"}}
    \cup {EndImageTx(s) : s \in {"SUCCESS", "ERROR"}}
    \cup {ReadData(s, w) : s \in Segments, w \in BOOLEAN}

Writes == {HelloResp, Done} \cup {Data(s) : s \in Segments \cup {"empty", "stray"}}

(***************************************************************************)
(* Every variable has its type, and the host leaves the loop for           *)
(* sahara_send_packet_done only with a good END_IMAGE_TX in its buffer.    *)
(***************************************************************************)
TypeOK ==
  /\ pc \in {"hello", "hello_resp", "read", "write", "done", "done_resp", "ok", "fatal"}
  /\ buf \in Packets /\ assigned \in BOOLEAN
  /\ faulty \in Faults
  /\ t \in {"hello", "get_resp", "ask", "get_data", "end", "fail", "get_done", "over"}
  /\ plan \in Plans /\ got \in Seq(Segments)
  /\ inp \in Seq(Packets)
  /\ outp \in Seq(Writes) /\ Len(outp) <= PipeDepth
  /\ pc \in {"done", "done_resp", "ok"} => buf = EndImageTx("SUCCESS")

(***************************************************************************)
(* dowload_firehose_image leaves its loop without an error, and returns    *)
(* without one, only when the target has every segment it wanted, whatever *)
(* was lost or late before: the loop checks no write, so it is the         *)
(* target's status that has to tell.                                       *)
(***************************************************************************)
ImageIntact == pc \in {"done", "done_resp", "ok"} => got = plan

(***************************************************************************)
(* Every payload the loop writes is the segment the target has asked for   *)
(* last and is waiting for.                                                *)
(***************************************************************************)
AnswersRequest ==
  outp # <<>> /\ Head(outp).kind = "DATA" =>
    t = "get_data" /\ Head(outp).seg = plan[Len(got) + 1]

(***************************************************************************)
(* It is so when the target is never late and sends nothing else.          *)
(***************************************************************************)
AnswersInTime == ~faulty => AnswersRequest

(***************************************************************************)
(* With a target that answers in time the image is delivered.              *)
(***************************************************************************)
Delivered == ~faulty => <>(pc = "ok" /\ got = plan)
===============================================================================
