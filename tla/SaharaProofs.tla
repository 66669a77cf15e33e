----------------------------- MODULE SaharaProofs -----------------------------
(***************************************************************************)
(* Proofs about Sahara, for plans of any length over any segments and a    *)
(* pipe of any depth.                                                      *)
(***************************************************************************)
EXTENDS Sahara, SequenceTheorems, TLAPS

(***************************************************************************)
(* The inductive invariant.  A good END_IMAGE_TX, wherever it is, was sent *)
(* by a target that had everything, and the target takes nothing after it. *)
(***************************************************************************)
GoodEnd == EndImageTx("SUCCESS")

EndIsTrue ==
  /\ t \in {"end", "get_done"} => got = plan
  /\ buf = GoodEnd => t \in {"get_done", "over"} /\ got = plan
  /\ \A j \in 1..Len(inp) : inp[j] = GoodEnd => t \in {"get_done", "over"} /\ got = plan

\* What the target has is a beginning of its plan, and a proper one while it asks.
InPlan ==
  /\ Len(got) <= Len(plan)
  /\ \A j \in 1..Len(got) : got[j] = plan[j]
  /\ t \in {"ask", "get_data"} => Len(got) < Len(plan)

Wants == plan[Len(got) + 1]

(***************************************************************************)
(* With a target that is never late the two sides take turns: at most one  *)
(* packet is on its way, and it is the one the other side is waiting for.  *)
(***************************************************************************)
Turns ==
  \/ /\ outp = <<>> /\ inp = <<>>
     /\ \/ pc = "hello" /\ t = "hello"
        \/ pc = "hello_resp" /\ t = "get_resp"
        \/ pc = "read" /\ t \in {"ask", "end"}
        \/ pc = "write" /\ t = "get_data" /\ assigned /\ buf = ReadData(Wants, TRUE)
        \/ pc = "done" /\ t = "get_done"
        \/ pc = "ok" /\ t = "over"
  \/ /\ outp = <<>>
     /\ \/ pc = "hello" /\ t = "get_resp" /\ inp = <<Hello("TX_PENDING")>>
        \/ pc = "read" /\ t = "get_data" /\ inp = <<ReadData(Wants, TRUE)>>
        \/ pc = "read" /\ t = "get_done" /\ inp = <<GoodEnd>>
        \/ pc = "done_resp" /\ t = "over" /\ inp = <<DoneResp>>
  \/ /\ inp = <<>>
     /\ \/ pc = "read" /\ t = "get_resp" /\ outp = <<HelloResp>>
        \/ pc = "read" /\ t = "get_data" /\ outp = <<Data(Wants)>>
        \/ pc = "done_resp" /\ t = "get_done" /\ outp = <<Done>>

LockStep == ~faulty => Turns

IInv == TypeOK /\ EndIsTrue /\ InPlan /\ LockStep
-------------------------------------------------------------------------------
LEMMA InitInv == Init => IInv
<1> SUFFICES ASSUME Init PROVE IInv
  OBVIOUS
<1>1. plan \in Seq(Segments)
  BY SaharaAssumption DEF Init
<1>2. TypeOK
  <2>1. NoPacket \in Packets
    BY DEF Packets
  <2>2. /\ got \in Seq(Segments) /\ inp \in Seq(Packets)
        /\ outp \in Seq(Writes) /\ Len(outp) <= PipeDepth
    BY SaharaAssumption DEF Init
  <2> QED
    BY <2>1, <2>2 DEF Init, TypeOK
<1>3. EndIsTrue /\ InPlan
  BY <1>1 DEF Init, EndIsTrue, InPlan, GoodEnd, EndImageTx, NoPacket
<1>4. LockStep
  BY DEF Init, LockStep, Turns
<1> QED
  BY <1>2, <1>3, <1>4 DEF IInv

(***************************************************************************)
(* The pipes.                                                              *)
(***************************************************************************)
LEMMA ReadFacts ==
  ASSUME IInv, NEW p, Read(p)
  PROVE  /\ p \in Packets /\ inp' \in Seq(Packets)
         /\ \A j \in 1..Len(inp') : \E h \in 1..Len(inp) : inp'[j] = inp[h]
         /\ p = NoPacket \/ \E h \in 1..Len(inp) : p = inp[h]
         /\ ~faulty => inp # <<>> /\ p = Head(inp) /\ inp' = Tail(inp)
<1>1. inp \in Seq(Packets) /\ NoPacket \in Packets
  BY DEF IInv, TypeOK, Packets
<1>2. CASE inp # <<>>
  BY <1>1, <1>2, HeadTailProperties DEF Read
<1>3. CASE inp = <<>>
  BY <1>1, <1>3 DEF Read
<1> QED
  BY <1>2, <1>3

LEMMA WriteFacts ==
  ASSUME IInv, NEW p \in Writes, Written(p)
  PROVE  outp' \in Seq(Writes) /\ Len(outp') <= PipeDepth
  BY SaharaAssumption, AppendProperties DEF Written, IInv, TypeOK

LEMMA SendFacts ==
  ASSUME IInv, NEW p \in Packets, Send(p)
  PROVE  /\ inp' \in Seq(Packets)
         /\ \A j \in 1..Len(inp') :
              inp'[j] = p \/ \E h \in 1..Len(inp) : inp'[j] = inp[h]
<1>1. inp \in Seq(Packets)
  BY DEF IInv, TypeOK
<1> QED
  BY <1>1, AppendProperties DEF Send

LEMMA TakeFacts ==
  ASSUME IInv, outp # <<>>, outp' = Tail(outp)
  PROVE  outp' \in Seq(Writes) /\ Len(outp') <= PipeDepth
  BY SaharaAssumption, HeadTailProperties DEF IInv, TypeOK

LEMMA OnlyOne ==
  ASSUME NEW x
  PROVE  Head(<<x>>) = x /\ Tail(<<x>>) = <<>>
<1>1. <<x>> \in Seq({x}) /\ <<x>> # <<>>
  OBVIOUS
<1>2. Tail(<<x>>) \in Seq({x}) /\ Len(Tail(<<x>>)) = 0
  BY <1>1, HeadTailProperties
<1> QED
  BY <1>2

LEMMA PacketKinds ==
  /\ \A m : Hello(m) # GoodEnd
  /\ \A s, w : ReadData(s, w) # GoodEnd
  /\ NoPacket # GoodEnd /\ Other # GoodEnd /\ DoneResp # GoodEnd
  BY DEF Hello, GoodEnd, EndImageTx, ReadData, NoPacket, Other, DoneResp
-------------------------------------------------------------------------------
(***************************************************************************)
(* The host.  What the target has does not change; a step that reads       *)
(* leaves a part of the pipe.                                              *)
(***************************************************************************)
LEMMA HelloStep ==
  ASSUME IInv, HandleHello
  PROVE  IInv'
<1>1. PICK p : Read(p) /\ pc' = IF p = Hello("TX_PENDING") THEN "hello_resp" ELSE "fatal"
  BY DEF HandleHello
<1>2. pc = "hello" /\ UNCHANGED <<buf, assigned, t, plan, got, faulty, outp>>
  BY DEF HandleHello, target
<1>3. TypeOK'
  BY <1>1, <1>2, ReadFacts DEF IInv, TypeOK
<1>4. EndIsTrue' /\ InPlan'
  BY <1>1, <1>2, ReadFacts DEF IInv, EndIsTrue, InPlan
<1>5. LockStep'
  BY <1>1, <1>2, ReadFacts DEF IInv, LockStep, Turns
<1> QED
  BY <1>3, <1>4, <1>5 DEF IInv

LEMMA HelloRespStep ==
  ASSUME IInv, SendHelloResp
  PROVE  IInv'
<1>1. pc = "hello_resp" /\ UNCHANGED <<buf, assigned, t, plan, got, faulty, inp>>
  BY DEF SendHelloResp, target
<1>2. \/ Written(HelloResp) /\ pc' = "read"
      \/ NotWritten /\ pc' = "fatal"
  BY DEF SendHelloResp
<1>3. HelloResp \in Writes
  BY DEF Writes
<1>4. TypeOK'
  BY <1>1, <1>2, <1>3, WriteFacts DEF NotWritten, IInv, TypeOK
<1>5. EndIsTrue' /\ InPlan'
  BY <1>1 DEF IInv, EndIsTrue, InPlan
<1>6. LockStep'
  BY <1>1, <1>2 DEF IInv, LockStep, Turns, Written, NotWritten
<1> QED
  BY <1>4, <1>5, <1>6 DEF IInv

\* A status that is good is that of a good END_IMAGE_TX.
LEMMA AfterPacketFacts ==
  ASSUME NEW p \in Packets
  PROVE  /\ AfterPacket(p) \in {"write", "done", "fatal"}
         /\ AfterPacket(p) = "done" => p = GoodEnd
         /\ p = GoodEnd => AfterPacket(p) = "done"
         /\ \A s : p = ReadData(s, TRUE) => AfterPacket(p) = "write"
  BY DEF AfterPacket, EndsWell, GoodEnd, EndImageTx, ReadData

LEMMA RequestStep ==
  ASSUME IInv, ReadRequest
  PROVE  IInv'
<1>1. PICK p : /\ Read(p) /\ buf' = p /\ pc' = AfterPacket(p)
               /\ assigned' = (assigned \/ p.kind = "READ_DATA")
  BY DEF ReadRequest
<1>2. pc = "read" /\ UNCHANGED <<t, plan, got, faulty, outp>>
  BY DEF ReadRequest, target
<1>3. p \in Packets
  BY <1>1, ReadFacts
<1>4. pc' \in {"write", "done", "fatal"} /\ (pc' = "done" => buf' = GoodEnd)
  BY <1>1, <1>3, AfterPacketFacts
<1>5. assigned' \in BOOLEAN
  BY <1>1 DEF IInv, TypeOK
<1>6. TypeOK'
  BY <1>1, <1>2, <1>3, <1>4, <1>5, ReadFacts DEF IInv, TypeOK, GoodEnd
<1>7. EndIsTrue' /\ InPlan'
  BY <1>1, <1>2, ReadFacts, PacketKinds DEF IInv, EndIsTrue, InPlan
<1>8. LockStep'
  <2> SUFFICES ASSUME ~faulty PROVE Turns'
    BY <1>2 DEF LockStep
  <2>1. Turns /\ inp # <<>> /\ p = Head(inp) /\ inp' = Tail(inp)
    BY <1>1, ReadFacts DEF IInv, LockStep
  <2>2. CASE t = "get_data" /\ p = ReadData(Wants, TRUE) /\ inp' = <<>> /\ outp = <<>>
    <3>1. pc' = "write" /\ assigned'
      BY <1>1, <1>3, <2>2, AfterPacketFacts DEF ReadData
    <3> QED
      BY <1>1, <1>2, <2>2, <3>1 DEF Turns, Wants
  <2>3. CASE t = "get_done" /\ p = GoodEnd /\ inp' = <<>> /\ outp = <<>>
    <3>1. pc' = "done"
      BY <1>1, <1>3, <2>3, AfterPacketFacts
    <3> QED
      BY <1>2, <2>3, <3>1 DEF Turns
  <2>4. \/ t = "get_data" /\ inp = <<ReadData(Wants, TRUE)>> /\ outp = <<>>
        \/ t = "get_done" /\ inp = <<GoodEnd>> /\ outp = <<>>
    BY <1>2, <2>1 DEF Turns
  <2> QED
    BY <2>1, <2>2, <2>3, <2>4, OnlyOne
<1> QED
  BY <1>6, <1>7, <1>8 DEF IInv

LEMMA SegmentStep ==
  ASSUME IInv, WriteSegment
  PROVE  IInv'
<1> DEFINE d == Data(IF assigned THEN AnswerFor(buf) ELSE "stray")
<1>1. pc = "write" /\ UNCHANGED <<buf, assigned, t, plan, got, faulty, inp>>
  BY DEF WriteSegment, target
<1>2. \/ Written(d) /\ pc' = "read"
      \/ NotWritten /\ pc' = "read"
      \/ ~assigned /\ pc' = "fatal" /\ UNCHANGED outp
  BY DEF WriteSegment
<1>3. d \in Writes
  <2>1. buf.kind = "READ_DATA" => buf.seg \in Segments
    BY DEF IInv, TypeOK, Packets, NoPacket, Other, DoneResp, Hello, EndImageTx, ReadData
  <2> QED
    BY <2>1 DEF Writes, AnswerFor, SegmentOf
<1>4. ~faulty => assigned /\ d = Data(Wants) /\ outp = <<>> /\ inp = <<>> /\ t = "get_data"
  BY <1>1 DEF IInv, LockStep, Turns, AnswerFor, SegmentOf, ReadData
<1> HIDE DEF d
<1>5. TypeOK'
  BY <1>1, <1>2, <1>3, WriteFacts DEF NotWritten, IInv, TypeOK
<1>6. EndIsTrue' /\ InPlan'
  BY <1>1 DEF IInv, EndIsTrue, InPlan
<1>7. LockStep'
  <2> SUFFICES ASSUME ~faulty PROVE Turns'
    BY <1>1 DEF LockStep
  <2>1. Wants' = Wants
    BY <1>1 DEF Wants
  <2>2. pc' = "read" /\ outp' = <<d>>
    BY <1>2, <1>4 DEF Written, NotWritten
  <2> QED
    BY <1>1, <1>4, <2>1, <2>2 DEF Turns, Data
<1> QED
  BY <1>5, <1>6, <1>7 DEF IInv

LEMMA DoneStep ==
  ASSUME IInv, SendDone
  PROVE  IInv'
<1>1. pc = "done" /\ UNCHANGED <<buf, assigned, t, plan, got, faulty, inp>>
  BY DEF SendDone, target
<1>2. \/ Written(Done) /\ pc' = "done_resp"
      \/ NotWritten /\ pc' = "fatal"
  BY DEF SendDone
<1>3. Done \in Writes
  BY DEF Writes
<1>4. TypeOK'
  BY <1>1, <1>2, <1>3, WriteFacts DEF NotWritten, IInv, TypeOK
<1>5. EndIsTrue' /\ InPlan'
  BY <1>1 DEF IInv, EndIsTrue, InPlan
<1>6. LockStep'
  BY <1>1, <1>2 DEF IInv, LockStep, Turns, Written, NotWritten
<1> QED
  BY <1>4, <1>5, <1>6 DEF IInv

LEMMA DoneRespStep ==
  ASSUME IInv, HandleDoneResp
  PROVE  IInv'
<1>1. PICK p : Read(p) /\ pc' = IF p = DoneResp THEN "ok" ELSE "fatal"
  BY DEF HandleDoneResp
<1>2. pc = "done_resp" /\ UNCHANGED <<buf, assigned, t, plan, got, faulty, outp>>
  BY DEF HandleDoneResp, target
<1>3. TypeOK'
  BY <1>1, <1>2, ReadFacts DEF IInv, TypeOK
<1>4. EndIsTrue' /\ InPlan'
  BY <1>1, <1>2, ReadFacts DEF IInv, EndIsTrue, InPlan
<1>5. LockStep'
  BY <1>1, <1>2, ReadFacts DEF IInv, LockStep, Turns
<1> QED
  BY <1>3, <1>4, <1>5 DEF IInv
-------------------------------------------------------------------------------
(***************************************************************************)
(* The target.  The host does not change.                                  *)
(***************************************************************************)
LEMMA PlanFacts ==
  ASSUME IInv
  PROVE  /\ plan \in Seq(Segments) /\ got \in Seq(Segments)
         /\ Len(plan) \in Nat /\ Len(got) \in Nat
         /\ Len(got) < Len(plan) => Wants \in Segments
  BY SaharaAssumption, LenProperties, ElementOfSeq DEF IInv, TypeOK, Wants

\* A target that has not all of its plan asks for what comes next.
LEMMA AskOrEndFacts ==
  ASSUME NEW p \in Seq(Segments), NEW g \in Seq(Segments), p = plan,
         Len(g) <= Len(p), \A j \in 1..Len(g) : g[j] = p[j]
  PROVE  \/ AskOrEnd(g) = "end" /\ g = p
         \/ AskOrEnd(g) = "ask" /\ Len(g) < Len(p)
<1>1. Len(g) = Len(p) => g = p
  BY SeqEqual
<1> QED
  BY <1>1, LenProperties DEF AskOrEnd

LEMMA SayHelloStep ==
  ASSUME IInv, SayHello
  PROVE  IInv'
<1>1. PICK m \in {"TX_PENDING", "DEBUG"} : Send(Hello(m)) /\ (m = "TX_PENDING" \/ faulty)
  BY DEF SayHello
<1>2. t = "hello" /\ t' = "get_resp"
      /\ UNCHANGED <<pc, buf, assigned, plan, got, faulty, outp>>
  BY DEF SayHello, host
<1>3. Hello(m) \in Packets
  BY DEF Packets
<1>4. TypeOK'
  BY <1>1, <1>2, <1>3, SendFacts DEF IInv, TypeOK
<1>5. EndIsTrue' /\ InPlan'
  BY <1>1, <1>2, <1>3, SendFacts, PacketKinds DEF IInv, EndIsTrue, InPlan
<1>6. LockStep'
  BY <1>1, <1>2 DEF IInv, LockStep, Turns, Send
<1> QED
  BY <1>4, <1>5, <1>6 DEF IInv

LEMMA TakeHelloRespStep ==
  ASSUME IInv, TakeHelloResp
  PROVE  IInv'
<1>1. /\ t = "get_resp" /\ outp # <<>> /\ outp' = Tail(outp)
      /\ t' = IF Head(outp) = HelloResp THEN AskOrEnd(got) ELSE "fail"
      /\ UNCHANGED <<pc, buf, assigned, plan, got, faulty, inp>>
  BY DEF TakeHelloResp, host
<1>2. \/ t' = "fail"
      \/ t' = "end" /\ got = plan
      \/ t' = "ask" /\ Len(got) < Len(plan)
  BY <1>1, PlanFacts, AskOrEndFacts DEF IInv, InPlan
<1>3. TypeOK'
  BY <1>1, <1>2, TakeFacts DEF IInv, TypeOK
<1>4. EndIsTrue' /\ InPlan'
  BY <1>1, <1>2 DEF IInv, EndIsTrue, InPlan
<1>5. LockStep'
  <2> SUFFICES ASSUME ~faulty PROVE Turns'
    BY <1>1 DEF LockStep
  <2>1. pc = "read" /\ inp = <<>> /\ outp = <<HelloResp>>
    BY <1>1 DEF IInv, LockStep, Turns
  <2>2. t' \in {"ask", "end"} /\ outp' = <<>>
    BY <1>1, <2>1, OnlyOne DEF AskOrEnd
  <2> QED
    BY <1>1, <2>1, <2>2 DEF Turns
<1> QED
  BY <1>3, <1>4, <1>5 DEF IInv

LEMMA AskStep ==
  ASSUME IInv, Ask
  PROVE  IInv'
<1>1. PICK w \in BOOLEAN : (w \/ faulty) /\ Send(ReadData(Wants, w))
  BY DEF Ask, Wants
<1>2. t = "ask" /\ t' = "get_data"
      /\ UNCHANGED <<pc, buf, assigned, plan, got, faulty, outp>>
  BY DEF Ask, host
<1>3. ReadData(Wants, w) \in Packets
  BY <1>2, PlanFacts DEF Packets, IInv, InPlan
<1>4. TypeOK'
  BY <1>1, <1>2, <1>3, SendFacts DEF IInv, TypeOK
<1>5. EndIsTrue' /\ InPlan'
  BY <1>1, <1>2, <1>3, SendFacts, PacketKinds DEF IInv, EndIsTrue, InPlan
<1>6. LockStep'
  <2> SUFFICES ASSUME ~faulty PROVE Turns'
    BY <1>2 DEF LockStep
  <2>1. pc = "read" /\ inp = <<>> /\ outp = <<>>
    BY <1>2 DEF IInv, LockStep, Turns
  <2>2. inp' = <<ReadData(Wants, TRUE)>>
    <3>1. w = TRUE
      BY <1>1
    <3> QED
      BY <1>1, <2>1, <3>1 DEF Send
  <2>3. Wants' = Wants
    BY <1>2 DEF Wants
  <2> QED
    BY <1>2, <2>1, <2>2, <2>3 DEF Turns, ReadData
<1> QED
  BY <1>4, <1>5, <1>6 DEF IInv

LEMMA TakeDataStep ==
  ASSUME IInv, TakeData
  PROVE  IInv'
<1>1. /\ t = "get_data" /\ outp # <<>> /\ outp' = Tail(outp)
      /\ UNCHANGED <<pc, buf, assigned, plan, faulty, inp>>
  BY DEF TakeData, host
<1>2. \/ got' = Append(got, Wants) /\ t' = AskOrEnd(got') /\ Head(outp) = Data(Wants)
      \/ t' = "fail" /\ got' = got /\ Head(outp) # Data(Wants)
  BY DEF TakeData, Wants
<1>3. /\ got' \in Seq(Segments) /\ Len(got') <= Len(plan)
      /\ \A j \in 1..Len(got') : got'[j] = plan[j]
  <2>1. Len(got) < Len(plan) /\ Wants \in Segments
    BY <1>1, PlanFacts DEF IInv, InPlan
  <2>2. \A j \in 1..Len(got) : got[j] = plan[j]
    BY DEF IInv, InPlan
  <2>3. CASE got' = got
    BY <2>1, <2>2, <2>3, PlanFacts
  <2>4. CASE got' = Append(got, Wants)
    <3>1. /\ got' \in Seq(Segments) /\ Len(got') = Len(got) + 1
          /\ \A j \in 1..Len(got) : got'[j] = got[j]
          /\ got'[Len(got) + 1] = Wants
      BY <2>1, <2>4, PlanFacts, AppendProperties
    <3> QED
      BY <2>1, <2>2, <3>1, PlanFacts DEF Wants
  <2> QED
    BY <1>2, <2>3, <2>4
<1>4. \/ t' = "fail"
      \/ t' = "end" /\ got' = plan
      \/ t' = "ask" /\ Len(got') < Len(plan)
  BY <1>2, <1>3, PlanFacts, AskOrEndFacts
<1>5. TypeOK'
  BY <1>1, <1>3, <1>4, TakeFacts DEF IInv, TypeOK
<1>6. EndIsTrue' /\ InPlan'
  BY <1>1, <1>3, <1>4 DEF IInv, EndIsTrue, InPlan
<1>7. LockStep'
  <2> SUFFICES ASSUME ~faulty PROVE Turns'
    BY <1>1 DEF LockStep
  <2>1. pc = "read" /\ inp = <<>> /\ outp = <<Data(Wants)>>
    BY <1>1 DEF IInv, LockStep, Turns
  <2>2. t' \in {"ask", "end"} /\ outp' = <<>>
    BY <1>1, <1>2, <2>1, OnlyOne DEF AskOrEnd
  <2> QED
    BY <1>1, <2>1, <2>2 DEF Turns
<1> QED
  BY <1>5, <1>6, <1>7 DEF IInv

LEMMA EndStep ==
  ASSUME IInv, End
  PROVE  IInv'
<1> DEFINE p == EndImageTx(IF t = "end" THEN "SUCCESS" ELSE "ERROR")
<1>1. /\ t \in {"end", "fail"} /\ t' = IF t = "end" THEN "get_done" ELSE "over"
      /\ Send(p)
      /\ UNCHANGED <<pc, buf, assigned, plan, got, faulty, outp>>
  BY DEF End, host
<1>2. p \in Packets
  BY DEF Packets
<1>3. p = GoodEnd => t' = "get_done" /\ got = plan
  BY <1>1 DEF GoodEnd, EndImageTx, IInv, EndIsTrue
<1>4. t = "end" => p = GoodEnd
  BY DEF GoodEnd
<1> HIDE DEF p
<1>5. TypeOK'
  BY <1>1, <1>2, SendFacts DEF IInv, TypeOK
<1>6. EndIsTrue' /\ InPlan'
  BY <1>1, <1>2, <1>3, SendFacts DEF IInv, EndIsTrue, InPlan
<1>7. LockStep'
  <2> SUFFICES ASSUME ~faulty PROVE Turns'
    BY <1>1 DEF LockStep
  <2>1. pc = "read" /\ inp = <<>> /\ outp = <<>> /\ t = "end"
    BY <1>1 DEF IInv, LockStep, Turns
  <2>2. inp' = <<GoodEnd>>
    BY <1>1, <1>4, <2>1 DEF Send
  <2> QED
    BY <1>1, <2>1, <2>2 DEF Turns, GoodEnd, EndImageTx
<1> QED
  BY <1>5, <1>6, <1>7 DEF IInv

LEMMA TakeDoneStep ==
  ASSUME IInv, TakeDone
  PROVE  IInv'
<1>1. /\ t = "get_done" /\ outp # <<>> /\ outp' = Tail(outp)
      /\ UNCHANGED <<pc, buf, assigned, plan, got, faulty>>
  BY DEF TakeDone, host
<1>2. \/ Head(outp) = Done /\ Send(DoneResp) /\ t' = "over"
      \/ Head(outp) # Done /\ UNCHANGED <<inp, t>>
  BY DEF TakeDone
<1>3. DoneResp \in Packets
  BY DEF Packets
<1>4. TypeOK'
  BY <1>1, <1>2, <1>3, SendFacts, TakeFacts DEF IInv, TypeOK
<1>5. EndIsTrue' /\ InPlan'
  BY <1>1, <1>2, <1>3, SendFacts, PacketKinds DEF IInv, EndIsTrue, InPlan
<1>6. LockStep'
  <2> SUFFICES ASSUME ~faulty PROVE Turns'
    BY <1>1 DEF LockStep
  <2>1. pc = "done_resp" /\ inp = <<>> /\ outp = <<Done>>
    BY <1>1 DEF IInv, LockStep, Turns
  <2>2. inp' = <<DoneResp>> /\ t' = "over" /\ outp' = <<>>
    BY <1>1, <1>2, <2>1, OnlyOne DEF Send
  <2> QED
    BY <1>1, <2>1, <2>2 DEF Turns
<1> QED
  BY <1>4, <1>5, <1>6 DEF IInv

LEMMA SendOtherStep ==
  ASSUME IInv, SendOther
  PROVE  IInv'
<1>1. /\ faulty /\ Send(Other)
      /\ UNCHANGED <<pc, buf, assigned, t, plan, got, faulty, outp>>
  BY DEF SendOther, host, target
<1>2. Other \in Packets
  BY DEF Packets
<1>3. TypeOK'
  BY <1>1, <1>2, SendFacts DEF IInv, TypeOK
<1>4. EndIsTrue' /\ InPlan' /\ LockStep'
  BY <1>1, <1>2, SendFacts, PacketKinds DEF IInv, EndIsTrue, InPlan, LockStep
<1> QED
  BY <1>3, <1>4 DEF IInv
-------------------------------------------------------------------------------
LEMMA NextInv == IInv /\ [Next]_vars => IInv'
<1> SUFFICES ASSUME IInv, [Next]_vars PROVE IInv'
  OBVIOUS
<1>1. CASE HostStep
  BY <1>1, HelloStep, HelloRespStep, RequestStep, SegmentStep, DoneStep, DoneRespStep
     DEF HostStep
<1>2. CASE TargetStep
  BY <1>2, SayHelloStep, TakeHelloRespStep, AskStep, TakeDataStep, EndStep, TakeDoneStep
     DEF TargetStep
<1>3. CASE SendOther
  BY <1>3, SendOtherStep
<1>4. CASE UNCHANGED vars
  <2>1. TypeOK' /\ EndIsTrue'
    BY <1>4 DEF IInv, TypeOK, EndIsTrue, vars, host, target
  <2>2. InPlan' /\ LockStep'
    BY <1>4 DEF IInv, InPlan, LockStep, Turns, Wants, vars, host, target
  <2> QED
    BY <2>1, <2>2 DEF IInv
<1> QED
  BY <1>1, <1>2, <1>3, <1>4 DEF Next, Exited

LEMMA Invariance == Spec => []IInv
<1>1. Init => IInv
  BY InitInv
<1>2. IInv /\ [Next]_vars => IInv'
  BY NextInv
<1> QED
  BY <1>1, <1>2, PTL DEF Spec

(***************************************************************************)
(* The packets in both pipes and in buf are packets of the protocol, the   *)
(* pipe is never overfull, and sahara_send_packet_done is only called      *)
(* after a good END_IMAGE_TX.                                              *)
(***************************************************************************)
THEOREM TypeCorrect == Spec => []TypeOK
<1>1. IInv => TypeOK
  BY DEF IInv
<1> QED
  BY <1>1, Invariance, PTL

(***************************************************************************)
(* However long the image and whatever is late, lost or sent out of turn,  *)
(* dowload_firehose_image does not return without an error unless the      *)
(* boot loader has every segment it asked for.                             *)
(***************************************************************************)
THEOREM ImageArrivesIntact == Spec => []ImageIntact
<1>1. IInv => ImageIntact
  BY DEF IInv, TypeOK, EndIsTrue, ImageIntact, GoodEnd
<1> QED
  BY <1>1, Invariance, PTL

(***************************************************************************)
(* When the boot loader is never late and sends nothing of its own, every  *)
(* payload the loop writes is the segment it is waiting for.               *)
(***************************************************************************)
THEOREM InTimeAnswersRequest == Spec => []AnswersInTime
<1>1. IInv => AnswersInTime
  <2> SUFFICES ASSUME IInv, ~faulty, outp # <<>>, Head(outp).kind = "DATA"
               PROVE  t = "get_data" /\ Head(outp).seg = plan[Len(got) + 1]
    BY DEF AnswersInTime, AnswersRequest
  <2>1. /\ Head(<<HelloResp>>).kind # "DATA" /\ Head(<<Done>>).kind # "DATA"
        /\ Head(<<Data(Wants)>>).seg = Wants
    BY OnlyOne DEF HelloResp, Done, Data
  <2>2. t = "get_data" /\ outp = <<Data(Wants)>>
    BY <2>1 DEF IInv, LockStep, Turns
  <2> QED
    BY <2>1, <2>2 DEF Wants
<1> QED
  BY <1>1, Invariance, PTL
===============================================================================
