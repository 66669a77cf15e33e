---------------------------- MODULE UsbToolsProofs ----------------------------
(***************************************************************************)
(* Proofs about UsbTools, for any phones that come and go, any serials and *)
(* any number of looks at the bus.                                         *)
(***************************************************************************)
EXTENDS UsbTools, FiniteSetTheorems, SequenceTheorems, TLAPS

Switching == {"to_qdl_mode", "named", "default", "open", "read", "switch", "free", "check"}
Looking == {"flash", "findnamed", "finddefault", "openusb"}
Transferring == {"sahara", "download", "downloaded"}

Asking == look \in {"open", "string"}

(***************************************************************************)
(* The inductive invariant.  Addressed: what the process points at has     *)
(* been on the bus, so that it has a phone and a serial for good.          *)
(***************************************************************************)
Addressed ==
  /\ Len(objects) <= MaxAddress
  /\ listed \subseteq DOMAIN objects /\ own \subseteq DOMAIN objects
  /\ {dev, handle, first, asked} \subseteq DOMAIN objects \cup {Null}

SwitchControl ==
  /\ pc \in Switching => result = "none"
  /\ pc \in Switching \cup {"switched"} => status = 0 /\ first = Null
  /\ pc \in {"to_qdl_mode", "named", "default", "open"} => serial = given
  /\ pc \in {"to_qdl_mode", "named", "default"} => matched = 0
  /\ pc = "named" => given # <<>>
  /\ pc = "default" => given = <<>>
  /\ pc = "open" /\ given # <<>> => matched = 0
  /\ pc \in {"open", "read", "switch"} => dev # Null

FlashControl ==
  /\ pc \in Switching \cup Looking \cup {"switched"} => handle = Null /\ ~usable
  /\ pc \in Looking \cup {"claim"} => status = 0
  /\ pc = "findnamed" => given # <<>>
  /\ pc = "finddefault" => given = <<>>
  /\ pc \in {"openusb", "claim"} => dev # Null /\ is_legal_qdl_device(dev)
  /\ pc = "claim" => handle = dev /\ ~usable
  /\ pc = "undo" => ~usable /\ status # 0
  /\ pc = "exited" /\ usable => status = 0
  /\ pc \in Transferring => usable /\ status = 0 /\ first = Null
  /\ pc = "commands" => (usable <=> status = 0) /\ first # Null
  /\ usable => handle # Null /\ is_legal_qdl_device(handle)

\* Where device.c is called, and for what.
ReadControl ==
  /\ look = "none" => own = {} /\ rest = {} /\ asked = Null
  /\ look # "none" => pc \in {"named", "read", "check", "findnamed"}
  /\ Asking => asked # Null
  /\ Asking /\ pc # "read" => asked \in own
  /\ look = "returned" => own = {}
  /\ pc = "read" => Asking /\ asked = dev /\ own = {}

\* What the process must have of the object a, by where it is.
HoldsDev ==
  \/ pc \in {"open", "read", "switch", "openusb", "claim"}
  \/ pc = "undo" /\ status # -2

One(b) == IF b THEN 1 ELSE 0

Held(a) ==
  One(a \in listed) + One(a = dev /\ HoldsDev)
    + One(a \in own) + One(a = asked /\ look = "returned")

\* The reference that qdl_usb_init drops with several devices.
Short(a) == One(status = -2 /\ a = dev /\ pc # "undo")

HandleOpen(a) ==
  \/ pc \in {"read", "switch"} /\ a = dev
  \/ (pc \in {"claim", "undo"} \/ usable) /\ a = handle

ReadOpen(a) == look = "string" /\ a = asked

Open1(a) == One(HandleOpen(a)) + One(ReadOpen(a))

Covered ==
  \A a \in Addresses : refs[a] >= Held(a) - Short(a) /\ opened[a] >= Open1(a)

\* Where the process, without faults, has that and no more, but for a handle
\* of a device that left while it was asked for its serial.
Accounted ==
  \/ pc \in Switching \ {"free", "check"}
  \/ pc \in {"free", "check", "switched"} /\ matched = 1 /\ serial # <<>>
  \/ first = Null /\ pc \in Looking \cup {"claim"}
  \/ first = Null /\ pc \in {"undo", "exited"} /\ status = -1

OpenedRight(a) ==
  \/ opened[a] = Open1(a)
  \/ opened[a] = Open1(a) + 1 /\ a \in DOMAIN objects \ bus /\ ~ReadOpen(a)

Exact ==
  ~faulty /\ Accounted => \A a \in Addresses : refs[a] = Held(a) /\ OpenedRight(a)

NoList ==
  \/ pc \in {"to_qdl_mode", "check", "switched"}
  \/ pc = "flash" /\ first = Null
  \/ pc = "exited" /\ first = Null /\ status = -1
  => listed = {}

\* The command line of flash means a.
Means(a) == IF given = <<>> THEN is_legal_qdl_device(a) ELSE IsPrefix(given, SerialOf(a))

\* A device that left before it was opened may have been taken for another.
DeviceMeant ==
  ~faulty => \A a \in Addresses :
    \/ pc = "openusb" /\ a = dev /\ a \in bus
    \/ pc = "findnamed" /\ look = "returned" /\ a = asked /\ a \in bus
    \/ pc = "claim" /\ a = dev
    \/ usable /\ a = handle
    \/ a = first
    => Means(a)

\* The serial that to_qdl_mode looks for is one that its device has, as long
\* as it is there.
SerialKnown ==
  ~faulty => \A a \in bus :
    \/ pc \in {"open", "read", "switch", "free", "check"} /\ a = dev
    \/ pc = "named" /\ look = "returned" /\ a = asked
    => IsPrefix(serial, SerialOf(a))

\* While that device is there, get_device_from_serial has not passed it.
NotPassed ==
  ~faulty /\ pc = "check" /\ dev \in bus =>
    /\ Asking => dev \in rest \cup {asked}
    /\ look = "returned" => asked # Null

IInv ==
  /\ TypeOK /\ Addressed /\ SwitchControl /\ FlashControl /\ ReadControl
  /\ Covered /\ Exact /\ NoList
  /\ DeviceMeant /\ SerialKnown /\ NotPassed /\ SuccessMeansGone
-------------------------------------------------------------------------------
(***************************************************************************)
(* Objects, counters and the lookup.                                       *)
(***************************************************************************)
LEMMA ObjectFacts ==
  ASSUME TypeOK, Addressed
  PROVE  /\ Len(objects) \in Nat /\ DOMAIN objects = 1..Len(objects)
         /\ DOMAIN objects \subseteq Addresses /\ Null \notin DOMAIN objects
         /\ \A a \in DOMAIN objects : objects[a] \in [phone : Phones, mode : Modes]
         /\ bus \subseteq DOMAIN objects /\ listed \subseteq DOMAIN objects
<1>1. objects \in Seq([phone : Phones, mode : Modes])
  BY DEF TypeOK, UsbTypeOK
<1>2. Len(objects) \in Nat /\ DOMAIN objects = 1..Len(objects)
  BY <1>1
<1>3. \A a \in DOMAIN objects : objects[a] \in [phone : Phones, mode : Modes]
  BY <1>1, <1>2, ElementOfSeq
<1>4. DOMAIN objects \subseteq Addresses /\ Null \notin DOMAIN objects
  BY <1>2, FaultsAssumption DEF Addressed, Addresses, Null
<1> QED
  BY <1>1, <1>2, <1>3, <1>4 DEF TypeOK, UsbTypeOK, Addressed

\* The devices of the list can be counted.
LEMMA ListFacts ==
  ASSUME TypeOK, Addressed, NEW S \in SUBSET listed
  PROVE  /\ Cardinality(S) \in 0..MaxAddress
         /\ S = {} <=> Cardinality(S) = 0
         /\ Cardinality(S) = 1 => \E x \in listed : S = {x}
<1>1. IsFiniteSet(1..Len(objects)) /\ Cardinality(1..Len(objects)) = Len(objects)
  <2>1. \A n \in Nat : IsFiniteSet(1..n) /\ Cardinality(1..n) = n
    <3> SUFFICES ASSUME NEW n \in Nat PROVE IsFiniteSet(1..n) /\ Cardinality(1..n) = n
      OBVIOUS
    <3>1. IsFiniteSet(1..n) /\ Cardinality(1..n) = IF 1 > n THEN 0 ELSE n - 1 + 1
      BY FS_Interval
    <3> QED
      BY <3>1
  <2> QED
    BY <2>1, ObjectFacts
<1>2. S \subseteq 1..Len(objects)
  BY ObjectFacts
<1>3. IsFiniteSet(S) /\ Cardinality(S) <= Len(objects)
  BY <1>1, <1>2, FS_Subset
<1>4. Cardinality(S) \in Nat
  BY <1>3, FS_CardinalityType
<1>5. S = {} <=> Cardinality(S) = 0
  BY <1>3, FS_EmptySet
<1>6. Cardinality(S) = 1 => \E x : S = {x}
  BY <1>3, FS_Singleton
<1> QED
  BY <1>3, <1>4, <1>5, <1>6, FaultsAssumption, ObjectFacts DEF Addressed

LEMMA CountFacts ==
  ASSUME NEW S
  PROVE  /\ \A f \in [Addresses -> Int] :
              Plus(f, S) \in [Addresses -> Int] /\ Minus(f, S) \in [Addresses -> Int]
         /\ \A f \in [Addresses -> Nat] : Plus(f, S) \in [Addresses -> Nat]
         /\ \A f \in [Addresses -> Nat] :
              (\A a \in Addresses : a \in S => f[a] > 0) => Minus(f, S) \in [Addresses -> Nat]
         /\ NothingHeld \in [Addresses -> Int] /\ NothingHeld \in [Addresses -> Nat]
BY DEF Plus, Minus, NothingHeld

LEMMA EmptyIsPrefix ==
  ASSUME NEW S, NEW s \in Seq(S)
  PROVE  IsPrefix(<<>>, s) /\ IsPrefix(s, s)
BY DEF IsPrefix

LEMMA SerialIsText ==
  ASSUME TypeOK, Addressed, NEW a \in DOMAIN objects
  PROVE  SerialOf(a) \in Seq(Nat)
<1>1. SerialIn[objects[a].phone][objects[a].mode] \in Seq(Nat)
  BY SerialsAreText, ObjectFacts
<1>2. FromAddress(a) \in Seq(Nat)
  BY ObjectFacts DEF FromAddress
<1> QED
  BY <1>1, <1>2 DEF SerialOf

LEMMA AnswerFacts ==
  ASSUME TypeOK, Addressed, Asking => asked # Null, NEW ans \in Answers
  PROVE  /\ Asking /\ asked \in DOMAIN objects
         /\ ans.text # <<>> => look = "string"
         /\ ~faulty /\ asked \in bus =>
              look = "string" /\ ans.r = 0 /\ ans.text = SerialOf(asked)
         /\ ~faulty /\ look = "string" /\ ans.text = <<>> => asked \notin bus
<1>1. Asking
  BY DEF Answers, Asking
<1>2. asked \in DOMAIN objects
  BY <1>1 DEF Addressed
<1>3. SerialOf(asked) # <<>> /\ FromAddress(asked) # <<>>
  <2>1. FromAddress(asked) # <<>>
    BY DEF FromAddress
  <2> QED
    BY <2>1 DEF SerialOf
<1>4. CASE look = "open"
  <2>a. Answers = {x \in {Answer(1, <<>>)} : Failing} \cup {x \in {Answer(-1, <<>>)} : faulty}
    BY <1>4 DEF Answers
  <2>1. (Failing /\ ans = Answer(1, <<>>)) \/ (faulty /\ ans = Answer(-1, <<>>))
    BY <2>a
  <2>2. ans.text = <<>>
    BY <2>1 DEF Answer
  <2> QED
    BY <1>1, <1>2, <1>4, <2>1, <2>2 DEF Failing
<1>5. CASE look = "string"
  <2>1. \/ asked \in bus /\ ans = Answer(0, SerialOf(asked))
        \/ Failing /\ ans \in {Answer(-1, <<>>), Answer(0, FromAddress(asked))}
        \/ faulty /\ ans = Answer(0, <<>>)
    BY <1>5 DEF Answers
  <2>2. ~faulty /\ asked \in bus => ans.r = 0 /\ ans.text = SerialOf(asked)
    BY <2>1 DEF Failing, Answer
  <2>3. ~faulty /\ ans.text = <<>> => asked \notin bus
    BY <1>3, <2>2
  <2> QED
    BY <1>1, <1>2, <1>5, <2>2, <2>3
<1> QED
  BY <1>1, <1>4, <1>5 DEF Asking

\* A step of the tool inside get_device_from_serial, or into it.
AskStep(text) == CallDeviceFromSerial \/ get_device_from_serial(text)

(***************************************************************************)
(* Such a step comes to the next device of the list, opens the one it is   *)
(* at, or frees the list and returns.                                      *)
(***************************************************************************)
ToNext(f, list) ==
  /\ asked' \in list /\ own' = list /\ rest' \subseteq list /\ look' = "open"
  /\ refs' = f

LEMMA AskCases ==
  ASSUME NEW text, AskStep(text), TypeOK, Addressed, ReadControl, pc # "read"
  PROVE  \/ /\ look = "none" /\ opened' = opened
            /\ \/ ToNext(Plus(refs, bus), bus) /\ rest' = bus \ {asked'}
               \/ Return(Null, Plus(refs, bus), bus) /\ bus = {}
               \/ Return(Null, refs, {}) /\ faulty
         \/ OpenAsked
         \/ /\ Asking /\ asked \in own
            /\ \E ans \in Answers :
                 /\ Hit(text, ans) /\ CloseAsked(ans)
                 /\ Return(asked, Plus(refs, {asked}), own)
         \/ /\ Asking /\ asked \in own
            /\ \E ans \in Answers :
                 /\ ~Hit(text, ans) /\ CloseAsked(ans)
                 /\ \/ ToNext(refs, own) /\ asked' \in rest /\ rest' = rest \ {asked'}
                    \/ Return(Null, refs, own) /\ rest = {}
<1>1. rest \subseteq own
  BY DEF TypeOK, UsbTypeOK
<1>2. (\E ans \in Answers : TRUE) => Asking /\ asked \in own
  BY DEF Answers, ReadControl, Asking
<1>3. CASE CallDeviceFromSerial
  BY <1>3 DEF CallDeviceFromSerial, NextDevice, ToNext
<1>4. CASE OpenAsked
  BY <1>4
<1>5. CASE TakeDevice(text)
  BY <1>2, <1>5 DEF TakeDevice
<1>6. CASE PassDevice(text)
  BY <1>1, <1>2, <1>6 DEF PassDevice, NextDevice, ToNext
<1> QED
  BY <1>3, <1>4, <1>5, <1>6 DEF AskStep, get_device_from_serial

LEMMA PhoneFacts ==
  ASSUME TypeOK, Addressed, PhoneComes \/ PhoneLeaves
  PROVE  /\ objects' \in Seq([phone : Phones, mode : Modes])
         /\ bus' \subseteq DOMAIN objects' /\ Len(objects') <= MaxAddress
         /\ DOMAIN objects \subseteq DOMAIN objects'
         /\ \A a \in DOMAIN objects : objects'[a] = objects[a] /\ SerialOf(a)' = SerialOf(a)
         /\ UNCHANGED <<boots, faulty, refs, opened, pc, given, listed, dev, look, own, rest, asked>>
<1>1. UNCHANGED <<boots, faulty, refs, opened, pc, given, listed, dev, look, own, rest, asked>>
  BY DEF PhoneComes, PhoneLeaves, process, reading
<1>2. CASE PhoneComes
  <2>1. PICK p \in Phones : objects' = Append(objects, [phone |-> p, mode |-> boots[p]])
                            /\ bus' = bus \cup {Len(objects')}
    BY <1>2 DEF PhoneComes
  <2>2. [phone |-> p, mode |-> boots[p]] \in [phone : Phones, mode : Modes]
    BY DEF TypeOK, UsbTypeOK
  <2>3. objects \in Seq([phone : Phones, mode : Modes]) /\ bus \subseteq DOMAIN objects
    BY DEF TypeOK, UsbTypeOK
  <2>4. /\ objects' \in Seq([phone : Phones, mode : Modes])
        /\ Len(objects') = Len(objects) + 1
        /\ \A a \in DOMAIN objects : objects'[a] = objects[a]
    BY <2>1, <2>2, <2>3
  <2>5. DOMAIN objects = 1..Len(objects) /\ DOMAIN objects' = 1..Len(objects')
        /\ Len(objects) \in Nat
    BY <2>3, <2>4
  <2>6. Len(objects') <= MaxAddress
    BY <1>2, <2>4, <2>5, FaultsAssumption DEF PhoneComes
  <2>7. \A a \in DOMAIN objects : SerialOf(a)' = SerialOf(a)
    BY <2>4 DEF SerialOf, FromAddress, is_legal_device
  <2> QED
    BY <1>1, <2>1, <2>3, <2>4, <2>5, <2>6, <2>7
<1>3. CASE PhoneLeaves
  <2>1. objects' = objects /\ bus' \subseteq bus
    BY <1>3 DEF PhoneLeaves
  <2>2. \A a \in DOMAIN objects : SerialOf(a)' = SerialOf(a)
    BY <2>1 DEF SerialOf, FromAddress, is_legal_device
  <2> QED
    BY <1>1, <2>1, <2>2 DEF TypeOK, UsbTypeOK, Addressed
<1> QED
  BY <1>2, <1>3

\* An object that has left the bus is not on it again.
LEMMA PhoneLater ==
  ASSUME TypeOK, Addressed, PhoneComes \/ PhoneLeaves
  PROVE  \A a \in DOMAIN objects : a \in bus' => a \in bus
<1>1. CASE PhoneComes
  <2>1. bus' = bus \cup {Len(objects')} /\ Len(objects') = Len(objects) + 1
    <3>1. objects \in Seq([phone : Phones, mode : Modes])
      BY DEF TypeOK, UsbTypeOK
    <3>2. PICK p \in Phones : objects' = Append(objects, [phone |-> p, mode |-> boots[p]])
                              /\ bus' = bus \cup {Len(objects')}
      BY <1>1 DEF PhoneComes
    <3>3. [phone |-> p, mode |-> boots[p]] \in [phone : Phones, mode : Modes]
      BY DEF TypeOK, UsbTypeOK
    <3> QED
      BY <3>1, <3>2, <3>3
  <2>2. DOMAIN objects = 1..Len(objects) /\ Len(objects) \in Nat
    BY ObjectFacts
  <2> QED
    BY <2>1, <2>2
<1>2. CASE PhoneLeaves
  BY <1>2 DEF PhoneLeaves
<1> QED
  BY <1>1, <1>2
-------------------------------------------------------------------------------
(***************************************************************************)
(* Types, and what is pointed at.                                          *)
(***************************************************************************)
LEMMA InitInv == Init => IInv
<1> SUFFICES ASSUME Init PROVE IInv
  OBVIOUS
<1>0. PICK S \in SUBSET Phones :
             objects \in {[k \in DOMAIN q |-> [phone |-> q[k], mode |-> boots[q[k]]]] :
                             q \in SetToSeqs(S)}
  BY DEF Init, UsbInit
<1>1. PICK q \in SetToSeqs(S) :
             objects = [k \in DOMAIN q |-> [phone |-> q[k], mode |-> boots[q[k]]]]
  BY <1>0
<1>2. IsFiniteSet(S) /\ Cardinality(S) \in Nat /\ Cardinality(S) <= Cardinality(Phones)
      /\ Cardinality(Phones) \in Nat
  BY PhonesFit, FS_Subset, FS_CardinalityType
<1>3. q \in [1..Cardinality(S) -> S]
  BY DEF SetToSeqs
<1>4. boots \in [Phones -> Modes]
  BY DEF Init, UsbInit
<1>5. objects \in [1..Cardinality(S) -> [phone : Phones, mode : Modes]]
  BY <1>1, <1>3, <1>4
<1>6. objects \in Seq([phone : Phones, mode : Modes]) /\ Len(objects) = Cardinality(S)
  <2>1. \A R, n : n \in Nat => \A s \in [1..n -> R] : s \in Seq(R) /\ Len(s) = n
    OBVIOUS
  <2> QED
    BY <1>2, <1>5, <2>1
<1>7. Len(objects) <= MaxAddress
  BY <1>2, <1>6, PhonesFit, FaultsAssumption
<1>8. UsbTypeOK
  BY <1>4, <1>6, CountFacts DEF Init, UsbInit, UsbTypeOK
<1>9. TypeOK
  <2>1. /\ listed \subseteq Addresses /\ dev \in Addresses \cup {Null}
        /\ {handle, first} \subseteq Addresses \cup {Null} /\ usable \in BOOLEAN
    BY DEF Init, UsbInit, FlashInit
  <2>2. matched \in 0..MaxAddress /\ tries \in 0..MaxRetry
    BY MaxRetryAssumption, FaultsAssumption DEF Init, SwitchInit
  <2>3. result = "none" /\ there = FALSE /\ status = 0
    BY DEF Init, SwitchInit, FlashInit
  <2>4. pc \in {"to_qdl_mode", "flash"} /\ given \in Serials
    BY DEF Init
  <2> QED
    BY <1>8, <2>1, <2>2, <2>3, <2>4 DEF TypeOK
<1>10. Addressed
  BY <1>7 DEF Init, UsbInit, FlashInit, Addressed
<1>11. SwitchControl /\ FlashControl /\ ReadControl
  BY DEF Init, UsbInit, FlashInit, SwitchInit, SwitchControl, FlashControl, ReadControl, Asking,
         Switching, Looking, Transferring
<1>12. \A a \in Addresses : Held(a) = 0 /\ Open1(a) = 0 /\ Short(a) = 0
  BY DEF Init, UsbInit, FlashInit, One, Held, HoldsDev, Short, Open1, HandleOpen, ReadOpen
<1>13. \A a \in Addresses : refs[a] = 0 /\ opened[a] = 0
  BY DEF Init, UsbInit, NothingHeld
<1>14. Covered /\ Exact /\ NoList
  BY <1>12, <1>13 DEF Init, UsbInit, Covered, Exact, OpenedRight, NoList
<1>15. SuccessMeansGone
  BY DEF Init, SwitchInit, SuccessMeansGone
<1>16. DeviceMeant /\ SerialKnown /\ NotPassed
  BY DEF Init, UsbInit, FlashInit, DeviceMeant, SerialKnown, NotPassed, Addresses, Null
<1> QED
  BY <1>9, <1>10, <1>11, <1>14, <1>15, <1>16 DEF IInv
\* What device.c does keeps the types.
ReadTypes ==
  /\ refs \in [Addresses -> Int] /\ opened \in [Addresses -> Nat]
  /\ look \in {"none", "open", "string", "returned"}
  /\ own \subseteq DOMAIN objects /\ rest \subseteq own
  /\ asked \in DOMAIN objects \cup {Null}

LEMMA CloseTypes ==
  ASSUME IInv, NEW ans \in Answers, CloseAsked(ans)
  PROVE  opened' \in [Addresses -> Nat]
<1>1. opened \in [Addresses -> Nat] /\ Open1(asked) \in Nat
  BY DEF IInv, TypeOK, UsbTypeOK, Open1, One
<1>2. look = "string" => Open1(asked) >= 1
  BY DEF Open1, ReadOpen, One
<1>3. asked \in Addresses /\ (ans.text # <<>> => look = "string")
  BY AnswerFacts, ObjectFacts DEF IInv, ReadControl
<1>4. ans.text # <<>> => opened[asked] > 0
  BY <1>1, <1>2, <1>3 DEF IInv, Covered
<1>5. ans.text # <<>> => Minus(opened, {asked}) \in [Addresses -> Nat]
  BY <1>1, <1>4, CountFacts
<1> QED
  BY <1>1, <1>5 DEF CloseAsked

LEMMA AskTypes ==
  ASSUME IInv, NEW text, AskStep(text), pc # "read", UNCHANGED objects
  PROVE  ReadTypes'
<1>1. /\ bus \subseteq DOMAIN objects /\ own \subseteq DOMAIN objects /\ rest \subseteq own
      /\ asked \in DOMAIN objects \cup {Null}
      /\ refs \in [Addresses -> Int] /\ opened \in [Addresses -> Nat]
  BY ObjectFacts DEF IInv, Addressed, TypeOK, UsbTypeOK
<1>2. \A S : /\ Plus(refs, S) \in [Addresses -> Int] /\ Minus(refs, S) \in [Addresses -> Int]
             /\ Plus(opened, S) \in [Addresses -> Nat]
             /\ \A R : Minus(Plus(refs, R), S) \in [Addresses -> Int]
  BY <1>1, CountFacts
<1>3. \A ans \in Answers : CloseAsked(ans) => opened' \in [Addresses -> Nat]
  BY CloseTypes
<1> USE <1>1, <1>2 DEF ReadTypes, Return
<1>4. CASE look = "none" /\ opened' = opened /\ ToNext(Plus(refs, bus), bus)
  BY <1>4 DEF ToNext
<1>5. CASE look = "none" /\ opened' = opened /\ Return(Null, Plus(refs, bus), bus)
  BY <1>5
<1>6. CASE look = "none" /\ opened' = opened /\ Return(Null, refs, {})
  BY <1>6
<1>7. CASE OpenAsked
  BY <1>7 DEF OpenAsked
<1>8. CASE \E ans \in Answers : CloseAsked(ans) /\ Return(asked, Plus(refs, {asked}), own)
  BY <1>3, <1>8
<1>9. CASE \E ans \in Answers : CloseAsked(ans) /\ Return(Null, refs, own)
  BY <1>3, <1>9
<1>10. CASE \E ans \in Answers : CloseAsked(ans) /\ ToNext(refs, own)
  BY <1>3, <1>10 DEF ToNext
<1> QED
  BY <1>4, <1>5, <1>6, <1>7, <1>8, <1>9, <1>10, AskCases DEF IInv

LEMMA TypeStep ==
  ASSUME IInv, Next
  PROVE  TypeOK' /\ Addressed'
<1> USE DEF IInv
<1>a. /\ bus \subseteq Addresses /\ listed \subseteq Addresses /\ dev \in Addresses \cup {Null}
      /\ DOMAIN objects \subseteq Addresses /\ Null \notin DOMAIN objects
      /\ bus \subseteq DOMAIN objects
  BY ObjectFacts DEF TypeOK
<1>b. \A a \in Addresses : HandleOpen(a) => opened[a] > 0
  <2>1. \A a \in Addresses : HandleOpen(a) => Open1(a) >= 1
    BY DEF Open1, One
  <2>2. \A a \in Addresses : opened[a] \in Nat /\ Open1(a) \in Nat
    BY DEF TypeOK, UsbTypeOK, Open1, One
  <2> QED
    BY <2>1, <2>2 DEF Covered
<1>c. \A S : /\ Plus(refs, S) \in [Addresses -> Int] /\ Minus(refs, S) \in [Addresses -> Int]
             /\ Plus(opened, S) \in [Addresses -> Nat]
             /\ (\A a \in Addresses : a \in S => HandleOpen(a))
                  => Minus(opened, S) \in [Addresses -> Nat]
  BY <1>b, CountFacts DEF TypeOK, UsbTypeOK
<1>u. refs \in [Addresses -> Int] /\ opened \in [Addresses -> Nat]
  BY DEF TypeOK, UsbTypeOK
<1>d. \A S \in SUBSET listed :
        /\ Cardinality(S) \in 0..MaxAddress
        /\ Referenced(refs, S) \in [Addresses -> Int]
        /\ AnyOf(S) \subseteq listed \cup {Null}
  BY <1>c, ListFacts DEF Referenced, AnyOf, TypeOK, UsbTypeOK
<1>e. /\ own \subseteq DOMAIN objects /\ rest \subseteq own /\ own \subseteq Addresses
      /\ asked \in DOMAIN objects \cup {Null}
      /\ look \in {"none", "open", "string", "returned"}
  BY <1>a DEF TypeOK, UsbTypeOK, Addressed
<1>r. ASSUME ReadTypes', UNCHANGED <<objects, bus, boots>>
      PROVE  UsbTypeOK' /\ own' \subseteq DOMAIN objects' /\ asked' \in DOMAIN objects' \cup {Null}
  BY <1>a, <1>r DEF ReadTypes, TypeOK, UsbTypeOK
<1>1. CASE SwitchStep /\ UNCHANGED flash
  <2> USE <1>1 DEF flash
  <2>1. CASE GetDeviceList
    <3>1. /\ refs' \in [Addresses -> Int] /\ listed' \in {listed, bus}
          /\ pc' \in {"switched", "named", "default"}
          /\ UNCHANGED <<objects, bus, boots, faulty, opened, given, dev,
                         serial, matched, tries, result, there, look, own, rest, asked>>
      BY <1>c, <1>u, <2>1 DEF GetDeviceList, reading
    <3> QED
      BY <1>a, <3>1 DEF TypeOK, UsbTypeOK, Addressed, Ends
  <2>2. CASE ChooseNamed
    BY <1>a, <1>e, <2>2 DEF ChooseNamed, Received, usb, TypeOK, UsbTypeOK, Addressed
  <2>3. CASE ChooseDefault
    BY <1>a, <1>d, <2>3 DEF ChooseDefault, reading, TypeOK, UsbTypeOK, Addressed
  <2>4. CASE OpenFails
    BY <2>4 DEF OpenFails, usb, reading, TypeOK, UsbTypeOK, Addressed
  <2>5. CASE Open
    <3>1. /\ opened' \in [Addresses -> Nat] /\ matched' = 1 /\ pc' \in {"switch", "read"}
          /\ look' \in {look, "open"} /\ asked' \in {asked, dev}
          /\ UNCHANGED <<objects, bus, boots, faulty, refs, given, listed, dev,
                         serial, tries, result, there, own, rest>>
      BY <1>c, <2>5 DEF Open
    <3>2. 1 \in 0..MaxAddress
      BY <1>a, <2>5, FaultsAssumption DEF Open, Opens, Addresses
    <3> QED
      BY <1>e, <3>1, <3>2 DEF TypeOK, UsbTypeOK, Addressed
  <2>6. CASE ReadSerial
    <3>1. opened' \in [Addresses -> Nat]
      BY <2>6, CloseTypes DEF ReadSerial
    <3> QED
      BY <1>e, <2>6, <3>1 DEF ReadSerial, Received, TypeOK, UsbTypeOK, Addressed
  <2>7. CASE switch_to_qdl_mode
    <3>1. Minus(opened, {dev}) \in [Addresses -> Nat]
      BY <1>c, <2>7 DEF switch_to_qdl_mode, HandleOpen
    <3>2. boots' \in [Phones -> Modes]
      BY <2>7 DEF switch_to_qdl_mode, TypeOK, UsbTypeOK, Modes
    <3> QED
      BY <1>c, <2>7, <3>1, <3>2 DEF switch_to_qdl_mode, reading, TypeOK, UsbTypeOK, Addressed
  <2>8. CASE FreeList
    <3>1. /\ refs' \in [Addresses -> Int] /\ listed' = {} /\ pc' \in {"check", "switched"}
          /\ UNCHANGED <<objects, bus, boots, faulty, opened, given, dev,
                         serial, matched, tries, result, there, look, own, rest, asked>>
      BY <1>c, <2>8 DEF FreeList, reading
    <3> QED
      BY <3>1 DEF TypeOK, UsbTypeOK, Addressed, Ends
  <2>9. CASE Check
    <3>1. tries' \in 0..MaxRetry
      BY <2>9, MaxRetryAssumption DEF Check, TypeOK
    <3>2. CASE faulty /\ UNCHANGED <<refs, opened, reading>>
      BY <2>9, <3>1, <3>2 DEF Check, LookAgain, process, reading, TypeOK, UsbTypeOK, Addressed
    <3>3. CASE CallDeviceFromSerial
      <4>1. AskStep(serial) /\ pc = "check" /\ UNCHANGED objects
        BY <2>9, <3>3 DEF Check, LookAgain, AskStep
      <4> QED
        BY <1>r, <2>9, <3>1, <4>1, AskTypes DEF Check, LookAgain, process, TypeOK, Addressed
    <3> QED
      BY <2>9, <3>2, <3>3 DEF Check, LookAgain
  <2>10. CASE GiveUp
    BY <2>10 DEF GiveUp, usb, reading, TypeOK, UsbTypeOK, Addressed, Ends
  <2>11. CASE SwitchAsks
    <3>1. CASE \E text : AskStep(text) /\ pc # "read"
      BY <1>r, <2>11, <3>1, AskTypes DEF SwitchAsks, process, switch, TypeOK, Addressed
    <3>2. CASE OpenAsked
      BY <1>c, <2>11, <3>2 DEF SwitchAsks, OpenAsked, process, switch, TypeOK, UsbTypeOK, Addressed
    <3> QED
      BY <2>11, <3>1, <3>2 DEF SwitchAsks, AskStep
  <2>12. CASE Looked
    <3>1. /\ refs' \in [Addresses -> Int] /\ result' \in {result, "success"}
          /\ pc' \in {pc, "switched"}
          /\ look' = "none" /\ asked' = Null
          /\ UNCHANGED <<objects, bus, boots, faulty, opened, own, rest,
                         given, listed, dev, serial, matched, tries>>
      BY <1>c, <2>12 DEF Looked, Received
    <3>2. there' \in BOOLEAN
      <4>1. there \in BOOLEAN /\ (dev \in bus) \in BOOLEAN
        BY DEF TypeOK
      <4>2. there' = there \/ there' = (dev \in bus)
        BY <2>12, Zenon DEF Looked
      <4> QED
        BY <4>1, <4>2, Zenon
    <3> QED
      BY <1>e, <3>1, <3>2 DEF TypeOK, UsbTypeOK, Addressed, Ends
  <2> QED
    BY <2>1, <2>2, <2>3, <2>4, <2>5, <2>6, <2>7, <2>8, <2>9, <2>10, <2>11, <2>12 DEF SwitchStep
<1>2. CASE FlashStep /\ UNCHANGED switch
  <2> USE <1>2 DEF switch
  <2>1. CASE InitUsb
    <3>1. /\ refs' \in [Addresses -> Int] /\ listed' \in {listed, bus}
          /\ pc' \in {"exited", "undo", "findnamed", "finddefault"}
          /\ status' \in {0, -1} /\ dev' = Null
          /\ UNCHANGED <<objects, bus, boots, faulty, opened, given, handle, usable, first,
                         look, own, rest, asked>>
      BY <1>c, <1>u, <2>1 DEF InitUsb, reading
    <3> QED
      BY <1>a, <3>1 DEF TypeOK, UsbTypeOK, Addressed, Ends
  <2>2. CASE FindNamed
    <3>1. /\ dev' = asked /\ pc' \in {"openusb", "undo"} /\ status' \in {status, -1}
          /\ look' = "none" /\ asked' = Null
          /\ UNCHANGED <<objects, bus, boots, faulty, refs, opened, own, rest,
                         given, listed, handle, usable, first>>
      BY <2>2 DEF FindNamed, Received, usb
    <3> QED
      BY <1>a, <1>e, <3>1 DEF TypeOK, UsbTypeOK, Addressed
  <2>3. CASE FindDefault
    <3>1. QdlListed \in SUBSET listed
      BY DEF QdlListed
    <3>2. /\ pc' \in {"undo", "openusb"} /\ status' \in {status, -1, -2}
          /\ dev' \in listed \cup {Null} /\ refs' \in [Addresses -> Int]
          /\ UNCHANGED <<objects, bus, boots, faulty, opened, given, listed, handle, usable, first,
                         look, own, rest, asked>>
      BY <1>d, <2>3, <3>1 DEF FindDefault, reading
    <3> QED
      BY <1>a, <3>2 DEF TypeOK, UsbTypeOK, Addressed
  <2>4. CASE OpenUsbFails
    BY <2>4 DEF OpenUsbFails, usb, reading, TypeOK, UsbTypeOK, Addressed
  <2>5. CASE OpenUsb
    BY <1>c, <2>5 DEF OpenUsb, reading, TypeOK, UsbTypeOK, Addressed
  <2>6. CASE ClaimFails
    BY <2>6 DEF ClaimFails, usb, reading, TypeOK, UsbTypeOK, Addressed
  <2>7. CASE Claim
    BY <2>7 DEF Claim, AfterInit, usb, reading, TypeOK, UsbTypeOK, Addressed
  <2>8. CASE UndoInit
    <3>1. Minus(opened, Pointed(handle)) \in [Addresses -> Nat]
      BY <1>c, <2>8 DEF UndoInit, HandleOpen, Pointed
    <3>2. Minus(Minus(refs, Pointed(dev)), listed) \in [Addresses -> Int]
      BY <1>c, CountFacts
    <3> QED
      BY <2>8, <3>1, <3>2 DEF UndoInit, reading, TypeOK, UsbTypeOK, Addressed, Ends
  <2>9. CASE CloseUsb
    <3>1. Minus(opened, {handle}) \in [Addresses -> Nat]
      BY <1>c, <2>9 DEF CloseUsb, FlashControl, Transferring, HandleOpen
    <3> QED
      BY <2>9, <3>1 DEF CloseUsb, reading, TypeOK, UsbTypeOK, Addressed
  <2>10. CASE RunCommands
    <3>1. usable => Minus(opened, {handle}) \in [Addresses -> Nat]
      BY <1>c DEF HandleOpen
    <3>2. /\ opened' \in [Addresses -> Nat] /\ pc' \in {"done", "exited"}
          /\ handle' \in {handle, Null} /\ usable' \in {usable, FALSE}
          /\ UNCHANGED <<objects, bus, boots, faulty, refs, look, own, rest, asked,
                         given, listed, dev, status, first>>
      BY <1>u, <2>10, <3>1 DEF RunCommands, reading
    <3>3. UsbTypeOK' /\ Addressed'
      BY <3>2 DEF TypeOK, UsbTypeOK, Addressed
    <3> QED
      BY <3>2, <3>3 DEF TypeOK, Ends
  <2>11. CASE Hello \/ DownloadTurn \/ Download
    BY <2>11 DEF Hello, DownloadTurn, Download, usb, process, reading, flash,
                 TypeOK, UsbTypeOK, Addressed, Ends
  <2>12. CASE FlashAsks
    <3>1. AskStep(given) /\ pc = "findnamed" /\ UNCHANGED <<objects, bus, boots, faulty, process, flash>>
      BY <2>12 DEF FlashAsks, AskStep
    <3> QED
      BY <1>r, <3>1, AskTypes DEF process, flash, TypeOK, Addressed
  <2> QED
    BY <2>1, <2>2, <2>3, <2>4, <2>5, <2>6, <2>7, <2>8, <2>9, <2>10, <2>11, <2>12 DEF FlashStep
<1>3. CASE StartFlash
  <2>1. 0 \in 0..MaxAddress /\ 0 \in 0..MaxRetry
    BY FaultsAssumption, MaxRetryAssumption
  <2>2. refs' \in [Addresses -> Int] /\ opened' \in [Addresses -> Nat]
    BY <1>3, CountFacts DEF StartFlash
  <2> QED
    BY <1>3, <2>1, <2>2 DEF StartFlash, flash, reading, TypeOK, UsbTypeOK, Addressed
<1>4. CASE PhoneStep
  <2>1. UNCHANGED <<boots, faulty, refs, opened, pc, given, listed, dev, look, own, rest, asked>>
        /\ UNCHANGED <<switch, flash>>
    BY <1>4, PhoneFacts DEF PhoneStep
  <2>2. UsbTypeOK'
    BY <1>4, <2>1, PhoneFacts DEF PhoneStep, TypeOK, UsbTypeOK
  <2>3. Addressed'
    BY <1>4, <2>1, PhoneFacts DEF PhoneStep, flash, Addressed
  <2> QED
    BY <2>1, <2>2, <2>3 DEF switch, flash, TypeOK
<1>5. CASE Ended
  BY <1>5 DEF Ended, vars, usb, process, reading, switch, flash, TypeOK, UsbTypeOK, Addressed
<1> QED
  BY <1>1, <1>2, <1>3, <1>4, <1>5 DEF Next, ToolStep
-------------------------------------------------------------------------------
(***************************************************************************)
(* Control.                                                                *)
(***************************************************************************)
LEMMA SwitchControlStep ==
  ASSUME IInv, Next
  PROVE  SwitchControl'
<1>a. SwitchControl /\ FlashControl
  BY DEF IInv
<1>1. CASE SwitchStep /\ UNCHANGED flash
  <2> USE <1>a, <1>1 DEF SwitchControl, Switching, flash
  <2>1. CASE GetDeviceList
    BY <2>1 DEF GetDeviceList
  <2>2. CASE ChooseNamed
    BY <2>2 DEF ChooseNamed
  <2>3. CASE ChooseDefault
    <3>1. Cardinality({a \in listed : is_legal_device(a)}) = 1 => dev' # Null
      BY <2>3, ListFacts, ObjectFacts DEF ChooseDefault, AnyOf, IInv
    <3> QED
      BY <2>3, <3>1 DEF ChooseDefault
  <2>4. CASE OpenFails
    BY <2>4 DEF OpenFails
  <2>5. CASE Open
    BY <2>5 DEF Open
  <2>6. CASE ReadSerial
    BY <2>6 DEF ReadSerial
  <2>7. CASE switch_to_qdl_mode
    BY <2>7 DEF switch_to_qdl_mode
  <2>8. CASE FreeList
    BY <2>8 DEF FreeList
  <2>9. CASE Check
    BY <2>9 DEF Check, LookAgain, process
  <2>10. CASE GiveUp
    BY <2>10 DEF GiveUp
  <2>11. CASE SwitchAsks
    BY <2>11 DEF SwitchAsks, process, switch
  <2>12. CASE Looked
    BY <2>12 DEF Looked
  <2> QED
    BY <2>1, <2>2, <2>3, <2>4, <2>5, <2>6, <2>7, <2>8, <2>9, <2>10, <2>11, <2>12 DEF SwitchStep
<1>2. CASE FlashStep /\ UNCHANGED switch
  <2>1. pc' \notin Switching \cup {"switched"}
    BY <1>2 DEF FlashStep, InitUsb, FlashAsks, FindNamed, FindDefault, OpenUsbFails, OpenUsb,
                ClaimFails, Claim, AfterInit, UndoInit, Hello, DownloadTurn, Download, CloseUsb,
                RunCommands, process, Switching
  <2> QED
    BY <2>1 DEF SwitchControl, Switching
<1>3. CASE StartFlash
  BY <1>3 DEF StartFlash, SwitchControl, Switching
<1>4. CASE PhoneStep
  <2>1. UNCHANGED <<pc, given, listed, dev>> /\ UNCHANGED <<switch, flash>>
    BY <1>4, PhoneFacts DEF PhoneStep, IInv
  <2> QED
    BY <1>a, <2>1 DEF SwitchControl, Switching, switch, flash
<1>5. CASE Ended
  BY <1>a, <1>5 DEF Ended, vars, process, switch, flash, SwitchControl, Switching
<1> QED
  BY <1>1, <1>2, <1>3, <1>4, <1>5 DEF Next, ToolStep

LEMMA FlashControlStep ==
  ASSUME IInv, Next
  PROVE  FlashControl'
<1>a. SwitchControl /\ FlashControl
  BY DEF IInv
<1>1. CASE SwitchStep /\ UNCHANGED flash
  <2>1. pc \in Switching /\ pc' \in Switching \cup {"switched"}
    BY <1>1 DEF SwitchStep, GetDeviceList, SwitchAsks, ChooseNamed, ChooseDefault, OpenFails, Open,
                ReadSerial, switch_to_qdl_mode, FreeList, Check, LookAgain, Looked, GiveUp,
                process, Switching
  <2> QED
    BY <1>a, <1>1, <2>1 DEF FlashControl, flash, Switching, Looking, Transferring
<1>2. CASE FlashStep /\ UNCHANGED switch
  <2> USE <1>a, <1>2 DEF FlashControl, Switching, Looking, Transferring, is_legal_qdl_device
  <2>1. CASE InitUsb
    BY <2>1 DEF InitUsb
  <2>2. CASE FindNamed
    BY <2>2 DEF FindNamed, usb
  <2>3. CASE FindDefault
    <3>1. \/ pc' = "undo" /\ status' \in {-1, -2}
          \/ pc' = "openusb" /\ UNCHANGED status /\ Cardinality(QdlListed) = 1
      BY <2>3 DEF FindDefault
    <3>2. UNCHANGED <<objects, given, handle, usable, first>> /\ pc = "finddefault"
      BY <2>3 DEF FindDefault
    <3>3. QdlListed \in SUBSET listed
      BY DEF QdlListed
    <3>4. Cardinality(QdlListed) = 1 => dev' \in QdlListed
      BY <2>3, <3>3, ListFacts DEF FindDefault, AnyOf, IInv
    <3>5. Cardinality(QdlListed) = 1 => dev' # Null /\ is_legal_qdl_device(dev')
      BY <3>4, ObjectFacts DEF QdlListed, IInv
    <3> QED
      BY <3>1, <3>2, <3>5
  <2>4. CASE OpenUsbFails
    BY <2>4 DEF OpenUsbFails
  <2>5. CASE OpenUsb
    BY <2>5 DEF OpenUsb
  <2>6. CASE ClaimFails
    BY <2>6 DEF ClaimFails
  <2>7. CASE Claim
    BY <2>7 DEF Claim, AfterInit, usb
  <2>8. CASE UndoInit
    BY <2>8 DEF UndoInit
  <2>9. CASE CloseUsb
    BY <2>9 DEF CloseUsb
  <2>10. CASE RunCommands
    BY <2>10 DEF RunCommands
  <2>11. CASE Hello \/ DownloadTurn \/ Download
    BY <2>11 DEF Hello, DownloadTurn, Download, usb, process, flash
  <2>12. CASE FlashAsks
    BY <2>12 DEF FlashAsks, process, flash
  <2> QED
    BY <2>1, <2>2, <2>3, <2>4, <2>5, <2>6, <2>7, <2>8, <2>9, <2>10, <2>11, <2>12 DEF FlashStep
<1>3. CASE StartFlash
  BY <1>a, <1>3 DEF StartFlash, flash, SwitchControl, FlashControl, Switching, Looking, Transferring
<1>4. CASE PhoneStep
  <2>1. UNCHANGED <<pc, given, listed, dev>> /\ UNCHANGED <<switch, flash>>
    BY <1>4, PhoneFacts DEF PhoneStep, IInv
  <2>2. \A a \in DOMAIN objects : is_legal_qdl_device(a)' = is_legal_qdl_device(a)
    BY <1>4, PhoneFacts DEF PhoneStep, IInv, is_legal_qdl_device
  <2>3. {dev, handle} \subseteq DOMAIN objects \cup {Null}
    BY DEF IInv, Addressed
  <2> QED
    BY <1>a, <2>1, <2>2, <2>3 DEF FlashControl, Switching, Looking, Transferring, switch, flash, is_legal_qdl_device
<1>5. CASE Ended
  BY <1>a, <1>5
     DEF Ended, vars, usb, process, switch, flash, FlashControl, Switching, Looking, Transferring,
         is_legal_qdl_device
<1> QED
  BY <1>1, <1>2, <1>3, <1>4, <1>5 DEF Next, ToolStep

\* Inside device.c, and out of it.
LEMMA ReadControlStep ==
  ASSUME IInv, Next
  PROVE  ReadControl'
<1>a. ReadControl /\ TypeOK /\ Addressed /\ SwitchControl
  BY DEF IInv
<1>b. bus \subseteq DOMAIN objects /\ Null \notin DOMAIN objects /\ own \subseteq DOMAIN objects
  BY <1>a, ObjectFacts DEF Addressed
<1>1. ASSUME NEW text, AskStep(text), pc \in {"named", "check", "findnamed"}, pc' = pc
      PROVE  ReadControl'
  <2> USE <1>a, <1>b, <1>1 DEF ReadControl, Asking
  <2>1. ASSUME NEW f, NEW list, ToNext(f, list), list \subseteq DOMAIN objects
        PROVE  ReadControl'
    BY <2>1 DEF ToNext
  <2>2. ASSUME NEW a, NEW f, NEW list, Return(a, f, list)
        PROVE  ReadControl'
    BY <2>2 DEF Return
  <2>3. CASE OpenAsked
    BY <2>3 DEF OpenAsked
  <2> QED
    BY <2>1, <2>2, <2>3, AskCases
<1>2. CASE UNCHANGED reading /\ look = "none" /\ pc' # "read"
  BY <1>a, <1>2 DEF reading, ReadControl, Asking
<1>3. CASE Received /\ pc' # "read" /\ (look = "returned" \/ pc = "read")
  BY <1>a, <1>3 DEF Received, ReadControl, Asking, TypeOK, UsbTypeOK
<1>4. CASE UNCHANGED reading /\ UNCHANGED <<pc, dev>>
  BY <1>a, <1>4 DEF reading, ReadControl, Asking
<1>5. CASE SwitchStep /\ UNCHANGED flash
  <2>1. CASE SwitchAsks
    <3>1. CASE \E text : AskStep(text) /\ pc # "read"
      BY <1>1, <2>1, <3>1 DEF SwitchAsks, process
    <3>2. CASE OpenAsked /\ pc = "read"
      BY <1>a, <2>1, <3>2 DEF SwitchAsks, OpenAsked, process, ReadControl, Asking
    <3> QED
      BY <2>1, <3>1, <3>2 DEF SwitchAsks, AskStep
  <2>2. CASE Open
    BY <1>a, <2>2 DEF Open, ReadControl, SwitchControl, Asking, Null
  <2>3. CASE Check
    <3>1. CASE faulty /\ UNCHANGED <<refs, opened, reading>>
      BY <1>4, <2>3, <3>1 DEF Check, LookAgain, process
    <3>2. CASE CallDeviceFromSerial
      BY <1>1, <2>3, <3>2 DEF Check, LookAgain, AskStep, process
    <3> QED
      BY <2>3, <3>1, <3>2 DEF Check, LookAgain
  <2>4. CASE ChooseNamed
    BY <1>3, <2>4 DEF ChooseNamed
  <2>5. CASE ReadSerial
    BY <1>3, <2>5 DEF ReadSerial
  <2>6. CASE Looked
    BY <1>3, <2>6 DEF Looked
  <2>7. CASE GetDeviceList \/ ChooseDefault \/ OpenFails \/ switch_to_qdl_mode \/ FreeList \/ GiveUp
    BY <1>2, <1>a, <2>7 DEF GetDeviceList, ChooseDefault, OpenFails, switch_to_qdl_mode, FreeList, GiveUp,
                            ReadControl
  <2> QED
    BY <1>5, <2>1, <2>2, <2>3, <2>4, <2>5, <2>6, <2>7 DEF SwitchStep
<1>6. CASE FlashStep /\ UNCHANGED switch
  <2>1. CASE FlashAsks
    BY <1>1, <2>1 DEF FlashAsks, AskStep, process
  <2>2. CASE FindNamed
    BY <1>3, <2>2 DEF FindNamed
  <2>3. CASE ~(FlashAsks \/ FindNamed)
    <3>1. UNCHANGED reading /\ look = "none" /\ pc' # "read"
      BY <1>a, <1>6, <2>3
         DEF FlashStep, InitUsb, FindDefault, OpenUsbFails, OpenUsb, ClaimFails, Claim, AfterInit,
             UndoInit, Hello, DownloadTurn, Download, CloseUsb, RunCommands, ReadControl, process
    <3> QED
      BY <1>a, <3>1 DEF reading, ReadControl, Asking
  <2> QED
    BY <2>1, <2>2, <2>3
<1>7. CASE StartFlash
  BY <1>a, <1>7 DEF StartFlash, reading, ReadControl, Asking
<1>8. CASE PhoneStep
  BY <1>4, <1>8, PhoneFacts DEF PhoneStep, reading, IInv
<1>9. CASE Ended
  BY <1>4, <1>9 DEF Ended, vars, process
<1> QED
  BY <1>5, <1>6, <1>7, <1>8, <1>9 DEF Next, ToolStep
-------------------------------------------------------------------------------
(***************************************************************************)
(* References and handles.                                                 *)
(***************************************************************************)
LEMMA PointFacts ==
  ASSUME NEW f, NEW S, NEW a \in Addresses
  PROVE  /\ Plus(f, S)[a] = IF a \in S THEN f[a] + 1 ELSE f[a]
         /\ Minus(f, S)[a] = IF a \in S THEN f[a] - 1 ELSE f[a]
BY DEF Plus, Minus

\* Enough of the object a, and where it is accounted for no more.
Balance(a) ==
  /\ refs[a] \in Int /\ opened[a] \in Nat
  /\ refs[a] >= Held(a) - Short(a)
  /\ opened[a] >= Open1(a)
  /\ ~faulty /\ Accounted => refs[a] = Held(a) /\ OpenedRight(a)

LEMMA BalanceFacts ==
  ASSUME IInv, NEW a \in Addresses
  PROVE  Balance(a)
BY DEF IInv, Covered, Exact, Balance, TypeOK, UsbTypeOK

\* get_device_serial returns: at most a phone that has left has its handle left.
LEMMA CloseBalance ==
  ASSUME IInv, NEW ans \in Answers, CloseAsked(ans), look' # "string",
         NEW a \in Addresses, HandleOpen(a)' = HandleOpen(a), UNCHANGED <<objects, bus>>
  PROVE  /\ opened'[a] >= Open1(a)'
         /\ ~faulty /\ OpenedRight(a) => OpenedRight(a)'
<1>1. /\ asked \in DOMAIN objects
      /\ ans.text # <<>> => look = "string"
      /\ ~faulty /\ look = "string" /\ ans.text = <<>> => asked \notin bus
  BY AnswerFacts DEF IInv, ReadControl
<1>2. opened'[a] = IF a = asked /\ ans.text # <<>> THEN opened[a] - 1 ELSE opened[a]
  BY PointFacts DEF CloseAsked
<1>3. opened[a] \in Nat /\ opened[a] >= Open1(a)
  BY BalanceFacts DEF Balance
<1>4. ~ReadOpen(a)'
  BY DEF ReadOpen
<1>5. Open1(a)' = One(HandleOpen(a)) /\ One(HandleOpen(a)) \in Nat
  BY <1>4 DEF Open1, One
<1>6. Open1(a) = IF look = "string" /\ a = asked THEN One(HandleOpen(a)) + 1 ELSE One(HandleOpen(a))
  BY DEF Open1, ReadOpen, One
<1>7. ReadOpen(a) <=> look = "string" /\ a = asked
  BY DEF ReadOpen
<1> HIDE DEF One, HandleOpen
<1>8. opened'[a] >= Open1(a)'
  BY <1>1, <1>2, <1>3, <1>5, <1>6
<1>9. ASSUME ~faulty, OpenedRight(a) PROVE OpenedRight(a)'
  <2>1. opened[a] = Open1(a) \/ (opened[a] = Open1(a) + 1 /\ a \in DOMAIN objects \ bus /\ ~ReadOpen(a))
    BY <1>9 DEF OpenedRight
  <2>2. \/ opened'[a] = One(HandleOpen(a))
        \/ opened'[a] = One(HandleOpen(a)) + 1 /\ a \in DOMAIN objects \ bus
    BY <1>1, <1>2, <1>3, <1>5, <1>6, <1>7, <1>9, <2>1
  <2> QED
    BY <1>4, <1>5, <2>2 DEF OpenedRight
<1> QED
  BY <1>8, <1>9

\* What the process has of a besides what device.c has.
HeldOutside(a) == One(a \in listed) + One(a = dev /\ HoldsDev)

LEMMA HeldFacts ==
  ASSUME NEW a
  PROVE  /\ HeldOutside(a) \in Nat /\ One(HandleOpen(a)) \in Nat /\ Short(a) \in Nat
         /\ Held(a) = HeldOutside(a) + (IF a \in own THEN 1 ELSE 0)
                        + (IF a = asked /\ look = "returned" THEN 1 ELSE 0)
         /\ Open1(a) = One(HandleOpen(a)) + (IF a = asked /\ look = "string" THEN 1 ELSE 0)
BY DEF HeldOutside, Held, One, Open1, ReadOpen, Short

LEMMA AskBalance ==
  ASSUME IInv, NEW text, AskStep(text), pc \in {"named", "check", "findnamed"}, pc' = pc,
         UNCHANGED <<objects, bus, faulty, listed, dev, matched, serial, status, handle, usable, first>>,
         NEW a \in Addresses
  PROVE  Balance(a)'
<1>1. refs'[a] \in Int /\ opened'[a] \in Nat
  BY AskTypes DEF ReadTypes
<1>2. UNCHANGED <<HeldOutside(a), Short(a), HandleOpen(a), Accounted>>
  BY DEF HeldOutside, HoldsDev, Short, HandleOpen, Accounted
<1>3. Balance(a) /\ HeldOutside(a) \in Nat /\ One(HandleOpen(a)) \in Nat /\ Short(a) \in Nat
  BY BalanceFacts, HeldFacts
<1>4. a # Null
  BY DEF Addresses, Null
<1>5. /\ Held(a) = HeldOutside(a) + (IF a \in own THEN 1 ELSE 0)
                    + (IF a = asked /\ look = "returned" THEN 1 ELSE 0)
      /\ Held(a)' = HeldOutside(a) + (IF a \in own' THEN 1 ELSE 0)
                     + (IF a = asked' /\ look' = "returned" THEN 1 ELSE 0)
  <2>1. Held(a)' = HeldOutside(a)' + (IF a \in own' THEN 1 ELSE 0)
                     + (IF a = asked' /\ look' = "returned" THEN 1 ELSE 0)
    BY DEF HeldOutside, Held, One
  <2> QED
    BY <1>2, <2>1, HeldFacts
<1>6. /\ look = "none" => own = {} /\ asked = Null
      /\ look = "returned" => own = {}
  BY DEF IInv, ReadControl
\* References.
<1>7. refs'[a] - Held(a)' = refs[a] - Held(a)
  <2>1. ASSUME look = "none", ToNext(Plus(refs, bus), bus)
        PROVE  refs'[a] - Held(a)' = refs[a] - Held(a)
    BY <1>1, <1>3, <1>4, <1>5, <1>6, <2>1, PointFacts DEF ToNext, Balance
  <2>2. ASSUME look = "none", bus = {}, Return(Null, Plus(refs, bus), bus)
        PROVE  refs'[a] - Held(a)' = refs[a] - Held(a)
    <3>1. refs'[a] = refs[a]
      BY <2>2, PointFacts DEF Return
    <3> QED
      BY <1>1, <1>3, <1>4, <1>5, <1>6, <2>2, <3>1 DEF Return, Balance
  <2>3. ASSUME look = "none", Return(Null, refs, {})
        PROVE  refs'[a] - Held(a)' = refs[a] - Held(a)
    BY <1>1, <1>3, <1>4, <1>5, <1>6, <2>3, PointFacts DEF Return, Balance
  <2>4. CASE OpenAsked
    BY <1>1, <1>3, <1>5, <2>4 DEF OpenAsked, Balance
  <2>5. ASSUME Asking, Return(asked, Plus(refs, {asked}), own)
        PROVE  refs'[a] - Held(a)' = refs[a] - Held(a)
    <3>1. refs'[a] = Plus(refs, {asked})[a] - (IF a \in own THEN 1 ELSE 0)
      BY <1>3, <2>5, PointFacts DEF Return, Balance
    <3>2. Plus(refs, {asked})[a] = refs[a] + (IF a = asked THEN 1 ELSE 0)
      BY <1>3, PointFacts DEF Balance
    <3> QED
      BY <1>1, <1>3, <1>5, <2>5, <3>1, <3>2 DEF Return, Asking, Balance
  <2>6. ASSUME Asking, Return(Null, refs, own)
        PROVE  refs'[a] - Held(a)' = refs[a] - Held(a)
    BY <1>1, <1>3, <1>4, <1>5, <2>6, PointFacts DEF Return, Asking, Balance
  <2>7. ASSUME Asking, ToNext(refs, own)
        PROVE  refs'[a] - Held(a)' = refs[a] - Held(a)
    BY <1>1, <1>3, <1>5, <2>7 DEF ToNext, Asking, Balance
  <2> QED
    BY <2>1, <2>2, <2>3, <2>4, <2>5, <2>6, <2>7, AskCases DEF IInv
\* Handles.
<1>8. opened'[a] >= Open1(a)' /\ (~faulty /\ OpenedRight(a) => OpenedRight(a)')
  <2>1. CASE look = "none" /\ opened' = opened /\ look' \in {"open", "returned"}
    BY <1>2, <1>3, <2>1 DEF Open1, ReadOpen, OpenedRight, Balance
  <2>2. CASE OpenAsked
    <3>1. opened'[a] = opened[a] + (IF a = asked THEN 1 ELSE 0)
      BY <1>3, <2>2, PointFacts DEF OpenAsked, Balance
    <3>2. Open1(a)' = Open1(a) + (IF a = asked THEN 1 ELSE 0)
      BY <1>2, <1>3, <2>2 DEF OpenAsked, Open1, ReadOpen, One
    <3>3. Open1(a) \in Nat
      BY DEF Open1, One
    <3>4. a = asked => a \in bus
      BY <2>2 DEF OpenAsked, Opens
    <3>5. ReadOpen(a)' <=> a = asked
      BY <2>2 DEF OpenAsked, ReadOpen
    <3> QED
      BY <1>3, <3>1, <3>2, <3>3, <3>4, <3>5 DEF OpenedRight, Balance
  <2>3. CASE look' # "string" /\ \E ans \in Answers : CloseAsked(ans)
    BY <1>2, <2>3, CloseBalance
  <2> QED
    BY <2>1, <2>2, <2>3, AskCases DEF IInv, ToNext, Return
<1>9. Held(a)' \in Nat /\ Held(a) \in Nat
  BY <1>3, <1>5
<1> QED
  BY <1>1, <1>2, <1>3, <1>7, <1>8, <1>9 DEF Balance

LEMMA BalanceStep ==
  ASSUME IInv, Next, NEW a \in Addresses
  PROVE  Balance(a)'
<1>1. SwitchControl /\ FlashControl
  BY DEF IInv
<1>2. Balance(a)
  BY BalanceFacts
<1>3. refs'[a] \in Int /\ opened'[a] \in Nat
  BY TypeStep DEF TypeOK, UsbTypeOK
<1>4. NoList
  BY DEF IInv
<1>5. Null \notin Addresses
  BY DEF Null, Addresses
<1>r. /\ look = "none" => own = {} /\ asked = Null
      /\ look = "returned" => own = {}
      /\ pc \notin {"named", "read", "check", "findnamed"} => look = "none"
  BY DEF IInv, ReadControl
<1> USE <1>1, <1>2, <1>3, <1>r
<1> USE DEF Balance, One, Held, HoldsDev, Short, Open1, HandleOpen, ReadOpen, OpenedRight, Accounted,
            Switching, Looking, Transferring
<1>6. CASE SwitchStep /\ UNCHANGED flash
  <2> USE <1>6 DEF SwitchControl, FlashControl, flash
  <2>1. CASE GetDeviceList
    BY <1>4, <2>1, PointFacts DEF GetDeviceList, reading, NoList
  <2>2. CASE ChooseNamed
    BY <1>5, <2>2 DEF ChooseNamed, Received, usb
  <2>3. CASE ChooseDefault
    <3>1. PICK legal \in SUBSET listed :
                 /\ dev' \in AnyOf(legal) /\ refs' = Referenced(refs, legal)
                 /\ matched' = Cardinality(legal)
                 /\ pc' = IF Cardinality(legal) = 1 THEN "open" ELSE "free"
      BY <2>3 DEF ChooseDefault
    <3>2. UNCHANGED <<objects, bus, faulty, opened, listed, serial, look, own, rest, asked>>
          /\ pc = "default"
      BY <2>3 DEF ChooseDefault, reading
    <3>3. CASE Cardinality(legal) = 1
      <4>1. PICK x \in listed : legal = {x}
        BY <3>3, ListFacts DEF IInv
      <4>2. dev' = x /\ refs' = Plus(refs, {x}) /\ pc' = "open"
        BY <3>1, <3>3, <4>1 DEF AnyOf, Referenced
      <4>3. refs'[a] = IF a = dev' THEN refs[a] + 1 ELSE refs[a]
        BY <4>2, PointFacts
      <4> QED
        BY <3>2, <4>2, <4>3
    <3>4. CASE Cardinality(legal) # 1
      BY <3>1, <3>2, <3>4 DEF Referenced
    <3> QED
      BY <3>3, <3>4
  <2>4. CASE OpenFails
    BY <2>4 DEF OpenFails, usb, reading
  <2>5. CASE Open
    BY <1>5, <2>5, PointFacts DEF Open
  <2>6. CASE ReadSerial
    <3>1. UNCHANGED <<HandleOpen(a), objects, bus, faulty, refs, listed, dev, status, first>>
      BY <2>6 DEF ReadSerial
    <3>2. look' = "none" /\ asked' = Null /\ own' = own /\ pc = "read" /\ pc' = "switch"
          /\ look # "returned"
      BY <2>6 DEF ReadSerial, Received, IInv, ReadControl, Asking
    <3>3. opened'[a] >= Open1(a)' /\ (~faulty /\ OpenedRight(a) => OpenedRight(a)')
      BY <2>6, <3>1, <3>2, CloseBalance DEF ReadSerial
    <3>4. Held(a)' = Held(a) /\ Short(a)' = Short(a)
      BY <1>5, <3>1, <3>2
    <3> HIDE DEF Held, OpenedRight, Open1, Short
    <3> QED
      BY <3>1, <3>2, <3>3, <3>4
  <2>7. CASE switch_to_qdl_mode
    BY <2>7, PointFacts DEF switch_to_qdl_mode, reading
  <2>8. CASE FreeList
    BY <2>8, PointFacts DEF FreeList, reading
  <2>9. CASE Check
    <3>1. CASE faulty /\ UNCHANGED <<refs, opened, reading>>
      BY <2>9, <3>1 DEF Check, LookAgain, process, reading
    <3>2. CASE CallDeviceFromSerial
      BY <2>9, <3>2, AskBalance DEF Check, LookAgain, AskStep, process
    <3> QED
      BY <2>9, <3>1, <3>2 DEF Check, LookAgain
  <2>10. CASE GiveUp
    BY <2>10 DEF GiveUp, usb, reading
  <2>11. CASE SwitchAsks
    <3>1. CASE pc # "read"
      <4>1. PICK text : AskStep(text)
        BY <2>11, <3>1 DEF SwitchAsks, AskStep
      <4>2. pc \in {"named", "check"} /\ UNCHANGED <<objects, bus, boots, faulty, process, switch>>
        BY <2>11, <3>1 DEF SwitchAsks
      <4> QED
        BY <4>1, <4>2, AskBalance DEF process, switch
    <3>2. CASE pc = "read"
      <4>1. OpenAsked /\ UNCHANGED <<objects, bus, boots, faulty, process, switch>>
        BY <2>11, <3>2 DEF SwitchAsks
      <4> QED
        BY <3>2, <4>1, PointFacts DEF OpenAsked, Opens, process, switch
    <3> QED
      BY <3>1, <3>2
  <2>12. CASE Looked
    BY <1>5, <2>12, PointFacts DEF Looked, Received, Pointed
  <2> QED
    BY <2>1, <2>2, <2>3, <2>4, <2>5, <2>6, <2>7, <2>8, <2>9, <2>10, <2>11, <2>12 DEF SwitchStep
<1>7. CASE FlashStep /\ UNCHANGED switch
  <2> USE <1>7 DEF FlashControl, switch
  <2>1. CASE InitUsb
    <3>1. CASE faulty /\ pc' \in {"exited", "undo"} /\ status' = -1 /\ UNCHANGED <<listed, refs>>
      BY <1>5, <2>1, <3>1 DEF InitUsb, reading
    <3>2. CASE /\ listed' = bus /\ refs' = Plus(refs, bus) /\ status' = 0
               /\ pc' = IF given # <<>> THEN "findnamed" ELSE "finddefault"
      <4>1. refs'[a] = IF a \in listed' THEN refs[a] + 1 ELSE refs[a]
        BY <3>2, PointFacts
      <4> QED
        BY <1>4, <1>5, <2>1, <3>2, <4>1 DEF InitUsb, reading, NoList
    <3> QED
      BY <2>1, <3>1, <3>2 DEF InitUsb
  <2>2. CASE FindNamed
    <3>1. \/ pc' = "openusb" /\ UNCHANGED status
          \/ pc' = "undo" /\ status' = -1
      BY <2>2 DEF FindNamed
    <3>2. /\ UNCHANGED <<objects, bus, faulty, refs, opened, listed, handle, usable, first, own>>
          /\ pc = "findnamed" /\ look = "returned" /\ dev' = asked /\ look' = "none" /\ asked' = Null
      BY <2>2 DEF FindNamed, Received, usb
    <3> QED
      BY <1>5, <3>1, <3>2
  <2>3. CASE FindDefault
    <3>1. QdlListed \in SUBSET listed
      BY DEF QdlListed
    <3>2. dev' \in AnyOf(QdlListed) /\ refs' = Referenced(refs, QdlListed)
      BY <2>3 DEF FindDefault
    <3>3. UNCHANGED <<objects, bus, faulty, opened, listed, handle, usable, first, look, own, rest, asked>>
          /\ pc = "finddefault"
      BY <2>3 DEF FindDefault, reading
    <3>4. CASE Cardinality(QdlListed) = 1
      <4>1. PICK x \in listed : QdlListed = {x}
        BY <3>1, <3>4, ListFacts DEF IInv
      <4>2. dev' = x /\ refs' = Plus(refs, {x})
        BY <3>2, <3>4, <4>1 DEF AnyOf, Referenced
      <4>3. pc' = "openusb" /\ UNCHANGED status
        BY <2>3, <3>4, <4>1 DEF FindDefault
      <4>4. refs'[a] = IF a = dev' THEN refs[a] + 1 ELSE refs[a]
        BY <4>2, PointFacts
      <4> QED
        BY <3>3, <4>2, <4>3, <4>4
    <3>5. CASE QdlListed = {}
      <4>1. Cardinality(QdlListed) # 1
        BY <3>1, <3>5, ListFacts DEF IInv
      <4>2. dev' = Null /\ UNCHANGED refs
        BY <3>2, <3>5, <4>1 DEF AnyOf, Referenced
      <4>3. pc' = "undo" /\ status' = -1
        BY <2>3, <3>5, <4>1 DEF FindDefault
      <4> QED
        BY <1>5, <3>3, <4>2, <4>3
    <3>6. CASE QdlListed # {} /\ Cardinality(QdlListed) # 1
      <4>1. pc' = "undo" /\ status' = -2
        BY <2>3, <3>6 DEF FindDefault
      <4>2. refs' = refs
        BY <3>2, <3>6 DEF Referenced
      <4> QED
        BY <1>5, <3>3, <4>1, <4>2
    <3> QED
      BY <3>4, <3>5, <3>6
  <2>4. CASE OpenUsbFails
    BY <1>5, <2>4 DEF OpenUsbFails, usb, reading
  <2>5. CASE OpenUsb
    BY <2>5, PointFacts DEF OpenUsb, Opens, reading
  <2>6. CASE ClaimFails
    BY <2>6 DEF ClaimFails, usb, reading
  <2>7. CASE Claim
    BY <2>7 DEF Claim, AfterInit, usb, reading
  <2>8. CASE UndoInit
    <3>1. refs'[a] = refs[a] - (IF a = dev THEN 1 ELSE 0) - (IF a \in listed THEN 1 ELSE 0)
      BY <1>5, <2>8, PointFacts DEF UndoInit, Pointed
    <3>2. opened'[a] = opened[a] - (IF a = handle THEN 1 ELSE 0)
      BY <1>5, <2>8, PointFacts DEF UndoInit, Pointed
    <3>3. /\ listed' = {} /\ pc = "undo" /\ pc' = IF first = Null THEN "exited" ELSE "commands"
          /\ UNCHANGED <<objects, bus, faulty, look, own, rest, asked, dev, status,
                         handle, usable, first>>
      BY <2>8 DEF UndoInit, reading
    <3> QED
      BY <1>5, <3>1, <3>2, <3>3
  <2>9. CASE CloseUsb
    <3>1. opened'[a] = IF a = handle THEN opened[a] - 1 ELSE opened[a]
      BY <2>9, PointFacts DEF CloseUsb
    <3>2. /\ first' = handle /\ handle' = Null /\ usable' = FALSE /\ pc' = "flash"
          /\ UNCHANGED <<objects, bus, faulty, refs, listed, dev, status, look, own, rest, asked>>
          /\ pc = "downloaded"
      BY <2>9 DEF CloseUsb, reading
    <3> QED
      BY <1>5, <3>1, <3>2
  <2>10. CASE RunCommands
    BY <2>10, PointFacts DEF RunCommands, reading
  <2>11. CASE Hello \/ DownloadTurn \/ Download
    BY <2>11 DEF Hello, DownloadTurn, Download, usb, process, reading, flash
  <2>12. CASE FlashAsks
    BY <2>12, AskBalance DEF FlashAsks, AskStep, process, flash
  <2> QED
    BY <2>1, <2>2, <2>3, <2>4, <2>5, <2>6, <2>7, <2>8, <2>9, <2>10, <2>11, <2>12 DEF FlashStep
<1>8. CASE StartFlash
  BY <1>8 DEF StartFlash, flash, reading, FlashControl, SwitchControl, NothingHeld
<1>9. CASE PhoneStep
  <2>1. UNCHANGED <<faulty, refs, opened, pc, given, listed, dev, look, own, rest, asked>>
        /\ UNCHANGED <<switch, flash>>
    BY <1>9, PhoneFacts DEF PhoneStep, IInv
  <2>2. a \in DOMAIN objects \ bus => a \in DOMAIN objects' \ bus'
    BY <1>9, PhoneLater, PhoneFacts DEF PhoneStep, IInv
  <2> QED
    BY <2>1, <2>2 DEF switch, flash
<1>10. CASE Ended
  BY <1>10 DEF Ended, vars, usb, process, reading, switch, flash
<1> QED
  BY <1>6, <1>7, <1>8, <1>9, <1>10 DEF Next, ToolStep

LEMMA NoListStep ==
  ASSUME IInv, Next
  PROVE  NoList'
<1> USE DEF IInv, NoList
<1>1. CASE SwitchStep /\ UNCHANGED flash
  <2> USE <1>1 DEF flash
  <2>1. ASSUME ~(GetDeviceList \/ SwitchAsks \/ FreeList \/ Check \/ Looked \/ GiveUp)
        PROVE  pc' \in {"open", "free", "switch", "read"}
    BY <2>1 DEF SwitchStep, ChooseNamed, ChooseDefault, OpenFails, Open, ReadSerial, switch_to_qdl_mode
  <2>2. CASE GetDeviceList
    BY <2>2 DEF GetDeviceList
  <2>3. CASE FreeList
    BY <2>3 DEF FreeList
  <2>4. CASE Check
    BY <2>4 DEF Check, LookAgain, process
  <2>5. CASE GiveUp
    BY <2>5 DEF GiveUp
  <2>6. CASE SwitchAsks
    BY <2>6 DEF SwitchAsks, process
  <2>7. CASE Looked
    BY <2>7 DEF Looked
  <2> QED
    BY <2>1, <2>2, <2>3, <2>4, <2>5, <2>6, <2>7
<1>2. CASE FlashStep /\ UNCHANGED switch
  <2> USE <1>2 DEF FlashControl
  <2> USE DEF Transferring
  <2>1. ASSUME ~(InitUsb \/ UndoInit \/ Hello \/ Download \/ CloseUsb \/ RunCommands)
        PROVE  pc' \in {"findnamed", "undo", "openusb", "claim", "sahara", "download", "commands"}
    BY <2>1 DEF FlashStep, FlashAsks, FindNamed, FindDefault, OpenUsbFails, OpenUsb, ClaimFails,
                Claim, AfterInit, DownloadTurn, process
  <2>2. CASE InitUsb
    BY <2>2 DEF InitUsb
  <2>3. CASE UndoInit
    BY <2>3 DEF UndoInit
  <2>4. CASE Hello \/ Download \/ CloseUsb
    <3>1. handle # Null /\ status' = 0
      BY <2>4 DEF Hello, Download, CloseUsb, flash
    <3>2. pc' \in {"exited", "download", "downloaded"} \/ (pc' = "flash" /\ first' = handle)
      BY <2>4 DEF Hello, Download, CloseUsb
    <3> QED
      BY <3>1, <3>2
  <2>5. CASE RunCommands
    BY <2>5 DEF RunCommands
  <2> QED
    BY <2>1, <2>2, <2>3, <2>4, <2>5
<1>3. CASE StartFlash
  BY <1>3 DEF StartFlash
<1>4. CASE PhoneStep
  BY <1>4, PhoneFacts DEF PhoneStep, switch, flash
<1>5. CASE Ended
  BY <1>5 DEF Ended, vars, process, flash
<1> QED
  BY <1>1, <1>2, <1>3, <1>4, <1>5 DEF Next, ToolStep
-------------------------------------------------------------------------------
(***************************************************************************)
(* Serials.                                                                *)
(***************************************************************************)
\* What a says for itself never changes, and no step makes faults.
LEMMA SameSerials ==
  ASSUME IInv, Next
  PROVE  /\ faulty' = faulty
         /\ \A a \in DOMAIN objects : /\ SerialOf(a)' = SerialOf(a)
                                      /\ is_legal_qdl_device(a)' = is_legal_qdl_device(a)
<1>1. CASE PhoneStep
  BY <1>1, PhoneFacts DEF PhoneStep, IInv, is_legal_qdl_device
<1>2. CASE ~PhoneStep
  <2>1. UNCHANGED <<objects, faulty>>
    <3>1. CASE SwitchStep
      BY <3>1 DEF SwitchStep, GetDeviceList, SwitchAsks, ChooseNamed, ChooseDefault, OpenFails, Open,
                  ReadSerial, switch_to_qdl_mode, FreeList, Check, LookAgain, Looked, GiveUp, usb
    <3>2. CASE FlashStep
      BY <3>2 DEF FlashStep, InitUsb, FlashAsks, FindNamed, FindDefault, OpenUsbFails, OpenUsb,
                  ClaimFails, Claim, UndoInit, Hello, DownloadTurn, Download, CloseUsb,
                  RunCommands, usb
    <3> QED
      BY <1>2, <3>1, <3>2 DEF Next, ToolStep, StartFlash, Ended, vars, usb
  <2> QED
    BY <2>1 DEF SerialOf, FromAddress, is_legal_device, is_legal_qdl_device
<1> QED
  BY <1>1, <1>2

\* What has left does not come back as the same object.
LEMMA BusLater ==
  ASSUME IInv, Next
  PROVE  \A a \in DOMAIN objects : a \in bus' => a \in bus
<1>1. CASE PhoneStep
  BY <1>1, PhoneLater DEF PhoneStep, IInv
<1>2. CASE ~PhoneStep
  <2>1. UNCHANGED bus
    <3>1. CASE SwitchStep
      BY <3>1 DEF SwitchStep, GetDeviceList, SwitchAsks, ChooseNamed, ChooseDefault, OpenFails, Open,
                  ReadSerial, switch_to_qdl_mode, FreeList, Check, LookAgain, Looked, GiveUp, usb
    <3>2. CASE FlashStep
      BY <3>2 DEF FlashStep, InitUsb, FlashAsks, FindNamed, FindDefault, OpenUsbFails, OpenUsb,
                  ClaimFails, Claim, UndoInit, Hello, DownloadTurn, Download, CloseUsb,
                  RunCommands, usb
    <3> QED
      BY <1>2, <3>1, <3>2 DEF Next, ToolStep, StartFlash, Ended, vars, usb
  <2> QED
    BY <2>1
<1> QED
  BY <1>1, <1>2

LEMMA NoNullBus ==
  ASSUME IInv, Next
  PROVE  Null \notin bus'
<1>1. TypeOK' /\ Addressed'
  BY TypeStep
<1>2. objects' \in Seq([phone : Phones, mode : Modes]) /\ bus' \subseteq DOMAIN objects'
  BY <1>1 DEF TypeOK, UsbTypeOK
<1>3. DOMAIN objects' = 1..Len(objects')
  BY <1>2
<1> QED
  BY <1>2, <1>3 DEF Null

\* Without faults a device that is still there is returned for its own serial.
LEMMA TakenFacts ==
  ASSUME IInv, NEW text, AskStep(text), pc # "read", ~faulty, look' = "returned", asked' \in bus
  PROVE  asked' \in DOMAIN objects /\ IsPrefix(text, SerialOf(asked'))
<1>1. Null \notin bus /\ bus \subseteq DOMAIN objects
  BY ObjectFacts DEF IInv
<1>2. \E ans \in Answers : Hit(text, ans) /\ asked' = asked
  <2>1. ~OpenAsked
    BY DEF OpenAsked
  <2> QED
    BY <1>1, <2>1, AskCases DEF IInv, ToNext, Return
<1>3. PICK ans \in Answers : Hit(text, ans) /\ asked' = asked
  BY <1>2
<1>4. ans.text = SerialOf(asked)
  BY <1>3, AnswerFacts DEF IInv, ReadControl
<1> QED
  BY <1>1, <1>3, <1>4 DEF Hit

LEMMA SerialStep ==
  ASSUME IInv, Next
  PROVE  SerialKnown'
<1> SUFFICES ASSUME ~faulty, NEW a \in bus',
                    \/ pc' \in {"open", "read", "switch", "free", "check"} /\ a = dev'
                    \/ pc' = "named" /\ look' = "returned" /\ a = asked'
             PROVE  IsPrefix(serial', SerialOf(a)')
  <2>1. faulty' = faulty
    BY SameSerials
  <2> QED
    BY <2>1 DEF SerialKnown, IsPrefix
<1>0. a # Null
  BY NoNullBus
<1>1. SerialKnown /\ SwitchControl /\ ReadControl /\ TypeOK /\ Addressed
  BY DEF IInv
<1>2. \A x \in DOMAIN objects :
        /\ SerialOf(x)' = SerialOf(x)
        /\ IsPrefix(serial, SerialOf(x)) => IsPrefix(serial, SerialOf(x)')
        /\ x \in bus' => x \in bus
  BY SameSerials, BusLater
<1>3. {dev, asked} \subseteq DOMAIN objects \cup {Null} /\ listed \subseteq DOMAIN objects
      /\ bus \subseteq DOMAIN objects
  BY <1>1, ObjectFacts DEF Addressed
<1>4. \A x \in DOMAIN objects : IsPrefix(<<>>, SerialOf(x)) /\ IsPrefix(SerialOf(x), SerialOf(x))
  BY <1>1, SerialIsText, EmptyIsPrefix
<1>5. CASE ChooseNamed
  <2>1. a = asked /\ pc = "named" /\ look = "returned" /\ UNCHANGED serial
    BY <1>1, <1>5 DEF ChooseNamed, SwitchControl
  <2>2. a \in bus
    BY <1>0, <1>2, <1>3, <2>1
  <2> QED
    BY <1>1, <1>2, <1>3, <2>1, <2>2 DEF SerialKnown
<1>6. CASE ChooseDefault
  <2>1. a \in listed
    BY <1>0, <1>6 DEF ChooseDefault, AnyOf
  <2>2. serial' = <<>>
    BY <1>1, <1>6 DEF ChooseDefault, SwitchControl
  <2> QED
    BY <1>2, <1>3, <1>4, <2>1, <2>2
<1>7. CASE ReadSerial
  <2>1. PICK ans \in Answers : serial' = ans.text
    BY <1>7 DEF ReadSerial
  <2>2. a = dev /\ asked = dev
    BY <1>1, <1>7 DEF ReadSerial, ReadControl
  <2>3. a \in bus
    BY <1>0, <1>2, <1>3, <2>2
  <2>4. serial' = SerialOf(a)
    BY <1>1, <2>1, <2>2, <2>3, AnswerFacts DEF ReadControl
  <2> QED
    BY <1>2, <1>3, <1>4, <2>3, <2>4
<1>8. CASE SwitchAsks /\ pc = "named"
  <2>1. AskStep(given) /\ UNCHANGED <<serial, bus, pc>> /\ serial = given
    BY <1>1, <1>8 DEF SwitchAsks, AskStep, SwitchControl, process, switch
  <2>2. look' = "returned" /\ a = asked' /\ a \in bus
    BY <1>8, <2>1
  <2> QED
    BY <1>2, <1>8, <2>1, <2>2, TakenFacts
<1>9. CASE ~(ChooseNamed \/ ChooseDefault \/ ReadSerial \/ (SwitchAsks /\ pc = "named"))
  <2>1. /\ UNCHANGED serial
        /\ \/ pc \in {"open", "read", "switch", "free", "check"} /\ a = dev
           \/ pc = "named" /\ look = "returned" /\ a = asked
    <3>1. CASE SwitchStep
      <4>1. CASE GetDeviceList
        BY <1>1, <4>1 DEF GetDeviceList, reading, ReadControl
      <4>2. CASE SwitchAsks
        BY <1>9, <4>2 DEF SwitchAsks, process, switch
      <4>3. CASE OpenFails \/ Open \/ switch_to_qdl_mode \/ FreeList \/ Looked \/ GiveUp
        BY <4>3 DEF OpenFails, Open, switch_to_qdl_mode, FreeList, Looked, GiveUp
      <4>4. CASE Check
        BY <4>4 DEF Check, LookAgain, process
      <4> QED
        BY <1>9, <3>1, <4>1, <4>2, <4>3, <4>4 DEF SwitchStep
    <3>2. CASE FlashStep
      BY <3>2 DEF FlashStep, InitUsb, FlashAsks, FindNamed, FindDefault, OpenUsbFails, OpenUsb,
                  ClaimFails, Claim, AfterInit, UndoInit, Hello, DownloadTurn, Download, CloseUsb,
                  RunCommands, process
    <3>3. CASE StartFlash
      BY <3>3 DEF StartFlash
    <3>4. CASE PhoneStep
      BY <1>1, <3>4, PhoneFacts DEF PhoneStep, switch
    <3>5. CASE Ended
      BY <3>5 DEF Ended, vars, process, switch, reading
    <3> QED
      BY <3>1, <3>2, <3>3, <3>4, <3>5 DEF Next, ToolStep
  <2>2. a \in DOMAIN objects /\ a \in bus
    BY <1>0, <1>2, <1>3, <2>1
  <2> QED
    BY <1>1, <1>2, <2>1, <2>2 DEF SerialKnown
<1> QED
  BY <1>5, <1>6, <1>7, <1>8, <1>9

LEMMA MeantStep ==
  ASSUME IInv, Next
  PROVE  DeviceMeant'
<1> SUFFICES ASSUME ~faulty, NEW a \in Addresses,
                    \/ pc' = "openusb" /\ a = dev' /\ a \in bus'
                    \/ pc' = "findnamed" /\ look' = "returned" /\ a = asked' /\ a \in bus'
                    \/ pc' = "claim" /\ a = dev'
                    \/ usable' /\ a = handle'
                    \/ a = first'
             PROVE  Means(a)'
  <2>1. faulty' = faulty
    BY SameSerials
  <2> QED
    BY <2>1 DEF DeviceMeant
<1>0. a # Null
  BY DEF Addresses, Null
<1>1. DeviceMeant /\ SwitchControl /\ FlashControl /\ ReadControl /\ TypeOK /\ Addressed
  BY DEF IInv
<1>2. /\ {dev, handle, first, asked} \subseteq DOMAIN objects \cup {Null}
      /\ listed \subseteq DOMAIN objects /\ bus \subseteq DOMAIN objects
      /\ a \in DOMAIN objects /\ a \in bus' => a \in bus
  BY <1>1, BusLater, ObjectFacts DEF Addressed
<1>3. given' = given /\ Means(a) /\ a \in DOMAIN objects => Means(a)'
  <2>1. a \in DOMAIN objects => /\ SerialOf(a)' = SerialOf(a)
                                /\ is_legal_qdl_device(a)' = is_legal_qdl_device(a)
    BY SameSerials
  <2> QED
    BY <2>1 DEF Means, IsPrefix
<1> SUFFICES given' = given /\ Means(a) /\ a \in DOMAIN objects
  BY <1>3
<1>4. CASE SwitchStep /\ UNCHANGED flash
  <2>1. pc \in Switching /\ pc' \in Switching \cup {"switched"}
    BY <1>4 DEF SwitchStep, GetDeviceList, SwitchAsks, ChooseNamed, ChooseDefault, OpenFails, Open,
                ReadSerial, switch_to_qdl_mode, FreeList, Check, LookAgain, Looked, GiveUp,
                process, Switching
  <2> QED
    BY <1>0, <1>1, <1>4, <2>1 DEF SwitchControl, FlashControl, Switching, flash
<1>5. CASE FlashStep /\ UNCHANGED switch
  <2> USE <1>0, <1>1, <1>2 DEF DeviceMeant
  <2>1. CASE InitUsb
    BY <2>1 DEF InitUsb, reading, ReadControl
  <2>2. CASE FindNamed
    <3>1. /\ dev' = asked /\ pc = "findnamed" /\ look = "returned" /\ look' = "none"
          /\ pc' \in {"openusb", "undo"} /\ UNCHANGED <<bus, given, handle, usable, first>>
      BY <2>2 DEF FindNamed, Received, usb
    <3> QED
      BY <3>1
  <2>3. CASE FindDefault
    <3>1. a = dev' => a \in QdlListed
      BY <2>3 DEF FindDefault, AnyOf
    <3>2. /\ given = <<>> /\ UNCHANGED <<given, handle, usable, first>>
          /\ pc' \in {"openusb", "undo"}
      BY <2>3 DEF FindDefault, FlashControl
    <3> QED
      BY <3>1, <3>2 DEF Means, QdlListed
  <2>4. CASE OpenUsbFails
    BY <2>4 DEF OpenUsbFails
  <2>5. CASE OpenUsb
    BY <2>5 DEF OpenUsb, Opens, FlashControl, Looking
  <2>6. CASE ClaimFails
    BY <2>6 DEF ClaimFails
  <2>7. CASE Claim
    BY <2>7 DEF Claim, AfterInit, FlashControl
  <2>8. CASE UndoInit
    BY <2>8 DEF UndoInit
  <2>9. CASE CloseUsb
    BY <2>9 DEF CloseUsb, FlashControl, Transferring
  <2>10. CASE RunCommands
    BY <2>10 DEF RunCommands
  <2>11. CASE Hello \/ DownloadTurn \/ Download
    BY <2>11 DEF Hello, DownloadTurn, Download, process, flash
  <2>12. CASE FlashAsks
    <3>1. /\ AskStep(given) /\ pc = "findnamed" /\ pc' = pc /\ given' = given /\ given # <<>>
          /\ UNCHANGED <<bus, dev, handle, usable, first>>
      BY <2>12 DEF FlashAsks, AskStep, process, flash, FlashControl
    <3>2. look' = "returned" /\ asked' \in bus
            => asked' \in DOMAIN objects /\ IsPrefix(given, SerialOf(asked'))
      BY <3>1, TakenFacts
    <3>3. CASE look' = "returned" /\ a = asked' /\ a \in bus'
      BY <3>1, <3>2, <3>3 DEF Means
    <3>4. CASE (usable /\ a = handle) \/ a = first
      BY <3>1, <3>4
    <3> QED
      BY <3>1, <3>3, <3>4
  <2> QED
    BY <1>5, <2>1, <2>2, <2>3, <2>4, <2>5, <2>6, <2>7, <2>8, <2>9, <2>10, <2>11, <2>12 DEF FlashStep
<1>6. CASE StartFlash
  BY <1>0, <1>1, <1>6 DEF StartFlash, flash, SwitchControl, FlashControl
<1>7. CASE PhoneStep
  <2>1. UNCHANGED <<pc, given, dev, look, asked>> /\ UNCHANGED flash
    BY <1>1, <1>7, PhoneFacts DEF PhoneStep
  <2> QED
    BY <1>0, <1>1, <1>2, <2>1 DEF DeviceMeant, flash
<1>8. CASE Ended
  BY <1>0, <1>1, <1>2, <1>8 DEF Ended, vars, usb, process, reading, flash, DeviceMeant
<1> QED
  BY <1>4, <1>5, <1>6, <1>7, <1>8 DEF Next, ToolStep

LEMMA NotPassedStep ==
  ASSUME IInv, Next
  PROVE  NotPassed'
<1> SUFFICES ASSUME ~faulty, pc' = "check", dev' \in bus', look' # "none"
             PROVE  /\ Asking' => dev' \in rest' \cup {asked'}
                    /\ look' = "returned" => asked' # Null
  <2>1. faulty' = faulty
    BY SameSerials
  <2> QED
    BY <2>1 DEF NotPassed, Asking
<1>1. NotPassed /\ SerialKnown /\ ReadControl /\ TypeOK /\ Addressed
  BY DEF IInv
<1>2. Null \notin DOMAIN objects /\ bus \subseteq DOMAIN objects /\ dev \in DOMAIN objects \cup {Null}
  BY <1>1, ObjectFacts DEF Addressed
<1>3. ASSUME NEW text, AskStep(text), text = serial, pc = "check",
             UNCHANGED <<bus, dev>>
      PROVE  /\ Asking' => dev' \in rest' \cup {asked'}
             /\ look' = "returned" => asked' # Null
  <2>0. dev \in bus
    BY <1>3
  <2>1. CASE look = "none" /\ ToNext(Plus(refs, bus), bus) /\ rest' = bus \ {asked'}
    BY <1>3, <2>0, <2>1 DEF ToNext
  <2>2. CASE OpenAsked
    BY <1>1, <1>3, <2>0, <2>2 DEF OpenAsked, Asking, NotPassed
  <2>3. CASE Asking /\ Return(asked, Plus(refs, {asked}), own)
    BY <1>1, <2>3 DEF Return, Asking, ReadControl
  <2>4. ASSUME Asking, NEW ans \in Answers, ~Hit(text, ans)
        PROVE  dev \in rest
    <3>1. asked # dev
      <4> SUFFICES ASSUME asked = dev PROVE Hit(text, ans)
        BY <2>4
      <4>1. ans.r = 0 /\ ans.text = SerialOf(dev)
        BY <1>1, <2>0, AnswerFacts DEF ReadControl
      <4>2. IsPrefix(serial, SerialOf(dev))
        BY <1>1, <1>3, <2>0 DEF SerialKnown
      <4> QED
        BY <1>3, <4>1, <4>2 DEF Hit
    <3> QED
      BY <1>1, <1>3, <2>0, <2>4, <3>1 DEF NotPassed
  <2>5. CASE dev \in rest /\ ToNext(refs, own) /\ rest' = rest \ {asked'}
    BY <1>3, <2>5 DEF ToNext
  <2> QED
    BY <1>1, <1>3, <2>0, <2>1, <2>2, <2>3, <2>4, <2>5, AskCases
<1>4. CASE SwitchAsks
  BY <1>3, <1>4 DEF SwitchAsks, AskStep, process, switch
<1>5. CASE Check
  <2>1. CASE faulty
    BY <2>1
  <2>2. CASE CallDeviceFromSerial
    BY <1>3, <1>5, <2>2 DEF Check, LookAgain, AskStep, process
  <2> QED
    BY <1>5, <2>1, <2>2 DEF Check, LookAgain
<1>6. CASE PhoneStep
  <2>1. UNCHANGED <<pc, dev, look, rest, asked>>
    BY <1>1, <1>6, PhoneFacts DEF PhoneStep
  <2>2. dev \in bus
    <3>1. dev # Null
      BY NoNullBus, <2>1
    <3> QED
      BY <1>2, <2>1, <3>1, BusLater
  <2> QED
    BY <1>1, <2>1, <2>2 DEF NotPassed, Asking
<1>7. CASE ~(SwitchAsks \/ Check \/ PhoneStep \/ Ended)
  <2>1. CASE SwitchStep
    BY <1>7, <2>1 DEF SwitchStep, GetDeviceList, ChooseNamed, ChooseDefault, OpenFails, Open,
                      ReadSerial, switch_to_qdl_mode, FreeList, Looked, GiveUp, Received,
                      reading, ReadControl, IInv
  <2>2. CASE FlashStep \/ StartFlash
    BY <2>2 DEF FlashStep, InitUsb, FlashAsks, FindNamed, FindDefault, OpenUsbFails, OpenUsb,
                ClaimFails, Claim, AfterInit, UndoInit, Hello, DownloadTurn, Download, CloseUsb,
                RunCommands, StartFlash, process
  <2> QED
    BY <1>7, <2>1, <2>2 DEF Next, ToolStep
<1>8. CASE Ended
  BY <1>8 DEF Ended, Ends, vars, process
<1> QED
  BY <1>4, <1>5, <1>6, <1>7, <1>8

LEMMA SuccessStep ==
  ASSUME IInv, Next
  PROVE  SuccessMeansGone'
<1>0. faulty' = faulty
  BY SameSerials
<1>1. SuccessMeansGone /\ NotPassed /\ SwitchControl
  BY DEF IInv
<1>2. CASE Looked
  <2> SUFFICES ASSUME result' = "success", ~faulty
               PROVE  ~there'
    BY <1>0 DEF SuccessMeansGone
  <2>1. asked = Null /\ pc = "check" /\ look = "returned"
    BY <1>1, <1>2 DEF Looked, SwitchControl, Switching
  <2>2. dev \notin bus
    BY <1>1, <2>1 DEF NotPassed
  <2> QED
    BY <1>2, <2>1, <2>2 DEF Looked
<1>3. CASE SwitchStep /\ ~Looked
  BY <1>0, <1>1, <1>3
     DEF SwitchStep, GetDeviceList, SwitchAsks, ChooseNamed, ChooseDefault, OpenFails, Open,
         ReadSerial, switch_to_qdl_mode, FreeList, Check, LookAgain, GiveUp, switch, SuccessMeansGone
<1>4. CASE UNCHANGED switch
  BY <1>0, <1>1, <1>4 DEF switch, SuccessMeansGone
<1>5. CASE StartFlash
  BY <1>5 DEF StartFlash, SuccessMeansGone
<1> QED
  BY <1>2, <1>3, <1>4, <1>5 DEF Next, ToolStep, PhoneStep, Ended, vars
-------------------------------------------------------------------------------
LEMMA NextInv == IInv /\ [Next]_vars => IInv'
<1> SUFFICES ASSUME IInv, [Next]_vars PROVE IInv'
  OBVIOUS
<1>1. CASE Next
  <2>1. Covered' /\ Exact'
    <3>1. \A a \in Addresses : Balance(a)'
      BY <1>1, BalanceStep
    <3> QED
      BY <3>1 DEF Covered, Exact, Balance
  <2> QED
    BY <1>1, <2>1, TypeStep, SwitchControlStep, FlashControlStep, ReadControlStep, NoListStep,
       MeantStep, SerialStep, NotPassedStep, SuccessStep DEF IInv
<1>2. CASE UNCHANGED vars
  <2> USE <1>2 DEF vars, usb, process, reading, switch, flash, IInv
  <2>1. TypeOK' /\ Addressed'
    BY DEF TypeOK, UsbTypeOK, Addressed
  <2>2. SwitchControl' /\ FlashControl' /\ ReadControl' /\ NoList' /\ SuccessMeansGone'
    BY DEF SwitchControl, FlashControl, ReadControl, Asking, is_legal_qdl_device, NoList,
           SuccessMeansGone
  <2>3. Covered' /\ Exact'
    BY DEF Covered, One, Held, HoldsDev, Short, Open1, HandleOpen, ReadOpen, Exact, OpenedRight,
           Accounted
  <2>4. DeviceMeant' /\ SerialKnown' /\ NotPassed'
    BY DEF DeviceMeant, Means, SerialKnown, SerialOf, FromAddress, is_legal_device,
           is_legal_qdl_device, IsPrefix, NotPassed, Asking
  <2> QED
    BY <2>1, <2>2, <2>3, <2>4
<1> QED
  BY <1>1, <1>2

LEMMA Inductive == Spec => []IInv
BY InitInv, NextInv, PTL DEF Spec

(***************************************************************************)
(* Type correctness.                                                       *)
(***************************************************************************)
THEOREM TypeCorrect == Spec => []TypeOK
<1>1. IInv => TypeOK
  BY DEF IInv
<1> QED
  BY <1>1, Inductive, PTL

(***************************************************************************)
(* libusb objects are only used while the process has a reference on them, *)
(* those that device.c asks for their serial included, and no reference is *)
(* dropped that was not taken, but for one of the last of several QDL      *)
(* devices (device.c, to_qdl_mode.c, qdl_usb.c).                           *)
(***************************************************************************)
THEOREM ReferencesCover == Spec => []RefsCover
<1>1. IInv => RefsCover
  <2> SUFFICES ASSUME IInv PROVE RefsCover
    OBVIOUS
  <2>1. \A a \in Addresses : Held(a) \in Nat
    BY HeldFacts DEF Held, One
  <2>2. refs \in [Addresses -> Int]
    BY DEF IInv, TypeOK, UsbTypeOK
  <2>3. \A a \in Addresses : refs[a] >= IF status = -2 /\ a = dev THEN -1 ELSE 0
    <3> SUFFICES ASSUME NEW a \in Addresses
                 PROVE  refs[a] >= IF status = -2 /\ a = dev THEN -1 ELSE 0
      OBVIOUS
    <3>1. Short(a) <= IF status = -2 /\ a = dev THEN 1 ELSE 0
      BY DEF Short, One
    <3>2. Short(a) \in Nat /\ refs[a] >= Held(a) - Short(a)
      BY HeldFacts DEF IInv, Covered
    <3> QED
      BY <2>1, <2>2, <3>1, <3>2
  <2>4. ASSUME pc \in {"open", "read", "switch", "openusb", "claim"}
        PROVE  refs[dev] > 0
    <3>1. dev \in Addresses /\ status = 0
      BY <2>4, ObjectFacts
         DEF IInv, Addressed, SwitchControl, FlashControl, Switching, Looking
    <3>2. Held(dev) >= 1 /\ Short(dev) = 0
      BY <2>4, <3>1 DEF Held, HoldsDev, Short, One
    <3> QED
      BY <2>1, <2>2, <3>1, <3>2 DEF IInv, Covered
  <2>5. ASSUME look \in {"open", "string"}
        PROVE  refs[asked] > 0
    <3>1. asked \in Addresses /\ status = 0
      BY <2>5, ObjectFacts
         DEF IInv, Addressed, ReadControl, Asking, SwitchControl, FlashControl, Switching, Looking
    <3>2. Held(asked) >= 1 /\ Short(asked) = 0
      BY <2>5, <3>1 DEF IInv, ReadControl, Asking, Held, HoldsDev, Short, One
    <3> QED
      BY <2>1, <2>2, <3>1, <3>2 DEF IInv, Covered
  <2> QED
    BY <2>3, <2>4, <2>5 DEF RefsCover
<1> QED
  BY <1>1, Inductive, PTL

(***************************************************************************)
(* Without faults to_qdl_mode, and a qdl_usb_init that gave up, give back  *)
(* every reference they have taken, and every handle but at most one of    *)
(* each device that is not on the bus any more.                            *)
(***************************************************************************)
THEOREM EverythingReturned == Spec => []AllReturned
<1>1. IInv => AllReturned
  <2> SUFFICES ASSUME IInv, ~faulty,
                      \/ pc = "switched" /\ matched = 1 /\ serial # <<>>
                      \/ pc = "exited" /\ first = Null /\ status = -1
               PROVE  /\ refs = NothingHeld
                      /\ \A a \in Addresses : opened[a] <= (IF a \in bus THEN 0 ELSE 1)
    BY DEF AllReturned
  <2>1. listed = {} /\ Accounted
    BY DEF IInv, NoList, Accounted
  <2>2. ~usable
    BY DEF IInv, FlashControl, Switching
  <2>3. look = "none" /\ own = {}
    BY DEF IInv, ReadControl
  <2>4. \A a \in Addresses : Held(a) = 0 /\ Open1(a) = 0
    BY <2>1, <2>2, <2>3 DEF Held, HoldsDev, Open1, HandleOpen, ReadOpen, One
  <2>5. \A a \in Addresses : refs[a] = 0 /\ opened[a] <= IF a \in bus THEN 0 ELSE 1
    BY <2>1, <2>4 DEF IInv, Exact, OpenedRight
  <2> QED
    BY <2>5 DEF IInv, TypeOK, UsbTypeOK, NothingHeld
<1> QED
  BY <1>1, Inductive, PTL

(***************************************************************************)
(* The result of qdl_usb_init tells whether there is a handle, and the     *)
(* Sahara download always has one, of a device in QDL mode.                *)
(***************************************************************************)
THEOREM ResultTells == Spec => []HandleTells
<1>1. IInv => HandleTells
  <2> SUFFICES ASSUME IInv PROVE HandleTells
    OBVIOUS
  <2>1. usable => opened[handle] > 0
    <3> SUFFICES ASSUME usable PROVE opened[handle] > 0
      OBVIOUS
    <3>1. handle \in Addresses
      BY ObjectFacts DEF IInv, Addressed, FlashControl
    <3>2. Open1(handle) >= 1 /\ Open1(handle) \in Nat
      BY DEF Open1, HandleOpen, One
    <3> QED
      BY <3>1, <3>2 DEF IInv, Covered, TypeOK, UsbTypeOK
  <2>2. usable \in BOOLEAN
    BY DEF IInv, TypeOK
  <2> QED
    BY <2>1, <2>2 DEF IInv, FlashControl, Transferring, HandleTells
<1> QED
  BY <1>1, Inductive, PTL

(***************************************************************************)
(* When only one phone can be meant and no call fails, the phone that gets *)
(* the commands is the one that got the firehose image.                    *)
(***************************************************************************)
THEOREM CommandsToSamePhone == Spec => []SamePhone
<1>1. IInv => SamePhone
  <2> SUFFICES ASSUME IInv, pc = "commands", usable, ~faulty, Cardinality(Meant) = 1
               PROVE  objects[handle].phone = objects[first].phone
    BY DEF SamePhone
  <2>1. handle \in DOMAIN objects /\ first \in DOMAIN objects
    BY DEF IInv, Addressed, FlashControl
  <2>2. handle \in Addresses /\ first \in Addresses
    BY <2>1, ObjectFacts DEF IInv
  <2>3. Means(handle) /\ Means(first)
    BY <2>2 DEF IInv, DeviceMeant
  <2>4. objects[handle].phone \in Meant /\ objects[first].phone \in Meant
    BY <2>1, <2>3 DEF Meant, Means
  <2>5. Meant \subseteq Phones
    BY ObjectFacts DEF IInv, Meant
  <2>6. \E p : Meant = {p}
    BY <2>5, PhonesFit, FS_Subset, FS_Singleton
  <2> QED
    BY <2>4, <2>6
<1> QED
  BY <1>1, Inductive, PTL

(***************************************************************************)
(* Without faults, "success" of to_qdl_mode means that the phone it wrote  *)
(* the magic to was not on the bus when it last looked.                    *)
(***************************************************************************)
THEOREM SuccessIsGone == Spec => []SuccessMeansGone
<1>1. IInv => SuccessMeansGone
  BY DEF IInv
<1> QED
  BY <1>1, Inductive, PTL
===============================================================================
