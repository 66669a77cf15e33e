-------------------------------- MODULE Libusb --------------------------------
(***************************************************************************)
(* The phones on the USB bus as libusb shows them, what a process of the   *)
(* two tools holds of them, and device.c, by which both tools choose a     *)
(* device.                                                                 *)
(*                                                                         *)
(* A libusb_device stands for one enumeration: a phone that leaves and     *)
(* comes back is another object with another address.  Objects are named   *)
(* by their address, 0 is the null pointer.                                *)
(***************************************************************************)
EXTENDS Integers, Sequences, FiniteSets, SequencesExt

CONSTANTS
  Phones,      \* the phones
  SerialIn,    \* SerialIn[p][m]: what p answers for its serial in mode m, <<>> if nothing
  MaxAddress,  \* bound of the model: how often a phone comes up
  Faults       \* whether USB calls may fail on a device that is there: a set of BOOLEAN

Modes == {"phone", "qdl"}   \* vendor 1bbb, and 05c6:9008
Addresses == 1..MaxAddress
Null == 0

ASSUME SerialsAreText ==
  \A p \in Phones, m \in Modes : SerialIn[p][m] \in Seq(Nat \ {0})

ASSUME FaultsAssumption == MaxAddress \in Nat /\ Faults \subseteq BOOLEAN

\* All phones may be there at the start.
ASSUME PhonesFit == IsFiniteSet(Phones) /\ Cardinality(Phones) <= MaxAddress

VARIABLES
  objects,  \* objects[a]: the phone, and its mode, that came up as address a
  bus,      \* addresses on the bus
  boots,    \* boots[p]: the mode in which p comes up next
  faulty,   \* whether calls fail in this behaviour
  refs,     \* refs[a]: references the process has on the object
  opened,   \* opened[a]: handles of it that the process has open
  pc,       \* where the control of the process is
  given,    \* the argument of its -s, <<>> without one
  listed,   \* devs, the devices of its list
  dev,      \* the device it chose
  look,     \* where get_device_from_serial and get_device_serial stand
  own,      \* devs of get_device_from_serial
  rest,     \* those of them that its loop has not come to
  asked     \* the device in the loop, what get_device_serial is called with

process == <<pc, given, listed, dev>>

reading == <<look, own, rest, asked>>

usb == <<objects, bus, boots, faulty, refs, opened>>

NothingHeld == [a \in Addresses |-> 0]

UsbInit ==
  /\ boots \in [Phones -> Modes]
  /\ \E S \in SUBSET Phones :
       objects \in {[k \in DOMAIN q |-> [phone |-> q[k], mode |-> boots[q[k]]]] :
                      q \in SetToSeqs(S)}
  /\ bus = DOMAIN objects
  /\ faulty \in Faults
  /\ refs = NothingHeld /\ opened = NothingHeld
  /\ listed = {} /\ dev = Null
  /\ look = "none" /\ own = {} /\ rest = {} /\ asked = Null

OnBus(p) == \E a \in bus : objects[a].phone = p

PhoneComes ==
  /\ Len(objects) < MaxAddress
  /\ \E p \in Phones :
       /\ ~OnBus(p)
       /\ objects' = Append(objects, [phone |-> p, mode |-> boots[p]])
       /\ bus' = bus \cup {Len(objects')}
  /\ UNCHANGED <<boots, faulty, refs, opened, process, reading>>

PhoneLeaves ==
  /\ \E a \in bus : bus' = bus \ {a}
  /\ UNCHANGED <<objects, boots, faulty, refs, opened, process, reading>>
-------------------------------------------------------------------------------
Plus(f, S) == [a \in Addresses |-> IF a \in S THEN f[a] + 1 ELSE f[a]]
Minus(f, S) == [a \in Addresses |-> IF a \in S THEN f[a] - 1 ELSE f[a]]
Pointed(a) == {a} \ {Null}

\* libusb_open finds the device.
Opens(a) == a \in bus

is_legal_device(a) == objects[a].mode = "phone"
is_legal_qdl_device(a) == objects[a].mode = "qdl"

(***************************************************************************)
(* get_device_serial: the serial string descriptor or, where the phone     *)
(* does not have one or does not answer for it, vendor, product, bus,      *)
(* address and port.  The phone may leave before any of its calls.         *)
(***************************************************************************)
FromAddress(a) == <<0, IF is_legal_device(a) THEN 1 ELSE 2, a>>

SerialOf(a) ==
  LET own_text == SerialIn[objects[a].phone][objects[a].mode]
  IN IF own_text # <<>> THEN own_text ELSE FromAddress(a)

Answer(r, text) == [r |-> r, text |-> text]

OpenAsked ==
  /\ look = "open"
  /\ Opens(asked)
  /\ opened' = Plus(opened, {asked})
  /\ look' = "string"
  /\ UNCHANGED <<refs, own, rest, asked>>

Failing == IF faulty THEN TRUE ELSE asked \notin bus

(***************************************************************************)
(* What it can return, and the serial it has put out by then.  From        *)
(* "open": the ports are not known, or the device does not open, when      *)
(* their number is returned.  From "string", with the handle: the          *)
(* languages cannot be read, or there are none; the string is read, or it  *)
(* cannot be.  A phone that leaves between these two transfers gives what  *)
(* one gives that left before both.                                        *)
(***************************************************************************)
Answers ==
  CASE look = "open" ->
         {x \in {Answer(1, <<>>)} : Failing} \cup {x \in {Answer(-1, <<>>)} : faulty}
    [] look = "string" ->
         {Answer(0, SerialOf(a)) : a \in {asked} \cap bus}
           \cup {x \in {Answer(-1, <<>>), Answer(0, FromAddress(asked))} : Failing}
           \cup {x \in {Answer(0, <<>>)} : faulty}
    [] OTHER -> {}

\* Mutant of CloseAsked: the handle is not closed.
CloseAskedNever(ans) == UNCHANGED opened

\* The returns without a serial leave the handle open.
CloseAsked(ans) ==
  opened' = IF ans.text # <<>> THEN Minus(opened, {asked}) ELSE opened

(***************************************************************************)
(* get_device_from_serial: the first device of its list whose serial       *)
(* starts with the given text, referenced for the caller, or Null.  The    *)
(* order of the list is libusb's.                                          *)
(***************************************************************************)
AnyOf(S) == IF S = {} THEN {Null} ELSE S

\* The head of the loop, with f for the references: the next device, or the
\* end; the list is freed and a is returned.
Return(a, f, list) ==
  /\ refs' = Minus(f, list)
  /\ own' = {} /\ rest' = {}
  /\ asked' = a
  /\ look' = "returned"

NextDevice(f, list, S) ==
  \/ S = {} /\ Return(Null, f, list)
  \/ /\ \E a \in S : asked' = a /\ rest' = S \ {a}
     /\ own' = list /\ refs' = f
     /\ look' = "open"

\* The call; without a list it returns Null.
CallDeviceFromSerial ==
  /\ look = "none"
  /\ \/ NextDevice(Plus(refs, bus), bus, bus)
     \/ faulty /\ Return(Null, refs, {})
  /\ UNCHANGED opened

\* Mutant of Hit: the serials are not compared.
HitAny(text, ans) == ans.r >= 0

Hit(text, ans) == ans.r >= 0 /\ IsPrefix(text, ans.text)

TakeDevice(text) ==
  /\ \E ans \in Answers : Hit(text, ans) /\ CloseAsked(ans)
  /\ Return(asked, Plus(refs, {asked}), own)

\* Mutant of PassDevice: the loop ends with the first device.
PassAll(text) ==
  /\ \E ans \in Answers : ~Hit(text, ans) /\ CloseAsked(ans)
  /\ Return(Null, refs, own)

PassDevice(text) ==
  /\ \E ans \in Answers : ~Hit(text, ans) /\ CloseAsked(ans)
  /\ NextDevice(refs, own, rest)

get_device_from_serial(text) ==
  OpenAsked \/ TakeDevice(text) \/ PassDevice(text)

\* The caller goes on.
Received == look' = "none" /\ asked' = Null /\ UNCHANGED <<own, rest>>

\* Mutant of Referenced: the callers drop a reference that was not taken.
ReferencedNever(f, legal) == f

\* check_devices and check_qdl_devices: the candidate is the last legal device
\* of the list, referenced when it is the only one.
Referenced(f, legal) == IF Cardinality(legal) = 1 THEN Plus(f, legal) ELSE f
-------------------------------------------------------------------------------
UsbTypeOK ==
  /\ objects \in Seq([phone : Phones, mode : Modes])
  /\ bus \subseteq DOMAIN objects
  /\ boots \in [Phones -> Modes]
  /\ refs \in [Addresses -> Int]
  /\ opened \in [Addresses -> Nat]
  /\ look \in {"none", "open", "string", "returned"}
  /\ own \subseteq Addresses /\ rest \subseteq own /\ asked \in Addresses \cup {Null}
===============================================================================
