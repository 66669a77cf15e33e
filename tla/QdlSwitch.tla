------------------------------- MODULE QdlSwitch -------------------------------
(***************************************************************************)
(* main of to_qdl_mode.c: choose a phone, by -s or because it is the only  *)
(* one, write the magic bytes to its endpoints, and then look for its      *)
(* serial once a second: the switch is taken to have worked when no device *)
(* has it any more.  (-l only prints.)                                     *)
(***************************************************************************)
EXTENDS Libusb

CONSTANT MaxRetry   \* how often main looks

ASSUME MaxRetryAssumption == MaxRetry \in Nat

VARIABLES
  serial,   \* serial, what main looks for
  matched,  \* matched, devices found
  tries,    \* turns of the check loop
  result,   \* "none", "success" or "failure"
  there     \* whether the chosen device was on the bus when it was found gone

switch == <<serial, matched, tries, result, there>>

SwitchInit ==
  /\ serial = given /\ matched = 0
  /\ tries = 0 /\ result = "none" /\ there = FALSE

GetDeviceList ==
  /\ pc = "to_qdl_mode"
  /\ \/ /\ faulty                        \* libusb_init or the list fails
        /\ pc' = "switched"
        /\ UNCHANGED <<listed, refs>>
     \/ /\ listed' = bus
        /\ refs' = Plus(refs, bus)
        /\ pc' = IF given # <<>> THEN "named" ELSE "default"
  /\ UNCHANGED <<objects, bus, boots, faulty, opened, reading,
                 given, dev, serial, matched, tries, result, there>>

\* What main waits for in device.c: the device of -s, the serial of the device
\* it chose itself, or the device of the check loop.
SwitchAsks ==
  /\ \/ pc = "named" /\ (CallDeviceFromSerial \/ get_device_from_serial(given))
     \/ pc = "read" /\ OpenAsked
     \/ pc = "check" /\ get_device_from_serial(serial)
  /\ UNCHANGED <<objects, bus, boots, faulty, process, switch>>

\* -s: what is found and is no phone keeps its reference.
ChooseNamed ==
  /\ pc = "named" /\ look = "returned"
  /\ dev' = asked
  /\ pc' = IF asked # Null /\ is_legal_device(asked) THEN "open" ELSE "free"
  /\ Received
  /\ UNCHANGED <<usb, given, listed, serial, matched, tries, result, there>>

ChooseDefault ==
  /\ pc = "default"
  /\ LET legal == {a \in listed : is_legal_device(a)} IN
       /\ dev' \in AnyOf(legal)
       /\ refs' = Referenced(refs, legal)
       /\ matched' = Cardinality(legal)
       /\ pc' = IF Cardinality(legal) = 1 THEN "open" ELSE "free"
  /\ UNCHANGED <<objects, bus, boots, faulty, opened, reading,
                 given, listed, serial, tries, result, there>>

\* A device that does not open is left referenced; without -s it has counted.
OpenFails ==
  /\ pc = "open"
  /\ ~Opens(dev) \/ faulty
  /\ pc' = "free"
  /\ UNCHANGED <<usb, reading, given, listed, dev, serial, matched, tries, result, there>>

\* Without -s get_device_serial is called, to have a serial for the check.
Open ==
  /\ pc = "open"
  /\ Opens(dev)
  /\ opened' = Plus(opened, {dev})
  /\ matched' = 1
  /\ IF given # <<>> THEN pc' = "switch" /\ UNCHANGED <<look, asked>>
                     ELSE pc' = "read" /\ look' = "open" /\ asked' = dev
  /\ UNCHANGED <<objects, bus, boots, faulty, refs, own, rest,
                 given, listed, dev, serial, tries, result, there>>

ReadSerial ==
  /\ pc = "read"
  /\ \E ans \in Answers : serial' = ans.text /\ CloseAsked(ans)
  /\ Received
  /\ pc' = "switch"
  /\ UNCHANGED <<objects, bus, boots, faulty, refs,
                 given, listed, dev, matched, tries, result, there>>

\* switch_to_qdl_mode writes the magic to every OUT endpoint it can claim.
switch_to_qdl_mode ==
  /\ pc = "switch"
  /\ boots' \in {[boots EXCEPT ![objects[dev].phone] = "qdl"]}
                  \cup (IF faulty \/ dev \notin bus THEN {boots} ELSE {})
  /\ dev \notin bus => boots' = boots
  /\ opened' = Minus(opened, {dev})
  /\ refs' = Minus(refs, {dev})
  /\ pc' = "free"
  /\ UNCHANGED <<objects, bus, faulty, reading,
                 given, listed, dev, serial, matched, tries, result, there>>

\* Mutant of FreeList: the list is freed, the references of its devices are not.
FreeListOnly ==
  /\ pc = "free"
  /\ listed' = {}
  /\ pc' = IF matched = 1 THEN "check" ELSE "switched"
  /\ UNCHANGED <<usb, reading, given, dev, serial, matched, tries, result, there>>

FreeList ==
  /\ pc = "free"
  /\ refs' = Minus(refs, listed)
  /\ listed' = {}
  /\ pc' = IF matched = 1 THEN "check" ELSE "switched"
  /\ UNCHANGED <<objects, bus, boots, faulty, opened, reading,
                 given, dev, serial, matched, tries, result, there>>
-------------------------------------------------------------------------------
(***************************************************************************)
(* The check loop: no device found is success, whatever the reason.  The   *)
(* reference on one that is found is dropped again.                        *)
(***************************************************************************)
\* libusb_init, which may fail, and the call of get_device_from_serial.
LookAgain ==
  /\ pc = "check" /\ look = "none"
  /\ \/ faulty /\ UNCHANGED <<refs, opened, reading>>
     \/ CallDeviceFromSerial
  /\ UNCHANGED <<objects, bus, boots, faulty, process, serial, matched, result, there>>

\* Mutants of Check: the turns are not counted, or one turn too many.
CheckUncounted == tries < MaxRetry /\ LookAgain /\ UNCHANGED tries

CheckOnceMore == tries <= MaxRetry /\ LookAgain /\ tries' = tries + 1

Check == tries < MaxRetry /\ LookAgain /\ tries' = tries + 1

Looked ==
  /\ pc = "check" /\ look = "returned"
  /\ refs' = Minus(refs, Pointed(asked))
  /\ IF asked = Null
     THEN result' = "success" /\ there' = (dev \in bus) /\ pc' = "switched"
     ELSE UNCHANGED <<result, there, pc>>
  /\ Received
  /\ UNCHANGED <<objects, bus, boots, faulty, opened,
                 given, listed, dev, serial, matched, tries>>

GiveUp ==
  /\ pc = "check" /\ look = "none"
  /\ tries = MaxRetry
  /\ result' = "failure"
  /\ pc' = "switched"
  /\ UNCHANGED <<usb, reading, given, listed, dev, serial, matched, tries, there>>

SwitchStep ==
  \/ GetDeviceList \/ SwitchAsks \/ ChooseNamed \/ ChooseDefault \/ OpenFails \/ Open
  \/ ReadSerial \/ switch_to_qdl_mode \/ FreeList \/ Check \/ Looked \/ GiveUp
===============================================================================
