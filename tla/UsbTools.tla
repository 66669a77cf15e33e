------------------------------- MODULE UsbTools -------------------------------
(***************************************************************************)
(* The two tools one after the other, as they are used, to_qdl_mode to     *)
(* bring a phone into QDL mode and flash to write it, while phones come    *)
(* and go on the bus at any time.                                          *)
(***************************************************************************)
EXTENDS QdlSwitch, QdlUsb

CONSTANT Serials   \* the arguments of -s, <<>> for a tool without it

vars == <<usb, process, reading, switch, flash>>

Init ==
  /\ pc \in {"to_qdl_mode", "flash"}
  /\ given \in Serials
  /\ UsbInit /\ FlashInit /\ SwitchInit

\* to_qdl_mode has exited, with whatever result; flash is another process.
StartFlash ==
  /\ pc = "switched"
  /\ pc' = "flash"
  /\ given' \in Serials
  /\ listed' = {} /\ dev' = Null
  /\ refs' = NothingHeld /\ opened' = NothingHeld
  /\ serial' = <<>> /\ matched' = 0 /\ tries' = 0 /\ result' = "none" /\ there' = FALSE
  /\ UNCHANGED <<objects, bus, boots, faulty, reading, flash>>

ToolStep ==
  \/ SwitchStep /\ UNCHANGED flash
  \/ FlashStep /\ UNCHANGED switch

Ends == {"switched", "done", "exited"}

\* Of interest while flash has not ended.
PhoneStep ==
  /\ pc \notin {"done", "exited"}
  /\ PhoneComes \/ PhoneLeaves
  /\ UNCHANGED <<switch, flash>>

Ended == pc \in Ends /\ UNCHANGED vars

Next == ToolStep \/ StartFlash \/ PhoneStep \/ Ended

Spec == Init /\ [][Next]_vars

\* The tools are single threads and every USB call they make returns.  Nothing
\* makes the Sahara loop end: it may have its next turn for ever.
FairSpec == Spec /\ WF_vars(pc # "download" /\ ToolStep)
-------------------------------------------------------------------------------
TypeOK ==
  /\ UsbTypeOK
  /\ pc \in {"to_qdl_mode", "named", "default", "open", "read", "switch", "free",
             "check", "flash", "findnamed", "finddefault", "openusb", "claim",
             "undo", "sahara", "download", "downloaded", "commands"} \cup Ends
  /\ given \in Serials
  /\ listed \subseteq Addresses /\ dev \in Addresses \cup {Null}
  /\ matched \in 0..MaxAddress /\ tries \in 0..MaxRetry
  /\ result \in {"none", "success", "failure"} /\ there \in BOOLEAN
  /\ status \in {0, -1, -2}
  /\ {handle, first} \subseteq Addresses \cup {Null} /\ usable \in BOOLEAN

(***************************************************************************)
(* A device object is only used while the process has a reference on it,   *)
(* and no reference is dropped that was not taken: get_device_from_serial  *)
(* and check_qdl_devices hand out references under conditions that their   *)
(* callers have to repeat.  One caller does not: with several devices in   *)
(* QDL mode (status -2) qdl_usb_init drops one too many of the last one.   *)
(***************************************************************************)
RefsCover ==
  /\ \A a \in Addresses : refs[a] >= (IF status = -2 /\ a = dev THEN -1 ELSE 0)
  /\ pc \in {"open", "read", "switch", "openusb", "claim"} => refs[dev] > 0
  /\ look \in {"open", "string"} => refs[asked] > 0

(***************************************************************************)
(* When no USB call fails on a device that is there, to_qdl_mode and a     *)
(* qdl_usb_init that gave up leave no reference behind, and no handle but  *)
(* one of each device that left while its serial was being read: every way *)
(* out of them has to give back what the way in has taken.  (One that      *)
(* to_qdl_mode chose and that left before it was opened, and one that is   *)
(* no phone, stay referenced; several QDL devices are above.)              *)
(***************************************************************************)
AllReturned ==
  /\ ~faulty
  /\ \/ pc = "switched" /\ matched = 1 /\ serial # <<>>
     \/ pc = "exited" /\ first = Null /\ status = -1
  => /\ refs = NothingHeld
     /\ \A a \in Addresses : opened[a] <= (IF a \in bus THEN 0 ELSE 1)

(***************************************************************************)
(* The result of qdl_usb_init says whether the handle can be used.  main   *)
(* looks at it the first time, so the Sahara download has an open handle   *)
(* of a device in QDL mode; the second time it does not, and it is exactly *)
(* when that call failed that the commands go to a handle that is NULL or  *)
(* closed.                                                                 *)
(***************************************************************************)
HandleTells ==
  /\ pc \in {"sahara", "commands"} => (usable <=> status = 0)
  /\ usable => opened[handle] > 0 /\ is_legal_qdl_device(handle)
  /\ pc \in {"sahara", "download", "downloaded"} => usable

\* The phones that the command line of flash can mean, of those that came up.
Meant ==
  {objects[a].phone : a \in
     {x \in DOMAIN objects : IF given = <<>> THEN is_legal_qdl_device(x)
                                             ELSE IsPrefix(given, SerialOf(x))}}

(***************************************************************************)
(* The phone that gets the commands is the one that got the firehose       *)
(* image, although main looks it up anew: when no call fails and only one  *)
(* phone that came up can be meant.                                        *)
(***************************************************************************)
SamePhone ==
  pc = "commands" /\ usable /\ ~faulty /\ Cardinality(Meant) = 1 =>
    objects[handle].phone = objects[first].phone

(***************************************************************************)
(* "success" of to_qdl_mode: at its last look the device that it wrote the *)
(* magic bytes to was not on the bus.  It is so when no USB call fails:    *)
(* then no device found means no device there.                             *)
(***************************************************************************)
SuccessMeansGone ==
  result = "success" /\ ~faulty => ~there

(***************************************************************************)
(* The same as to_qdl_mode.c:130 puts it: the device is gone, success;     *)
(* it is still there, failure.                                             *)
(***************************************************************************)
GoneMeansGone ==
  result = "success" => ~there

(***************************************************************************)
(* Both tools come to an end, whatever the phones do, unless the loop of   *)
(* dowload_firehose_image goes on for ever: the check loop is counted also *)
(* when libusb cannot be had, and its walks over the list end.             *)
(***************************************************************************)
ToolEnds == (pc \notin Ends ~> pc \in Ends) \/ <>[](pc = "download")
===============================================================================
