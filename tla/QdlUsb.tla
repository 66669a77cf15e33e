-------------------------------- MODULE QdlUsb --------------------------------
(***************************************************************************)
(* The life of the one device handle of flash: qdl_usb_init, called before *)
(* the Sahara download and again, its result ignored, three seconds after  *)
(* it, and qdl_usb_close (qdl_usb.c, main of flash.c).  The transfers in   *)
(* between are Sahara's and FlashSession's; here they only use the handle. *)
(***************************************************************************)
EXTENDS Libusb

VARIABLES
  status,   \* what the last qdl_usb_init returned
  handle,   \* the global handle: address of its device, Null for NULL
  usable,   \* what handle points at is open, and interface 0 is claimed
  first     \* the device that was sent the firehose image, Null before

flash == <<status, handle, usable, first>>

FlashInit ==
  /\ status = 0
  /\ handle = Null /\ usable = FALSE /\ first = Null

\* libusb_init and the list of qdl_usb_init; without the library the tool exits.
InitUsb ==
  /\ pc = "flash"
  /\ dev' = Null
  /\ \/ /\ faulty
        /\ pc' \in {"exited", "undo"}
        /\ status' = -1
        /\ UNCHANGED <<listed, refs>>
     \/ /\ listed' = bus
        /\ refs' = Plus(refs, bus)
        /\ status' = 0
        /\ pc' = IF given # <<>> THEN "findnamed" ELSE "finddefault"
  /\ UNCHANGED <<objects, bus, boots, faulty, opened, reading, given, handle, usable, first>>

FlashAsks ==
  /\ pc = "findnamed" /\ (CallDeviceFromSerial \/ get_device_from_serial(given))
  /\ UNCHANGED <<objects, bus, boots, faulty, process, flash>>

FindNamed ==
  /\ pc = "findnamed" /\ look = "returned"
  /\ dev' = asked
  /\ IF asked # Null /\ is_legal_qdl_device(asked)
     THEN pc' = "openusb" /\ UNCHANGED status
     ELSE pc' = "undo" /\ status' = -1
  /\ Received
  /\ UNCHANGED <<usb, given, listed, handle, usable, first>>

QdlListed == {a \in listed : is_legal_qdl_device(a)}

\* Without -s: of several devices one is taken into dev, without a reference.
FindDefault ==
  /\ pc = "finddefault"
  /\ dev' \in AnyOf(QdlListed)
  /\ refs' = Referenced(refs, QdlListed)
  /\ CASE QdlListed = {} -> pc' = "undo" /\ status' = -1
       [] Cardinality(QdlListed) = 1 -> pc' = "openusb" /\ UNCHANGED status
       [] OTHER -> pc' = "undo" /\ status' = -2
  /\ UNCHANGED <<objects, bus, boots, faulty, opened, reading,
                 given, listed, handle, usable, first>>

OpenUsbFails ==
  /\ pc = "openusb"
  /\ ~Opens(dev) \/ faulty
  /\ pc' = "undo" /\ status' = -1
  /\ UNCHANGED <<usb, reading, given, listed, dev, handle, usable, first>>

OpenUsb ==
  /\ pc = "openusb"
  /\ Opens(dev)
  /\ handle' = dev
  /\ opened' = Plus(opened, {dev})
  /\ pc' = "claim"
  /\ UNCHANGED <<objects, bus, boots, faulty, refs, reading,
                 given, listed, dev, status, usable, first>>

\* Mutant of ClaimFails: a failed claim is not reported.
ClaimFailsQuietly ==
  /\ pc = "claim"
  /\ dev \notin bus \/ faulty
  /\ pc' = "undo"
  /\ UNCHANGED <<usb, reading, given, listed, dev, status, handle, usable, first>>

ClaimFails ==
  /\ pc = "claim"
  /\ dev \notin bus \/ faulty
  /\ pc' = "undo" /\ status' = -1
  /\ UNCHANGED <<usb, reading, given, listed, dev, handle, usable, first>>

AfterInit == IF first = Null THEN "sahara" ELSE "commands"

Claim ==
  /\ pc = "claim"
  /\ dev \in bus
  /\ usable' = TRUE
  /\ pc' = AfterInit
  /\ UNCHANGED <<usb, reading, given, listed, dev, status, handle, first>>

\* qdl_usb_init fails: close, unref, free the list.  handle keeps its value.
\* main exits after the first call and goes on after the second.
UndoInit ==
  /\ pc = "undo"
  /\ opened' = Minus(opened, Pointed(handle))
  /\ refs' = Minus(Minus(refs, Pointed(dev)), listed)
  /\ listed' = {}
  /\ pc' = IF first = Null THEN "exited" ELSE "commands"
  /\ UNCHANGED <<objects, bus, boots, faulty, reading, given, dev, status, handle, usable, first>>

(***************************************************************************)
(* dowload_firehose_image.  The hello packets are exchanged once; then one *)
(* turn of the loop follows another, each with a read and a write that     *)
(* time out when the phone is silent or gone.  Nothing counts the turns:   *)
(* the loop ends only with a packet of the phone, or where the first turn  *)
(* without one follows the uninitialized packet_read_data.                 *)
(***************************************************************************)
Hello ==
  /\ pc = "sahara"
  /\ \/ handle \in bus /\ pc' = "download"
     \/ pc' = "exited"
  /\ UNCHANGED <<usb, reading, given, listed, dev, flash>>

DownloadTurn == pc = "download" /\ UNCHANGED <<usb, process, reading, flash>>

Download ==
  /\ pc = "download"
  /\ \/ handle \in bus /\ pc' = "downloaded"
     \/ pc' = "exited"
  /\ UNCHANGED <<usb, reading, given, listed, dev, flash>>

\* qdl_usb_close and sleep(3).
CloseUsb ==
  /\ pc = "downloaded"
  /\ first' = handle
  /\ opened' = Minus(opened, {handle})
  /\ handle' = Null /\ usable' = FALSE
  /\ pc' = "flash"
  /\ UNCHANGED <<objects, bus, boots, faulty, refs, reading, given, listed, dev, status>>

\* firehose_emmc_info and everything after it.  On a handle that is not open
\* a transfer crashes, or fails and main exits.
RunCommands ==
  /\ pc = "commands"
  /\ \/ /\ usable /\ handle \in bus
        /\ opened' = Minus(opened, {handle})
        /\ handle' = Null /\ usable' = FALSE
        /\ pc' = "done"
     \/ /\ pc' = "exited"
        /\ UNCHANGED <<opened, handle, usable>>
  /\ UNCHANGED <<objects, bus, boots, faulty, refs, reading, given, listed, dev, status, first>>

FlashStep ==
  \/ InitUsb \/ FlashAsks \/ FindNamed \/ FindDefault \/ OpenUsbFails \/ OpenUsb
  \/ ClaimFails \/ Claim \/ UndoInit \/ Hello \/ DownloadTurn \/ Download \/ CloseUsb
  \/ RunCommands
===============================================================================
