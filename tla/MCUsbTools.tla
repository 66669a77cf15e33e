------------------------------ MODULE MCUsbTools ------------------------------
(***************************************************************************)
(* Two phones.  Phone 1 has a serial number as a phone and none in QDL     *)
(* mode, so that it is known by its address there.  Phone 2 has the same   *)
(* one in both modes, and the serial of phone 1 starts with it.            *)
(***************************************************************************)
EXTENDS UsbTools

TwoPhones == 1..2

TheirSerials ==
  <<[phone |-> <<1, 2>>, qdl |-> <<>>], [phone |-> <<1>>, qdl |-> <<1>>]>>

\* No -s, and a text that the serials of both phones start with.
CommandLines == {<<>>, <<1>>}
===============================================================================
