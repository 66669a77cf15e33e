------------------------------ MODULE ImageWrite ------------------------------
(***************************************************************************)
(* What writing an image file promises, whatever its format: the storage   *)
(* only ever receives cells that the file has at that address, nothing     *)
(* stored is changed again while the file is being written, and success is *)
(* reported only when every cell of the file is stored.  The one exception *)
(* ends the program: it may lose what the storage has at the addresses     *)
(* that the file exposes.                                                  *)
(***************************************************************************)
CONSTANTS
  Files,          \* the image files
  Holds(_, _, _), \* Holds(f, a, v): file f puts v at address a
  Wanted(_),      \* the addresses file f has data for
  Exposed(_)      \* the addresses of f whose contents can be lost

VARIABLES
  file,    \* the file being written
  disk,    \* address -> cell, what has been stored of it
  result   \* "idle", "busy", "ok", "fatal" or "lost"

vars == <<file, disk, result>>

Right(f, d) == \A a \in DOMAIN d : Holds(f, a, d[a])

Kept(d, e) == DOMAIN d \subseteq DOMAIN e /\ \A a \in DOMAIN d : e[a] = d[a]

Complete(f, d) == Wanted(f) \subseteq DOMAIN d

Init == result = "idle" /\ file \in Files /\ DOMAIN disk = {}

Begin ==
  /\ result \in {"idle", "ok"}
  /\ result' = "busy"
  /\ file' \in Files
  /\ DOMAIN disk' = {}

Store ==
  /\ result = "busy"
  /\ result' \in {"busy", "fatal"}
  /\ Right(file, disk') /\ Kept(disk, disk')
  /\ UNCHANGED file

Succeed ==
  /\ result = "busy"
  /\ Complete(file, disk)
  /\ result' = "ok"
  /\ UNCHANGED <<file, disk>>

Spoil ==
  /\ result = "busy"
  /\ result' = "lost"
  /\ DOMAIN disk' \subseteq DOMAIN disk \cup Exposed(file)
  /\ \A a \in DOMAIN disk \ Exposed(file) : a \in DOMAIN disk' /\ disk'[a] = disk[a]
  /\ UNCHANGED file

Next == Begin \/ Store \/ Succeed \/ Spoil

Spec == Init /\ [][Next]_vars
===============================================================================
