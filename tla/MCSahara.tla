------------------------------- MODULE MCSahara -------------------------------
(***************************************************************************)
(* Three segments for Sahara, asked for in every order and more than once, *)
(* as a boot loader reads the headers of an ELF image before its segments. *)
(***************************************************************************)
EXTENDS Sahara

CONSTANTS header, table, body

Parts == {header, table, body}
EveryPlan == UNION {[1..n -> Parts] : n \in 1..3}
ElfPlans == {<<header>>, <<header, table, body>>, <<header, body, body>>}
===============================================================================
